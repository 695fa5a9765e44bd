\* The main thread through all outcomes of its calls.
SPECIFICATION Spec
CONSTANTS
  LC_MAX_READ_LENGTH = 1
  MaxSockets = 3
  MaxOpens = 2
  Inputs = {13, 65}
  StoredModes = {FALSE, TRUE}
  NULL = NULL
INVARIANTS AppInv SocketDiscipline SocketsExplained SocketsSuffice RegistrationGate GpsModeExplained
CHECK_DEADLOCK FALSE
