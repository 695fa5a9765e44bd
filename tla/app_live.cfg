\* The main thread gets to its idle loop.
SPECIFICATION FairSpec
CONSTANTS
  LC_MAX_READ_LENGTH = 1
  MaxSockets = 2
  MaxOpens = 1
  Inputs = {}
  StoredModes = {FALSE}
  NULL = NULL
PROPERTIES MainSettles
CHECK_DEADLOCK FALSE
