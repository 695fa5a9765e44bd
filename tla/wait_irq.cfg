\* One initialization, the modem's interrupt and a shutdown under threads that
\* sleep for two contexts: first, middle and last node of the list.
SPECIFICATION Spec
CONSTANTS
  Threads = {t1, t2, t3}
  Contexts = {0, 1}
  Timeouts = {1}
  IntMax = 127
  UsPerMs = 8
  CapUs = 50
  MaxPosts = 1
  MaxInits = 1
  MayShutdown = TRUE
  Head = Head
  NULL = NULL
SYMMETRY Symmetry
INVARIANTS ListWhole
PROPERTIES ImplementsWaitNotify ShutdownPassesNobody
