\* Shutdown and a second nrf_modem_init while threads are still asleep.
SPECIFICATION FairSpec
CONSTANTS
  Threads = {t1, t2}
  Contexts = {0}
  Timeouts <- EdgeTimeouts
  IntMax = 127
  UsPerMs = 8
  CapUs = 50
  MaxPosts = 1
  MaxInits = 2
  MayShutdown = TRUE
  Head = Head
  NULL = NULL
INVARIANTS WaitInv
PROPERTIES ResultSound WaitReturns WalkAdvances
CHECK_DEADLOCK FALSE
