\* What the comment above nrf_modem_os_timedwait says of its result 0.
SPECIFICATION Spec
CONSTANTS
  Threads = {t1}
  Contexts = {0}
  Timeouts <- ShortTimeouts
  IntMax = 127
  UsPerMs = 8
  CapUs = 50
  MaxPosts = 1
  MaxInits = 1
  MayShutdown = FALSE
  Head = Head
  NULL = NULL
PROPERTIES ZeroMeansWoken
