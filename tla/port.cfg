\* Interrupt, handler and sleeping threads together; two channels.
SPECIFICATION FairSpec
CONSTANTS
  Threads = {t1, t2}
  Contexts = {0}
  Timeouts <- Untimed
  IntMax = 127
  UsPerMs = 8
  CapUs = 50
  MaxPosts = 2
  MaxInits = 1
  Head = Head
  NULL = NULL
  IPC_CONF_NUM = 2
  Configs <- AllEnabled
  LibHandler = LibHandler
  ContextOf <- Everybody
  MaxBacklog = 0
INVARIANTS PortInv
PROPERTIES EventWakes IrqEnds
