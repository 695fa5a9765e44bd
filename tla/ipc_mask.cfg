\* What the handler's first parameter is called in nrfx_ipc.h.
SPECIFICATION Spec
CONSTANTS
  IPC_CONF_NUM = 2
  Configs <- OneConfig
  NULL = NULL
  LibHandler = LibHandler
INVARIANTS HandlerGetsEventMask
