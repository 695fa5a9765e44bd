\* Events raised at any time, across uninit and init; no channel starves.
SPECIFICATION FairSpec
CONSTANTS
  IPC_CONF_NUM = 3
  Configs <- TwoConfigs
  NULL = NULL
  LibHandler = LibHandler
INVARIANTS NoEventLost NoNullCall QuietWhenDown IpcInv
PROPERTIES EventServed
