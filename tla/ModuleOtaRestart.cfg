SPECIFICATION Spec
CONSTANTS
  hot = hot
  panel = panel
  Worker <- MCWorker
  Asks <- MCAsks
  MaxVersion = 3
  KeepRollback = 1
  Env <- ProdHot
  MaxOps = 3
  MaxCrash = 0
  None = None
  Torn = Torn
  Builtin = Builtin
INVARIANT RestartSucceeds
CHECK_DEADLOCK FALSE
