SPECIFICATION Spec
CONSTANTS
  hot = hot
  panel = panel
  Worker <- MCWorker
  Asks <- MCAsks
  MaxVersion = 3
  KeepRollback = 1
  Env <- MCEnvs
  MaxOps = 3
  MaxCrash = 1
  None = None
  Torn = Torn
  Builtin = Builtin
INVARIANTS TypeOK FloorHolds
PROPERTIES OkMeansActive OkInstallRestarts PruneKeepsRollback
CHECK_DEADLOCK FALSE
