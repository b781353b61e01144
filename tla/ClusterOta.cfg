SPECIFICATION Spec
CONSTANTS
  analyze = analyze
  brain = brain
  Module <- MCModule
  Analyze = analyze
  p1 = p1
  p2 = p2
  Panel <- MCPanel
  Asks <- MCAsks
  Hot = Hot
  MaxRelease = 2
  InitMarkers <- Installed
  InitDesired <- MCDesired
  MaxOps = 2
  MaxFail = 1
  MaxCrash = 1
  None = None
INVARIANT TypeOK
PROPERTIES   SwitchAtMostOneRequestOld
CHECK_DEADLOCK FALSE
