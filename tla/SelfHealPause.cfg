SPECIFICATION FairSpec
CONSTANTS
  b10 = b10
  b10x = b10x
  Batches = {b10}
  B10 = b10
  Hard = {b10}
  Deepen = {}
  Missing = {}
  MethodCount <- MCMethodCount
  CollectMax <- MCCollectMax
  Quiet = 3
  Renew = 2
  MaxRuns = 1
  MaxPolls = 1
  MaxFaults = 0
PROPERTY PauseEnds
CHECK_DEADLOCK FALSE
