SPECIFICATION FairSpec
CONSTANTS
  b10 = b10
  b10x = b10x
  Batches = {b10}
  B10 = b10
  Hard = {b10}
  Deepen = {}
  Missing = {}
  MethodCount <- MCMethodCount
  CollectMax <- MCCollectMax
  Quiet = 1
  Renew = 1
  MaxRuns = 1
  MaxPolls = 1
  MaxFaults = 1
INVARIANTS TypeOK 
PROPERTY B10Settles
CHECK_DEADLOCK FALSE
