SPECIFICATION Spec
CONSTANTS
  b10 = b10
  b10x = b10x
  Batches = {b10, b10x}
  B10 = b10
  Hard = {b10}
  Deepen = {b10x}
  Missing = {}
  MethodCount <- MCMethodCount
  CollectMax <- MCCollectMax
  Quiet = 1
  Renew = 1
  MaxRuns = 1
  MaxPolls = 1
  MaxFaults = 0
INVARIANT NeverOnlyKicked
CHECK_DEADLOCK FALSE
