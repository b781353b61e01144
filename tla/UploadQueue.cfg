CONSTANTS
  Batches = {"B10_hw_curves", "B10x_silicon_ulp", "B19_media"}
  Sessions = {s1, s2}
  NoSession = none
  Replies <- MCReplies
  MaxAttempts <- MCMaxAttempts
  SealCap = 2
  SealWaitMax = 2
  ConcurrencyMax = 2
  HeavyMax = 1
  RowCap = 1
  MaxCaptures = 2
  MaxFaults = 1
  MaxEvents = 1
SPECIFICATION Spec
CHECK_DEADLOCK FALSE
INVARIANTS TypeOK HeavySerial HaltDrains SlotsReturned
SYMMETRY CycleSymmetry
