SPECIFICATION Spec
CONSTANTS
  d1 = d1
  d2 = d2
  Proc = {p1}
  Enqueuer = {e1}
  Drainer <- TwoDrainers
  MaxItems = 4
  MaxOutbox = 1
  MaxDlq = 1
  MaxN = 1
  MaxAttempts = 2
  MaxCrash = 1
  MaxDiskFail = 1
  None = None
SYMMETRY Symmetry
INVARIANTS TypeOK InOnePlace OutboxBounded SavedWhenQuiet
CHECK_DEADLOCK FALSE
