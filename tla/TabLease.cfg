CONSTANTS
  Tabs = {a, b}
  NoTab = none
  MaxOpens = 3
  MaxHides = 2
SPECIFICATION Spec
CHECK_DEADLOCK FALSE
INVARIANTS TypeOK HeavyHoldsLock
PROPERTIES ImplementsHeavyRole 
