SPECIFICATION Spec
CONSTANTS
  n1 = n1
  n2 = n2
  k1 = k1
  Node = {n1, n2}
  Key = {k1}
  KeyOf <- MCKeyOf
  Window = 1
  StaleAfter = 1
  MaxSkew = 1
  MaxTime = 4
  MaxGen <- MCMaxGen
  MaxBeats <- MCMaxBeats
  NoEntry = NoEntry
INVARIANTS TypeOK DeadPeerForgotten
PROPERTIES RegressionOnlyAcrossSigning
CHECK_DEADLOCK FALSE
