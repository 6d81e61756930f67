SPECIFICATION FairSpec
CONSTANTS
  None = None
  Jobs = {j1, j2}
  Kinds = {k1, k2}
  Cancels = {x1, x2}
  FinishedCap = 1
  Retention = 0
  MaxNow = 1
INVARIANTS KindExclusive QuietRegistryBounded
PROPERTIES EndIsFinal WorkersEnd
CHECK_DEADLOCK FALSE
