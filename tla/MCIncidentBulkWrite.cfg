SPECIFICATION Spec
CONSTANTS
  None = None
  N = 2
  Patches = {patch1}
  Actors = {a1}
  Plans = {p1, p2}
  Calls = {c1, c2}
  Hashes <- MCHashes
  MaxVersion = 1
  PlanTTL = 2
  Window = 1
  MaxNow = 1
SYMMETRY MCSymmetry
INVARIANTS ReceiptTrue DurableBeforeNext TargetOnce
PROPERTY OutcomeFinal
CHECK_DEADLOCK FALSE
