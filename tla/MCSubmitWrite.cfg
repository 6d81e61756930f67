SPECIFICATION Spec
CONSTANTS
  p1 = p1  p2 = p2  k1 = k1  k2 = k2
  None = None
  Tools = {"note", "draft", "order", "hours", "plan_create", "plan_update", "plan_decision"}
  Hashes = {h1}
  Actors = {a1}
  Plans = {p1, p2}
  Keys = {k1, k2}
  Calls = {c1, c2}
  OwnKey <- MCOwnKey
  PlanTTL = 1
  Window = 1
  MaxNow = 2
  MaxEdits = 2
SYMMETRY Symmetry
INVARIANTS ReceiptBacked OrderedOnce LateCallsRefused OneOkPerConfirmation
CHECK_DEADLOCK FALSE
