SPECIFICATION Spec
CONSTANTS
  p1 = p1  p2 = p2  k1 = k1  k2 = k2  c1 = c1  c2 = c2  c3 = c3
  None = None
  Hashes = {h1}
  Actors = {a1}
  Plans = {p1}
  Keys = {k1}
  Calls = {c1, c2}
  OwnKey <- MCOnePlanKey
  KeysFor <- MCOnePlanKeys
  Tool = "change_create"
  FlightsFit = TRUE
  PlanTTL = 1
  Window = 2
  MaxNow = 2
  MaxMod = 2
INVARIANTS InvalidMeansNotApplied
CHECK_DEADLOCK FALSE
