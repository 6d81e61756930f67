SPECIFICATION Spec
CONSTANTS
  p1 = p1  p2 = p2  k1 = k1  k2 = k2  c1 = c1  c2 = c2  c3 = c3
  None = None
  Hashes = {h1, h2}
  Actors = {a1}
  Plans = {p1, p2}
  Keys = {k1, k2}
  Calls = {c1, c2}
  OwnKey <- MCOwnKey
  KeysFor <- MCSharedKey
  Tool = "incident_update"
  FlightsFit = TRUE
  PlanTTL = 1
  Window = 2
  MaxNow = 2
  MaxMod = 2
SYMMETRY Symmetry
INVARIANTS TypeOK SingleClaim ReceiptBacked AppliedOnce ReplayBacked
PROPERTIES ReceiptStable Governed
CHECK_DEADLOCK FALSE
