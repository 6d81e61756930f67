SPECIFICATION Spec
CONSTANTS
  None = None
  Tools = {"create", "update"}
  Hashes = {h1, h2}
  SigOf <- MCSameSig
  Skew = 1
  FlightsFit = TRUE
  Actors = {a1}
  Plans = {p1, p2}
  Calls = {c1, c2, c3}
  Loads <- MCLoads
  Foreign = {f1}
  MaxEdits = 1
  PlanTTL = 1
  Window = 2
SYMMETRY MCSymmetry
INVARIANTS TypeOK ReceiptBacked  
CHECK_DEADLOCK FALSE
