SPECIFICATION Spec
CONSTANTS
  None = None
  Daemons = {d1, d2}
  Starts = {c1}
  Clients = {u1}
  Stops = {s1}
 
PROPERTIES UserEnds StopEnds ShutdownHeard OrphanEnds
CHECK_DEADLOCK FALSE
