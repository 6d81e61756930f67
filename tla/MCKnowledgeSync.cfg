SPECIFICATION Spec
CONSTANTS
  None = None
  Articles = {1, 2}
  Syncs = {s1, s2}
  Readers = {r1}
  PageSize = 1
  MaxEdits = 2
  MaxSecond = 2
  MaxStarts = 2
INVARIANTS CaughtUp 
PROPERTY PublishedSurvives
CHECK_DEADLOCK FALSE
