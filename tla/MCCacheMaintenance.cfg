SPECIFICATION Spec
CONSTANTS
  None = None
  Orig = Orig
  Cmds = {c1, c2, c3}
  Pages = 2
  MaxStarts = 2
SYMMETRY Symmetry
INVARIANTS WholeCache  LiveStagingKept
PROPERTIES UnchangedTrue
CHECK_DEADLOCK FALSE
