SPECIFICATION Spec
CONSTANTS
  Records = {inc, chg}
  Incidents = {inc}
  Calls = {c1, c2}
  Capacity = 1
  MaxVersions = 2
SYMMETRY Symmetry
INVARIANTS MemoryBacked WriteSeen FilesAccounted TombstoneTrue
