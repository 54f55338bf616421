CONSTANTS
  Paths = {p1, p2}
  Saves = {s1, s2}
  None = None
  MaxVersions = 3
SPECIFICATION SessionSpec
CHECK_DEADLOCK FALSE
SYMMETRY Symmetry
INVARIANT CleanMeansSaved
