CONSTANTS
  Writers = {w1, w2}
  Contents = {c1, c2}
  Absent = Absent
  Torn = Torn
  Idle = Idle
  Keep = TRUE
  Pids = {p1}
  MaxTemps = 2
  MaxBoots = 2
SPECIFICATION Spec
SYMMETRY Symmetry
INVARIANT TargetWhole
INVARIANT TempExclusive
INVARIANT StraysOnlyFromFailures
INVARIANT BackupHoldsPrevious
PROPERTY RegisterSpec
