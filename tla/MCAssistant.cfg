CONSTANTS
  Asks = {a1, a2}
  Threads = {t1}
  Places = {p1, p2}
  None = None
  MaxSteps = 1
  MaxAsks = 2
  MaxCommits = 3
  MaxCalls = 3
SPECIFICATION Spec
SYMMETRY Symmetry
INVARIANT WithinLevel
INVARIANT EgressLogged
INVARIANT ApprovedAsPreviewed
PROPERTY OffStopsAsks
