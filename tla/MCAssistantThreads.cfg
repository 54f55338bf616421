CONSTANTS
  Asks = {a1, a2}
  Threads = {t1, t2}
  Places = {p1}
  None = None
  MaxSteps = 1
  MaxAsks = 2
  MaxCommits = 0
  MaxCalls = 2
SPECIFICATION Spec
INVARIANT DeletedStaysForgotten
PROPERTY TurnsKept
PROPERTY AskReturns
