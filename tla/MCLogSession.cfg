CONSTANTS
  Logs = {l1, l2}
  Tasks = {t1, t2}
  r1 = r1
  r2 = r2
  Rules = {r1, r2}
  Catalogs <- RuleLists
  AlertIds = {1, 2}
  MaxHits = 1
  Copies = 1
  None = None
  MaxLoads = 2
  MaxCommands = 5
SPECIFICATION Spec
SYMMETRY Symmetry
INVARIANT EvidenceCurrent
INVARIANT RunRecordsWhole
INVARIANT ActiveStoreReady
INVARIANT CleanHuntComplete
