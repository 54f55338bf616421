CONSTANTS
  Numbers <- MCNumbers
  Spelled <- MCSpelled
  Body <- MCBody
  Rules = {"net8", "ten", "net31", "tld", "zone", "host", "file", "path", "anypath"}
  Hosts <- MCHosts
  Programs <- MCPrograms
  Ports = {1, 2, 3}
  RuleLists <- MCRuleLists
  None = None
  Ordered = TRUE
  MaxChanges = 3
  MaxSwitches = 2
  MaxRefreshes = 1
  MaxFails = 1
SPECIFICATION Spec
INVARIANT MarksCurrent
INVARIANT MarkedNeverWins
INVARIANT ExposureCurrent
PROPERTY MarkedMayGo
PROPERTY ViewsSettle
CHECK_DEADLOCK FALSE
