CONSTANTS
  Numbers <- MCNumbers
  Spelled <- MCSpelled
  Rules = {}
  Body <- MCBody
  Hosts <- MCHosts
  Programs <- MCPrograms
  Ports = {1, 2, 3}
  Numeral <- MCNumeral
  Registry <- MCRegistry
  BucketSecs = 2
  Logs <- MCLogs
  Opens <- MCOpens
  Filters <- MCFilters
  PageSize = 2
  MaxOpens = 1
  Options <- MCOptions
SPECIFICATION Spec
INVARIANT LinesReadBack
INVARIANT RowsAgree
INVARIANT SuggestionsExact
CHECK_DEADLOCK FALSE
