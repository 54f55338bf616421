CONSTANTS
  NRules = 1
  MaxHistory = 2
  MaxRows = 3
  MaxChanges = 5
  Filters <- AllOrOne
  NoProfile = NoProfile
  NoRow = NoRow
  Undefined = Undefined
SPECIFICATION Spec
INVARIANT RulesDistinct
PROPERTY HistorySpec
PROPERTY MovesKeepOrder
