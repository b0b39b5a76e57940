\* One reading, by any of the functions; others who never stop writing.
CONSTANTS
  NoLimit = NoLimit
  NoKey = NoKey
  NoText = NoText
  Garbled = Garbled
  NotAsked = NotAsked
  Pending = Pending
  Unfinished = Unfinished
  Items <- MCItems
  Tables <- MCTables
  Pks <- MCPks
  Sks <- MCSks
  Patterns <- MCPatterns
  Roles <- MCRoles
  Filters <- MCFilters
  Limits <- MCLimits
  KeyLists <- MCKeyLists
  PageItems = 2
  BatchGetLimit = 2
  Contested <- MCContested
  MaxGarbled = 1
SPECIFICATION Spec
INVARIANTS
  TypeOK
  NothingSkipped
  InOrder
  RefusedForCause
PROPERTIES
  ReadsList
  ReadingEnds
CHECK_DEADLOCK FALSE
