\* query_by_pk against its guide.
CONSTANTS
  NoLimit = NoLimit
  NoKey = NoKey
  NoText = NoText
  Garbled = Garbled
  NotAsked = NotAsked
  Pending = Pending
  Unfinished = Unfinished
  Items <- MCItems
  Tables <- MCTables
  Pks <- MCPks
  Sks <- MCSks
  Patterns <- MCPatterns
  Roles <- MCRoles
  Filters <- MCFilters
  Limits <- MCLimits
  KeyLists <- MCKeyLists
  PageItems = 2
  BatchGetLimit = 2
  Contested <- MCContested
  MaxGarbled = 1
SPECIFICATION Spec
INVARIANT LatestByPk
CHECK_DEADLOCK FALSE
