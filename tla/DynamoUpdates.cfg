\* Two calls of any kind, at once or in turn, each sent up to twice.
CONSTANTS
  Items <- MCItems
  Mark = "mark"
  Counter = "count"
  List = "list"
  Stamp = "stamp"
  StepLists <- MCStepLists
  Builds <- MCBuilds
  Samples <- MCSamples
  Conditions <- MCConditions
  MaxCalls = 2
  MaxAttempts = 2
SPECIFICATION Spec
INVARIANTS
  TypeOK
  EveryAdditionCounts
  AppendsInOrder
  SetSticks
  NoComeback
  OutcomeTrue
  BuiltAsMeant
CHECK_DEADLOCK FALSE
