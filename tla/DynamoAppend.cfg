\* The documented use of append.
CONSTANTS
  Items <- MCItems
  Mark = "mark"
  Counter = "count"
  List = "list"
  Stamp = "stamp"
  StepLists <- MCTagLists
  Builds <- MCBuilds
  Samples <- MCSamples
  Conditions <- MCConditions
  MaxCalls = 1
  MaxAttempts = 1
SPECIFICATION Spec
INVARIANT AppendIsTaken
CHECK_DEADLOCK FALSE
