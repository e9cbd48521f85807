SPECIFICATION Spec
CONSTANTS
  Workers = {w1, w2, w3}
  NumTasks = 3
  ProcessRemaining = TRUE
  Collectors <- MCCollectors
  Alignment = "alignment"
  Untranslatable = {1}
CHECK_DEADLOCK FALSE
INVARIANTS
  EachTaskOnce
  NoLostWakeup
  StopCompletesJobs
  NothingLost
PROPERTIES
  StopReturns
  OutputOrdered
