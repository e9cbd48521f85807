SPECIFICATION Spec
CONSTANTS
  Workers = {w1, w2}
  NumTasks = 3
  ProcessRemaining = TRUE
  Collectors <- MCCollectors
  Alignment = "alignment"
  Untranslatable = {1}
CHECK_DEADLOCK FALSE
INVARIANTS
  AlignmentFlushedAtExit
