SPECIFICATION Spec
CONSTANTS
  SourceSize = 8
  MaxDistortion = 4
  PatternBits = 3
  NotFound = 99
  MaxPhraseLength = 3
  OptionSpans <- MCOptionSpans
  SourceCompleted <- MCEmptySeed
  Constraints <- MCUnconstrained
CHECK_DEADLOCK FALSE
INVARIANTS
  IDPlusIsID
