SPECIFICATION ReorderingSpec
CONSTANTS
  SourceSize = 5
  MaxDistortion = 3
  PatternBits = 2
  NotFound = 99
  MaxPhraseLength = 3
  OptionSpans <- MCOptionSpans
  SourceCompleted <- MCPrefixSeeds
  Constraints <- MCConstraints
CHECK_DEADLOCK FALSE
INVARIANTS
  TypeOK
  NoDeadEnd
  FirstGapInReach
  WallsHold
  LocalWallsHold
  IDsDistinct
  OrientationsAgree
PROPERTIES
  ZonesFinishOnceEntered
