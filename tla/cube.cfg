SPECIFICATION Spec
CONSTANTS
  SourceSize = 4
  NotFound = 99
  MaxDistortion = 2
  MaxPhraseLength = 2
  OptionSpans <- MCOptionSpans
  OptionLists <- MCCubeSentences
  ConstraintOf <- MCConstraintOf
  Bigram <- MCBigram
  StartWord = "<s>"
  DistortionWeight = 1
  NegInf <- MCNegInf
  Coverages <- MCCoverages
  Settings <- MCSettings
  StackDistortion = 2
  ArcFactor = 1
  DisableDiscarding = FALSE
  CubeSettings <- MCCubeSettings
  PositionBits = 3
  TimeLimit = TRUE
  MaxHypos = 150
CHECK_DEADLOCK FALSE
INVARIANTS
  TranslationFound
  OptimumFound
  GraphComplete
  OwnedOnce
PROPERTIES
  SearchReturns
