SPECIFICATION ListSpec
CONSTANTS
  SourceSize = 4
  NotFound = 99
  MaxDistortion = 2
  MaxPhraseLength = 2
  OptionSpans <- MCOptionSpans
  OptionLists <- MCAllSentences
  ConstraintOf <- MCConstraintOf
  Bigram <- MCBigram
  StartWord = "<s>"
  DistortionWeight = 1
  NegInf <- MCNegInf
  Coverages <- MCCoverages
  Settings <- MCSettings
  StackDistortion = 2
  ArcFactor = 1
  DisableDiscarding = FALSE
  TimeLimit = TRUE
  MaxHypos = 150
  NBestFactor = 2
CHECK_DEADLOCK FALSE
INVARIANTS
  ResultStackExpanded
