SPECIFICATION ListSpec
CONSTANTS
  NegInf <- MCNegInf
  Coverages = {}
  Settings <- MCSettings
  StackDistortion = 0
  ArcFactor = 1
  DisableDiscarding = FALSE
  Order = 3
  NGram <- MCNGram
  SentenceStart = "<s>"
  SentenceEnd = "</s>"
  SourceSize = 5
  Labels <- MCLabels
  Inputs <- MCInputs
  UnknownLHS <- MCUnknownLHS
  MaxHypos = 300
  NBestFactor = 3
INVARIANTS
  OptionsComplete
  ScoresAreTrue
  OptimumFound
  GraphComplete
  OwnedOnce
  TranslationFound
  NBestScoresAreTrue
