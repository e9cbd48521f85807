SPECIFICATION Spec
CONSTANTS
  SourceSize = 4
  NotFound = 99
  MaxPhraseLength = 2
  NegInf <- MCNegInf
  Factors <- MCFactors
  NoFactor = ""
  SurfaceFactor = "w"
  Fluency <- MCFluency
  UnknownScore <- MCUnknownScore
  Scenarios <- MCScenarios
CHECK_DEADLOCK FALSE
INVARIANTS
  EveryWordHasOption
  EstimateIsBestCompletion
  BestOptionsKept
