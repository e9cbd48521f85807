SPECIFICATION Spec
CONSTANTS
  SourceSize = 2
  NotFound = 99
  MaxPhraseLength = 2
  NegInf <- MCNegInf
  Factors <- MCFactors
  NoFactor = ""
  SurfaceFactor = "w"
  Fluency <- MCFluency
  UnknownScore <- MCUnknownScore
  Scenarios <- MCSmallCache
CHECK_DEADLOCK FALSE
INVARIANTS
  StoredWhileCopied
