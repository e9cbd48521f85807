SPECIFICATION Spec
CONSTANTS
  Coverages = {c1, c2}
  States = {s1, s2}
  NegInf <- MCNegInf
  Settings <- MCSettings
  Totals <- MCTotals
  MaxArrivals = 5
  StackDistortion = 0
  ArcFactor = 1
  DisableDiscarding = FALSE
CHECK_DEADLOCK FALSE
INVARIANTS
  BestNeverLost
  OwnedOnce
  SizeBounded
PROPERTIES
  GivenUpForGoodReason
  DiversityRespected
