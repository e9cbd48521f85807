----------------------- MODULE HypothesisScoringProofs -----------------------
(***************************************************************************)
(* Lemmas about the hypotheses that a search makes, for every length of    *)
(* the sentence, every set of translation options and all scores: an       *)
(* extension translates more words, its scores are finite, and its first   *)
(* gap is within reach.  They serve the proofs about both searches.        *)
(***************************************************************************)
EXTENDS HypothesisScoring, ExpansionRulesProofs

-----------------------------------------------------------------------------
(* Extensions *)

\* Source positions are finitely many.
LEMMA PositionsFinite ==
  /\ IsFiniteSet(Positions) /\ Cardinality(Positions) = SourceSize
  /\ \A cov \in SUBSET Positions :
       IsFiniteSet(cov) /\ Cardinality(cov) \in 0 .. SourceSize
<1>1. IsFiniteSet(Positions) /\ Cardinality(Positions) = SourceSize
  <2>1. 0 \in Int /\ SourceSize - 1 \in Int
    BY SourceSizeAssumption
  <2>2. /\ IsFiniteSet(Positions)
        /\ Cardinality(Positions) = IF 0 > SourceSize - 1 THEN 0 ELSE (SourceSize - 1) - 0 + 1
    BY <2>1, FS_Interval DEF Positions
  <2> QED BY <2>2, SourceSizeAssumption
<1>2. ASSUME NEW cov \in SUBSET Positions
      PROVE  IsFiniteSet(cov) /\ Cardinality(cov) \in 0 .. SourceSize
  <2>1. IsFiniteSet(cov) /\ Cardinality(cov) <= Cardinality(Positions)
    BY <1>1, FS_Subset
  <2>2. Cardinality(cov) \in Nat
    BY <2>1, FS_CardinalityType
  <2> QED BY <1>1, <2>1, <2>2, SourceSizeAssumption
<1> QED BY <1>1, <1>2

\* An option that may extend a hypothesis translates more words.
LEMMA ExtensionIsLonger ==
  ASSUME NEW cov \in SUBSET Positions, NEW c, NEW range, NEW s, NEW e,
         CanExpand(c, cov, range, s, e)
  PROVE  /\ cov \cup (s .. e) \in SUBSET Positions
         /\ Cardinality(cov \cup (s .. e)) \in 0 .. SourceSize
         /\ Cardinality(cov \cup (s .. e)) > Cardinality(cov)
<1>1. s \in Positions /\ e \in Positions /\ s <= e /\ ~Overlap(cov, s, e)
  <2>1. <<s, e>> \in UpperCells
    BY OptionsAssumption DEF CanExpand, Translatable
  <2> QED BY <2>1 DEF UpperCells, CanExpand, Translatable
<1>2. s \in Int /\ e \in Int /\ s \in s .. e
  BY <1>1, SourceSizeAssumption DEF Positions
<1> DEFINE more == cov \cup (s .. e)
           one  == cov \cup {s}
<1>3. more \in SUBSET Positions /\ s \notin cov
  BY <1>1, <1>2, SourceSizeAssumption DEF Positions, Overlap
<1>4. /\ IsFiniteSet(cov) /\ Cardinality(cov) \in 0 .. SourceSize
      /\ IsFiniteSet(more) /\ Cardinality(more) \in 0 .. SourceSize
  BY <1>3, PositionsFinite
<1>5. Cardinality(one) = Cardinality(cov) + 1
  BY <1>3, <1>4, FS_AddElement
<1>6. one \in SUBSET more
  BY <1>2
<1>7. Cardinality(one) <= Cardinality(more)
  BY <1>4, <1>6, FS_Subset
<1> HIDE DEF more, one
<1>8. Cardinality(more) > Cardinality(cov)
  BY <1>4, <1>5, <1>7
<1> QED BY <1>3, <1>4, <1>8 DEF more

\* A single word more.
LEMMA OneWordMore ==
  ASSUME NEW cov \in SUBSET Positions, NEW c, NEW range, NEW s,
         CanExpand(c, cov, range, s, s)
  PROVE  Cardinality(cov \cup (s .. s)) = Cardinality(cov) + 1
<1>1. s \in Positions
  <2>1. <<s, s>> \in UpperCells
    BY OptionsAssumption DEF CanExpand, Translatable
  <2> QED BY <2>1 DEF UpperCells
<1>2. s \in Int /\ s .. s = {s}
  BY <1>1, SourceSizeAssumption DEF Positions
<1>3. s \notin cov
  BY <1>2 DEF CanExpand, Translatable, Overlap
<1> QED BY <1>2, <1>3, PositionsFinite, FS_AddElement

-----------------------------------------------------------------------------
(* Scores and reach *)

\* No step costs more than this.
MaxCost == CHOOSE cost \in 0 .. -NegInf : CostsBounded(cost)

\* A hypothesis as the searches make it: the language model and the
\* distortion know what its last step was if there was one, its score is that of
\* its steps, and its first gap is within reach.
WellMade(options, h) ==
  /\ <<h.word, h.range>> \in Contexts(options)
  /\ h.score \in Int /\ h.score >= -(MaxCost * Cardinality(h.cov))
  /\ h.cov \in SUBSET Positions /\ (h.cov = {} => h.range = EmptyRange)
  /\ InWindow(h.cov) /\ GapInReach(h.cov, h.range)

\* Products grow with their factors.
LEMMA ProductsGrow ==
  ASSUME NEW k \in Nat, NEW m \in Nat, NEW n \in Nat, m < n
  PROVE  k * m \in Nat /\ k * n \in Nat /\ k * m + k <= k * n
<1>1. k * n - k * m = k * (n - m)
  OBVIOUS
<1>2. k * (n - m) >= k
  OBVIOUS
<1>3. k * m \in Nat /\ k * n \in Nat
  OBVIOUS
<1> QED BY <1>1, <1>2, <1>3

\* There is such a cost.
LEMMA MaxCostBounds == MaxCost \in 0 .. -NegInf /\ CostsBounded(MaxCost)
BY CostsAssumption DEF MaxCost

\* The seed: the first gap is the first word, and no step has been made.
LEMMA SeedWellMade == \A options : WellMade(options, Seed)
<1>0. TAKE options
<1>1. /\ Seed.word = StartWord /\ Seed.range = EmptyRange /\ Seed.score = 0
      /\ Seed.cov = {} /\ {} \in SUBSET Positions
  BY DEF Seed
<1>2. MaxCost * 0 = 0
  <2>1. MaxCost \in Int
    BY MaxCostBounds
  <2> HIDE DEF MaxCost
  <2> QED BY <2>1
<1>3. Cardinality({}) = 0
  BY FS_EmptySet
<1>4. GapInReach({}, EmptyRange)
  <2> SUFFICES ASSUME MaxDistortion >= 0
               PROVE  DistortionDistance(EmptyRange, Span(FirstGapPos({}), FirstGapPos({})))
                        <= MaxDistortion
    BY DEF GapInReach
  <2>1. 0 \in Positions /\ {} # Positions
    BY SourceSizeAssumption DEF Positions
  <2>2. FirstGapPos({}) \in Positions /\ FirstGapPos({}) <= 0
    BY <2>1, FirstGap
  <2>3. FirstGapPos({}) = 0
    BY <2>2, SourceSizeAssumption DEF Positions
  <2>4. DistortionDistance(EmptyRange, Span(0, 0)) = 0
    BY DEF DistortionDistance, EmptyRange, Span, NumWordsCovered, Abs
  <2> QED BY <2>3, <2>4
<1>5. InWindow({})
  BY DEF InWindow
<1>6. <<Seed.word, Seed.range>> \in Contexts(options)
  BY <1>1 DEF Contexts
<1> QED BY <1>1, <1>2, <1>3, <1>4, <1>5, <1>6 DEF WellMade

\* No sentence has a zone; it may have walls.  The reordering constraint then never
\* refuses the word in the first gap.  (It does while a zone behind the gap is begun
\* and not finished: the next words are then those of the zone.)
NoZones == \A options \in OptionLists : ConstraintOf[options].zones = <<>>

\* NextHypothesis: the distortion limit keeps the first gap within reach, and the
\* score is that of one more step.
LEMMA NextWellMade ==
  ASSUME NEW options \in OptionLists,
         NEW futureScore, futureScore = FutureScoreMatrix(OptionScoresOf(options)),
         NEW g, WellMade(options, g), NEW i \in 1 .. Len(options),
         NEW c, CanExpand(c, g.cov, g.range, options[i].s, options[i].e),
         NEW n, NEW h, h = NextHypothesis(options, futureScore, n, g, i)
  PROVE  WellMade(options, h) /\ h.total \in Int /\ h.total >= NegInf
<1> DEFINE s == options[i].s
           e == options[i].e
           cost == MaxCost
           step == StepScore(g.word, g.range, options[i])
           estimate == CalcFutureScore(futureScore, h.cov)
           before == Cardinality(g.cov)
           after == Cardinality(h.cov)
<1>1. /\ h.word = options[i].word /\ h.range = Span(s, e) /\ h.cov = g.cov \cup (s .. e)
      /\ h.score = g.score + step /\ h.total = Plus(h.score, estimate)
  BY DEF NextHypothesis
<1>2. /\ options \in OptionLists /\ futureScore = FutureScoreMatrix(OptionScoresOf(options))
      /\ WellMade(options, g) /\ DOMAIN options = 1 .. Len(options)
  BY OptionsAssumption
<1>3. s \in Positions /\ e \in s .. SourceSize - 1
  <2>1. <<s, e>> \in UpperCells
    BY OptionsAssumption DEF CanExpand, Translatable
  <2>2. s \in Positions /\ e \in Positions /\ s <= e
    BY <2>1 DEF UpperCells
  <2> QED BY <2>2, SourceSizeAssumption DEF Positions
<1>4. InWindow(h.cov) /\ GapInReach(h.cov, h.range)
  <2> DEFINE cov == g.cov
  <2>1. cov \in SUBSET Positions /\ InWindow(cov) /\ CanExpand(c, cov, g.range, s, e)
    BY <1>2 DEF WellMade
  <2>2. h.cov = cov \cup (s .. e) /\ h.range = Span(s, e)
    BY <1>1
  <2> HIDE DEF s, e, cov
  <2>3. InWindow(cov \cup (s .. e)) /\ GapInReach(cov \cup (s .. e), Span(s, e))
    BY <1>3, <2>1, ExpansionInReach
  <2> QED BY <2>2, <2>3
<1>5. /\ h.cov \in SUBSET Positions
      /\ before \in Nat /\ after \in Nat /\ before < after
  <2>1. before \in 0 .. SourceSize
    BY <1>2, PositionsFinite DEF WellMade
  <2> DEFINE cov == g.cov
             more == cov \cup (s .. e)
  <2>2. cov \in SUBSET Positions /\ CanExpand(c, cov, g.range, s, e)
    BY <1>2 DEF WellMade
  <2>3. h.cov = more
    BY <1>1
  <2> HIDE DEF s, e, cov
  <2>4. more \in SUBSET Positions /\ Cardinality(more) \in 0 .. SourceSize /\ Cardinality(more) > Cardinality(cov)
    BY <2>2, ExtensionIsLonger
  <2> HIDE DEF more
  <2>5. h.cov \in SUBSET Positions /\ after \in 0 .. SourceSize /\ after > before
    BY <2>3, <2>4 DEF cov
  <2> QED BY <2>1, <2>5, SourceSizeAssumption
<1>6. <<h.word, h.range>> \in Contexts(options)
  BY <1>1, <1>2 DEF Contexts
<1>7. step \in Int /\ step >= -cost /\ cost \in Nat
  <2>1. <<g.word, g.range>> \in Contexts(options)
    BY <1>2 DEF WellMade
  <2>2. step \in Int /\ step >= -cost
    BY <1>2, <2>1, MaxCostBounds DEF CostsBounded
  <2> QED BY <2>2, MaxCostBounds
<1>8. estimate \in Int /\ (estimate # NegInf => estimate - cost * after >= NegInf)
  BY <1>2, <1>5, MaxCostBounds DEF CostsBounded
<1>9. g.score \in Int /\ g.score >= -(cost * before)
  BY <1>2 DEF WellMade
<1> HIDE DEF cost, step, estimate, before, after
<1>10. /\ cost * before \in Nat /\ cost * after \in Nat
       /\ cost * before + cost <= cost * after
  BY <1>5, <1>7, ProductsGrow
<1>11. h.score \in Int /\ h.score >= -(cost * after)
  <2> DEFINE p == cost * before
             q == cost * after
  <2>1. p \in Nat /\ q \in Nat /\ p + cost <= q /\ g.score >= -p
    BY <1>9, <1>10
  <2> HIDE DEF p, q
  <2>2. h.score \in Int /\ h.score >= -q
    BY <1>1, <1>7, <1>9, <2>1
  <2> QED BY <2>2 DEF q
<1>12. h.total \in Int /\ h.total >= NegInf
  <2> DEFINE q == cost * after
  <2>1. q \in Nat /\ h.score >= -q /\ (estimate # NegInf => estimate - q >= NegInf)
    BY <1>8, <1>10, <1>11
  <2> HIDE DEF q
  <2> QED BY <1>1, <1>8, <1>11, <2>1, NegInfAssumption DEF Plus
<1>13. h.cov # {}
  <2>1. Cardinality({}) = 0
    BY FS_EmptySet
  <2>2. after # 0
    BY <1>5
  <2> QED BY <2>1, <2>2 DEF after
<1>14. WellMade(options, h)
  BY <1>4, <1>5, <1>6, <1>11, <1>13 DEF WellMade, cost, after
<1> QED BY <1>12, <1>14
=============================================================================
