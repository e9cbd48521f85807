------------------------ MODULE ExpansionRulesProofs ------------------------
(***************************************************************************)
(* Lemmas about the rules of ProcessOneHypothesis, for every sentence      *)
(* length, every distortion limit and every set of translation options:    *)
(* the look-ahead at the jump back keeps the first gap in reach, so that   *)
(* it can always be translated next.                                       *)
(***************************************************************************)
EXTENDS ExpansionRules, FiniteSetTheorems, WellFoundedInduction, TLAPS

-----------------------------------------------------------------------------
(* Gaps and distances *)

\* A set of natural numbers with an element has a least one.
LEMMA LeastElement ==
  ASSUME NEW S \in SUBSET Nat, S # {}
  PROVE  Least(S) \in S /\ \A q \in S : Least(S) <= q
<1>1. \E p \in S : \A q \in S : ~(<<q, p>> \in OpToRel(<, Nat))
  BY NatLessThanWellFounded, WFMin
<1>2. \E p \in S : \A q \in S : p <= q
  <2>1. PICK p \in S : \A q \in S : ~(<<q, p>> \in OpToRel(<, Nat))
    BY <1>1
  <2>2. \A q \in S : p <= q
    <3>1. TAKE q \in S
    <3>2. q \in Nat /\ p \in Nat
      OBVIOUS
    <3>3. ~(q < p)
      BY <2>1, <3>2 DEF OpToRel
    <3>4. QED
      BY <3>2, <3>3
  <2>3. QED
    BY <2>2
<1>3. QED
  BY <1>2 DEF Least

\* GetFirstGapPos returns an untranslated position with nothing untranslated
\* in front of it.
LEMMA FirstGap ==
  ASSUME NEW cov \in SUBSET Positions, cov # Positions
  PROVE  /\ FirstGapPos(cov) \in Positions \ cov
         /\ \A q \in Positions \ cov : FirstGapPos(cov) <= q
<1>1. Positions \ cov # {} /\ Positions \ cov \in SUBSET Nat
  <2>1. Positions \ cov # {}
    OBVIOUS
  <2>2. Positions \in SUBSET Nat
    BY SourceSizeAssumption DEF Positions
  <2>3. QED
    BY <2>1, <2>2
<1>2. FirstGapPos(cov) = Least(Positions \ cov)
  BY <1>1 DEF FirstGapPos
<1>3. QED
  BY <1>1, <1>2, LeastElement

\* FirstGapPos of a complete coverage is NOT_FOUND.
LEMMA NoGap ==
  ASSUME NEW cov \in SUBSET Positions, cov = Positions
  PROVE  FirstGapPos(cov) = NotFound
BY DEF FirstGapPos

\* NOT_FOUND is not the position of a word.
LEMMA NotFoundBeyond ==
  /\ NotFound \in Nat
  /\ \A p \in Positions : p \in Nat /\ p < SourceSize /\ p < NotFound
BY SourceSizeAssumption, NotFoundAssumption DEF Positions

\* The distortion distance from a phrase that is not empty.
LEMMA DistanceFromPhrase ==
  ASSUME NEW s \in Positions, NEW e \in s .. SourceSize - 1, NEW g \in Nat
  PROVE  DistortionDistance(Span(s, e), Span(g, g)) = Abs(e - g + 1)
<1>1. s # NotFound /\ s \in Nat /\ e \in Nat /\ s <= e
  BY NotFoundBeyond, SourceSizeAssumption DEF Positions
<1>2. NumWordsCovered(Span(s, e)) = e - s + 1
  BY <1>1 DEF NumWordsCovered, Span
<1>3. QED
  BY <1>1, <1>2 DEF DistortionDistance, Span

-----------------------------------------------------------------------------
(* The distortion limit *)

\* The translated words beyond the first gap stay within the distortion limit of
\* it.
InWindow(cov) ==
  MaxDistortion >= 0 =>
    \A p \in cov : p > FirstGapPos(cov) => p - FirstGapPos(cov) + 1 <= MaxDistortion

\* The jump from the phrase translated last to the first gap is within the limit.
GapInReach(cov, range) ==
  MaxDistortion >= 0 /\ cov # Positions =>
    DistortionDistance(range, Span(FirstGapPos(cov), FirstGapPos(cov))) <= MaxDistortion

\* What Expand changes: the first gap moves behind the new phrase when the
\* phrase starts there and stays otherwise.
LEMMA GapAfterExpansion ==
  ASSUME NEW cov \in SUBSET Positions, cov # Positions,
         NEW s \in Positions, NEW e \in s .. SourceSize - 1,
         s >= FirstGapPos(cov),
         cov \cup (s .. e) # Positions
  PROVE  LET g == FirstGapPos(cov)
             h == FirstGapPos(cov \cup (s .. e))
         IN  /\ g \in Nat /\ h \in Nat
             /\ s # g => h = g
             /\ s = g => h > e
             /\ h = e + 1 \/ h = g \/ (h - 1 \in cov /\ h - 1 > g)
<1> DEFINE g == FirstGapPos(cov)
           new == cov \cup (s .. e)
           h == FirstGapPos(new)
<1>1. s .. e \subseteq Positions /\ s \in Nat /\ e \in Nat /\ s <= e
  BY SourceSizeAssumption DEF Positions
<1>2. new \in SUBSET Positions /\ new # Positions
  BY <1>1
<1>3. /\ g \in Positions /\ g \notin cov
      /\ \A q \in Positions : q \notin cov => g <= q
  BY FirstGap
<1>4. /\ h \in Positions /\ h \notin new
      /\ \A q \in Positions : q \notin new => h <= q
  BY <1>2, FirstGap
<1>5. g \in Nat /\ h \in Nat /\ g <= h
  <2>1. g \in Nat /\ h \in Nat
    BY <1>3, <1>4, NotFoundBeyond
  <2>2. h \notin cov
    BY <1>4
  <2>3. QED
    BY <1>3, <1>4, <2>1, <2>2
<1>6. ASSUME s # g PROVE h = g
  <2>1. g \notin s .. e
    BY <1>1, <1>5, <1>6
  <2>2. g \notin new
    BY <1>3, <2>1
  <2>3. h <= g
    BY <1>3, <1>4, <2>2
  <2>4. QED
    BY <1>5, <2>3
<1>7. ASSUME s = g PROVE h > e
  <2>1. h \notin s .. e
    BY <1>4
  <2>2. QED
    BY <1>1, <1>5, <1>7, <2>1
<1>8. h = e + 1 \/ h = g \/ (h - 1 \in cov /\ h - 1 > g)
  <2> SUFFICES ASSUME h # e + 1, h # g PROVE h - 1 \in cov /\ h - 1 > g
    OBVIOUS
  <2>1. s = g /\ h > e
    BY <1>6, <1>7
  <2>2. h - 1 \in Nat /\ h - 1 > e /\ h - 1 > g
    BY <1>1, <1>5, <2>1
  <2>3. h - 1 \in Positions
    BY <1>4, <2>2, SourceSizeAssumption DEF Positions
  <2>4. h - 1 \in new
    <3>1. ~(h <= h - 1)
      BY <1>5
    <3>2. QED
      BY <1>4, <2>3, <3>1
  <2>5. h - 1 \notin s .. e
    BY <1>1, <2>2
  <2>6. QED
    BY <2>2, <2>4, <2>5
<1>9. QED
  BY <1>5, <1>6, <1>7, <1>8

\* The guards of ProcessOneHypothesis, spelled out for a limited distortion.
LEMMA ExpansionGuards ==
  ASSUME NEW c, NEW cov \in SUBSET Positions, NEW prev,
         NEW s \in Positions, NEW e \in s .. SourceSize - 1,
         CanExpand(c, cov, prev, s, e)
  PROVE  /\ cov # Positions
         /\ s >= FirstGapPos(cov)
         /\ MaxDistortion >= 0 /\ s # FirstGapPos(cov) =>
              e - FirstGapPos(cov) + 1 <= MaxDistortion
<1>1. s >= FirstGapPos(cov)
  BY DEF CanExpand, Translatable
<1>2. cov # Positions
  <2>1. s \in Nat /\ s < NotFound /\ NotFound \in Nat
    BY NotFoundBeyond
  <2>2. QED
    BY <1>1, <2>1, NoGap
<1>3. FirstGapPos(cov) \in Nat
  BY <1>2, FirstGap, NotFoundBeyond
<1>4. ASSUME MaxDistortion >= 0, s # FirstGapPos(cov)
      PROVE  e - FirstGapPos(cov) + 1 <= MaxDistortion
  <2>1. DistortionDistance(Span(s, e), Span(FirstGapPos(cov), FirstGapPos(cov)))
          <= MaxDistortion
    BY <1>4, LimitsAssumption DEF CanExpand, WithinDistortionLimit
  <2>2. Abs(e - FirstGapPos(cov) + 1) <= MaxDistortion
    BY <1>3, <2>1, DistanceFromPhrase
  <2>3. e \in Nat /\ s \in Nat /\ s <= e
    BY SourceSizeAssumption DEF Positions
  <2>4. QED
    BY <1>1, <1>3, <2>2, <2>3 DEF Abs
<1>5. QED
  BY <1>1, <1>2, <1>4

\* The look-ahead of ProcessOneHypothesis keeps the window and the first gap
\* within the distortion limit.
LEMMA ExpansionInReach ==
  ASSUME NEW cov \in SUBSET Positions, InWindow(cov), NEW c, NEW prev,
         NEW s \in Positions, NEW e \in s .. SourceSize - 1,
         CanExpand(c, cov, prev, s, e)
  PROVE  InWindow(cov \cup (s .. e)) /\ GapInReach(cov \cup (s .. e), Span(s, e))
<1> DEFINE g == FirstGapPos(cov)
           new == cov \cup (s .. e)
           h == FirstGapPos(new)
<1>3. /\ cov # Positions
      /\ s >= g
      /\ MaxDistortion >= 0 /\ s # g => e - g + 1 <= MaxDistortion
  BY ExpansionGuards
<1>4. s .. e \subseteq Positions /\ s \in Nat /\ e \in Nat /\ s <= e
  BY SourceSizeAssumption DEF Positions
<1>5. g \in Nat
  BY <1>3, FirstGap, NotFoundBeyond
<1>6. CASE new = Positions
  <2>1. h = NotFound
    BY <1>6, NoGap
  <2>2. InWindow(new)
    <3>1. \A p \in new : ~(p > h)
      BY <1>6, <2>1, NotFoundBeyond
    <3>2. QED
      BY <3>1 DEF InWindow
  <2>3. GapInReach(new, Span(s, e))
    BY <1>6 DEF GapInReach
  <2>4. QED
    BY <2>2, <2>3
<1>7. CASE new # Positions
  <2>1. /\ h \in Nat
        /\ s # g => h = g
        /\ s = g => h > e
        /\ h = e + 1 \/ h = g \/ (h - 1 \in cov /\ h - 1 > g)
    BY <1>3, <1>7, GapAfterExpansion
  <2>2. h >= g
    BY <1>4, <1>5, <2>1
  <2>3. ASSUME MaxDistortion >= 0, NEW p \in cov, p > g
        PROVE  p \in Nat /\ p - g + 1 <= MaxDistortion
    BY <2>3, NotFoundBeyond DEF InWindow
  <2>4. InWindow(new)
    <3> SUFFICES ASSUME MaxDistortion >= 0, NEW p \in new, p > h
                 PROVE  p - h + 1 <= MaxDistortion
      BY DEF InWindow
    <3>1. CASE p \in cov
      <4>1. p \in Nat
        BY <3>1, NotFoundBeyond
      <4>2. p > g
        BY <1>5, <2>1, <2>2, <4>1
      <4>3. p - g + 1 <= MaxDistortion
        BY <2>3, <3>1, <4>2
      <4>4. QED
        BY <1>5, <2>1, <2>2, <4>1, <4>3, LimitsAssumption
    <3>2. CASE p \in s .. e
      <4>1. p \in Nat /\ p <= e
        BY <1>4, <3>2
      <4>2. s # g
        BY <1>4, <2>1, <4>1
      <4>3. QED
        BY <1>3, <1>4, <2>1, <4>1, <4>2, LimitsAssumption
    <3>3. QED
      BY <3>1, <3>2
  <2>5. GapInReach(new, Span(s, e))
    <3> SUFFICES ASSUME MaxDistortion >= 0
                 PROVE  DistortionDistance(Span(s, e), Span(h, h)) <= MaxDistortion
      BY DEF GapInReach
    <3>1. DistortionDistance(Span(s, e), Span(h, h)) = Abs(e - h + 1)
      BY <2>1, DistanceFromPhrase
    <3>2. CASE h = e + 1
      BY <1>4, <3>1, <3>2, LimitsAssumption DEF Abs
    <3>3. CASE s # g
      <4>1. h = g /\ e - g + 1 <= MaxDistortion /\ e - g + 1 >= 0
        BY <1>3, <1>4, <1>5, <2>1, <3>3
      <4>2. QED
        BY <1>4, <1>5, <3>1, <4>1, LimitsAssumption DEF Abs
    <3>4. CASE s = g /\ h # e + 1
      <4>1. h > e /\ h # g
        BY <1>4, <1>5, <2>1, <3>4
      <4>2. h - 1 \in cov /\ h - 1 > g
        BY <2>1, <3>4, <4>1
      <4>3. h - 1 - g + 1 <= MaxDistortion
        BY <2>3, <4>2
      <4>4. QED
        BY <1>4, <1>5, <2>1, <3>1, <3>4, <4>1, <4>3, LimitsAssumption DEF Abs
    <3>5. QED
      BY <3>2, <3>3, <3>4
  <2>6. QED
    BY <2>4, <2>5
<1>8. QED
  BY <1>6, <1>7

\* The first gap alone can be translated next if it is in reach, whatever the
\* walls, in sentences without zones.
LEMMA GapCanBeTranslated ==
  ASSUME EveryWordHasOption, NEW cov \in SUBSET Positions, cov # Positions, NEW range,
         GapInReach(cov, range), NEW c, c.zones = <<>>
  PROVE  /\ FirstGapPos(cov) \in Positions
         /\ CanExpand(c, cov, range, FirstGapPos(cov), FirstGapPos(cov))
<1> DEFINE g == FirstGapPos(cov)
<1>1. g \in Positions /\ g \notin cov
  BY FirstGap
<1>2. g \in Nat /\ g < SourceSize /\ g \in g .. SourceSize - 1
  BY <1>1, SourceSizeAssumption, NotFoundBeyond
<1>3. Check(c, cov, g, g, MaxDistortion)
  <2>1. ~HitsWall(c, cov, g, g)
    BY DEF HitsWall
  <2>2. Len(c.zones) = 0
    OBVIOUS
  <2>3. 1 .. Len(c.zones) = {}
    BY <2>2
  <2> QED BY <2>1, <2>3 DEF Check
<1>4. Translatable(c, cov, g, g)
  <2>1. ~Overlap(cov, g, g)
    BY <1>1, <1>2 DEF Overlap
  <2>2. <<g, g>> \in OptionSpans
    BY <1>1 DEF EveryWordHasOption
  <2>3. g - g < MaxPhraseLength
    BY <1>2, LimitsAssumption
  <2> QED BY <1>2, <1>3, <2>1, <2>2, <2>3 DEF Translatable
<1>5. WithinDistortionLimit(cov, range, g, g)
  BY LimitsAssumption DEF GapInReach, WithinDistortionLimit
<1> QED BY <1>1, <1>4, <1>5 DEF CanExpand
=============================================================================
