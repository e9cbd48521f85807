---------------------- MODULE HypothesisExpansionProofs ----------------------
(***************************************************************************)
(* Theorems about HypothesisExpansion, for every sentence length, every    *)
(* distortion limit and every set of translation options; about the IDs of *)
(* the coverages it reaches (CoverageIDs) and about the reordering models  *)
(* on the way (LexicalReordering).                                         *)
(***************************************************************************)
EXTENDS CoverageIDs, LexicalReordering, ExpansionRulesProofs

\* The seeds of a search that starts inside the window of the distortion limit,
\* the empty one among them.
SeedsInWindow ==
  \A cov \in SourceCompleted :
    \A p \in cov : p > FirstGapPos(cov) => p - FirstGapPos(cov) + 1 <= MaxDistortion

-----------------------------------------------------------------------------
\* The seed hypothesis has the types of TypeOK.
LEMMA TypeInit ==
  ASSUME Init PROVE TypeOK
<1>1. sourceCompleted \in SUBSET Positions
  BY SeedAssumption DEF Init
<1>2. constraint.wall \subseteq Positions
  BY ConstraintsAssumption DEF Init
<1>3. currRange \in [start : Positions, end : Nat] \cup {EmptyRange}
  <2>1. CASE FirstGapPos(sourceCompleted) > 0
    <3>1. FirstGapPos(sourceCompleted) \in Nat
      BY <1>1, FirstGap, NoGap, NotFoundBeyond
    <3>2. FirstGapPos(sourceCompleted) - 1 \in Nat /\ 0 \in Positions
      BY <2>1, <3>1, SourceSizeAssumption DEF Positions
    <3>3. currRange = Span(0, FirstGapPos(sourceCompleted) - 1)
      BY <2>1 DEF Init, SeedRange
    <3>4. QED
      BY <3>2, <3>3 DEF Span
  <2>2. CASE ~(FirstGapPos(sourceCompleted) > 0)
    BY <2>2 DEF Init, SeedRange
  <2>3. QED
    BY <2>1, <2>2
<1>4. QED
  BY <1>1, <1>2, <1>3 DEF TypeOK

\* Expanding a hypothesis keeps its types.
LEMMA TypeNext ==
  ASSUME TypeOK, [Next]_vars PROVE TypeOK'
<1>1. ASSUME NEW s \in Positions, NEW e \in s .. SourceSize - 1, Expand(s, e)
      PROVE  TypeOK'
  <2>1. s .. e \subseteq Positions /\ e \in Nat
    BY SourceSizeAssumption DEF Positions
  <2>2. QED
    BY <1>1, <2>1 DEF TypeOK, Expand, Span
<1>2. CASE UNCHANGED vars
  BY <1>2 DEF vars, TypeOK
<1>3. QED
  BY <1>1, <1>2 DEF Next

\* Every state of the model has the types declared by TypeOK.
THEOREM TypeCorrect == Spec => []TypeOK
<1>1. Init => TypeOK
  BY TypeInit
<1>2. TypeOK /\ [Next]_vars => TypeOK'
  BY TypeNext
<1>3. QED
  BY <1>1, <1>2, PTL DEF Spec

-----------------------------------------------------------------------------
\* The inductive invariant behind the distortion limit: the translated words
\* beyond the first gap bound how far the decoder may still have to jump back.
DistortionInv == TypeOK /\ WindowWithinLimit /\ FirstGapInReach

\* The seeds of the decoder are inside the window (Hypothesis' constructor).
LEMMA DistortionInvInit ==
  ASSUME SeedsInWindow, Init
  PROVE  DistortionInv
<1>1. sourceCompleted \in SourceCompleted /\ sourceCompleted \in SUBSET Positions
  BY SeedAssumption DEF Init
<1>2. WindowWithinLimit
  BY <1>1 DEF SeedsInWindow, WindowWithinLimit
<1>3. FirstGapInReach
  <2> DEFINE g == FirstGapPos(sourceCompleted)
  <2> SUFFICES ASSUME MaxDistortion >= 0, sourceCompleted # Positions
               PROVE  DistortionDistance(currRange, Span(g, g)) <= MaxDistortion
    BY DEF FirstGapInReach
  <2>1. g \in Nat /\ g < NotFound /\ NotFound \in Nat
    BY <1>1, FirstGap, NotFoundBeyond
  <2>2. currRange = SeedRange(sourceCompleted)
    BY DEF Init
  <2>3. DistortionDistance(currRange, Span(g, g)) = 0
    <3>1. CASE g > 0
      <4>1. currRange = Span(0, g - 1)
        BY <2>2, <3>1 DEF SeedRange
      <4>2. NumWordsCovered(currRange) = g
        BY <2>1, <4>1 DEF NumWordsCovered, Span
      <4>3. QED
        BY <2>1, <3>1, <4>1, <4>2 DEF DistortionDistance, Span, Abs
    <3>2. CASE ~(g > 0)
      <4>1. g = 0 /\ currRange = EmptyRange
        BY <2>1, <2>2, <3>2 DEF SeedRange
      <4>2. QED
        BY <4>1 DEF DistortionDistance, NumWordsCovered, EmptyRange, Span, Abs
    <3>3. QED
      BY <3>1, <3>2
  <2>4. QED
    BY <2>3, LimitsAssumption
<1>4. TypeOK
  BY TypeInit
<1>5. QED
  BY <1>2, <1>3, <1>4 DEF DistortionInv

\* The look-ahead of ProcessOneHypothesis keeps the window and the first gap
\* within the distortion limit.
LEMMA DistortionInvExpand ==
  ASSUME DistortionInv,
         NEW s \in Positions, NEW e \in s .. SourceSize - 1, Expand(s, e)
  PROVE  WindowWithinLimit' /\ FirstGapInReach'
<1>1. /\ CanExpand(constraint, sourceCompleted, currRange, s, e)
      /\ sourceCompleted' = sourceCompleted \cup (s .. e)
      /\ currRange' = Span(s, e)
  BY DEF Expand
<1>2. sourceCompleted \in SUBSET Positions /\ InWindow(sourceCompleted)
  BY DEF DistortionInv, TypeOK, WindowWithinLimit, InWindow
<1>3. InWindow(sourceCompleted') /\ GapInReach(sourceCompleted', currRange')
  BY <1>1, <1>2, ExpansionInReach
<1> QED BY <1>3 DEF InWindow, GapInReach, WindowWithinLimit, FirstGapInReach

\* DistortionInv is inductive.
LEMMA DistortionInvNext ==
  ASSUME DistortionInv, [Next]_vars PROVE DistortionInv'
<1>1. TypeOK'
  BY TypeNext DEF DistortionInv
<1>2. ASSUME NEW s \in Positions, NEW e \in s .. SourceSize - 1, Expand(s, e)
      PROVE  DistortionInv'
  <2>1. WindowWithinLimit' /\ FirstGapInReach'
    BY <1>2, DistortionInvExpand
  <2>2. QED
    BY <1>1, <2>1 DEF DistortionInv
<1>3. CASE UNCHANGED vars
  BY <1>1, <1>3 DEF vars, DistortionInv, WindowWithinLimit, FirstGapInReach
<1>4. QED
  BY <1>2, <1>3 DEF Next

\* The distortion limit in every reachable hypothesis, whatever walls and zones
\* the sentence carries: the jump back to the first gap is always within the
\* limit, and so is the window of translated words beyond it.
THEOREM DistortionLimitHolds ==
  SeedsInWindow /\ Spec => [](FirstGapInReach /\ WindowWithinLimit)
<1>1. SeedsInWindow /\ Init => DistortionInv
  BY DistortionInvInit
<1>2. DistortionInv /\ [Next]_vars => DistortionInv'
  BY DistortionInvNext
<1>3. DistortionInv => FirstGapInReach /\ WindowWithinLimit
  BY DEF DistortionInv
<1>4. QED
  BY <1>1, <1>2, <1>3, PTL DEF Spec

-----------------------------------------------------------------------------
\* Without zones, every reachable hypothesis that leaves a word untranslated can
\* be expanded, if every word has a translation option of its own: the span of
\* the first gap alone is always allowed.
THEOREM NoDeadEnds ==
  ASSUME SeedsInWindow, EveryWordHasOption,
         \A c \in Constraints : c.zones = <<>>
  PROVE  Spec => []NoDeadEnd
<1> DEFINE ZoneFree == constraint \in Constraints
<1>1. DistortionInv /\ ZoneFree => NoDeadEnd
  <2> DEFINE g == FirstGapPos(sourceCompleted)
  <2> SUFFICES ASSUME DistortionInv, ZoneFree, sourceCompleted # Positions
               PROVE  \E s \in Positions : \E e \in s .. SourceSize - 1 :
                        CanExpand(constraint, sourceCompleted, currRange, s, e)
    BY DEF NoDeadEnd
  <2>1. sourceCompleted \in SUBSET Positions /\ GapInReach(sourceCompleted, currRange)
    BY DEF DistortionInv, TypeOK, FirstGapInReach, GapInReach
  <2>2. g \in Positions /\ CanExpand(constraint, sourceCompleted, currRange, g, g)
    BY <2>1, GapCanBeTranslated
  <2>3. g \in g .. SourceSize - 1
    BY <2>2, SourceSizeAssumption, NotFoundBeyond DEF Positions
  <2> QED BY <2>2, <2>3
<1>2. Init => DistortionInv /\ ZoneFree
  BY DistortionInvInit DEF Init
<1>3. DistortionInv /\ [Next]_vars => DistortionInv'
  BY DistortionInvNext
<1>4. ZoneFree /\ [Next]_vars => ZoneFree'
  BY DEF Next, Expand, vars
<1>5. QED
  BY <1>1, <1>2, <1>3, <1>4, PTL DEF Spec

\* Walls are respected in every reachable hypothesis, with or without zones and
\* for any distortion limit, if the seeds respect them.
THEOREM WallsAreRespected ==
  ASSUME \A c \in Constraints : \A cov \in SourceCompleted : \A w \in c.wall :
           (\E p \in cov : p > w) => 0 .. w \subseteq cov
  PROVE  Spec => []WallsHold
<1> DEFINE WallInv == TypeOK /\ constraint \in Constraints /\ WallsHold
<1>1. Init => WallInv
  <2> SUFFICES ASSUME Init PROVE WallInv
    OBVIOUS
  <2>1. TypeOK
    BY TypeInit
  <2>2. WallsHold
    BY DEF Init, WallsHold
  <2>3. QED
    BY <2>1, <2>2 DEF Init
<1>2. WallInv /\ [Next]_vars => WallInv'
  <2> SUFFICES ASSUME WallInv, [Next]_vars PROVE WallInv'
    OBVIOUS
  <2>1. TypeOK'
    BY TypeNext
  <2>2. CASE UNCHANGED vars
    BY <2>1, <2>2 DEF vars, WallsHold
  <2>3. ASSUME NEW s \in Positions, NEW e \in s .. SourceSize - 1, Expand(s, e)
        PROVE  WallInv'
    <3> DEFINE g == FirstGapPos(sourceCompleted)
    <3>1. /\ CanExpand(constraint, sourceCompleted, currRange, s, e)
          /\ sourceCompleted' = sourceCompleted \cup (s .. e)
          /\ constraint' = constraint
      BY <2>3 DEF Expand
    <3>2. sourceCompleted \in SUBSET Positions
      BY DEF TypeOK
    <3>3. sourceCompleted # Positions /\ s >= g
      BY <3>1, <3>2, ExpansionGuards
    <3>4. /\ g \in Nat
          /\ \A q \in Positions : q \notin sourceCompleted => g <= q
      BY <3>2, <3>3, FirstGap, NotFoundBeyond
    <3>5. s \in Nat /\ e \in Nat /\ s <= e
      BY SourceSizeAssumption DEF Positions
    <3>6. ASSUME NEW w \in constraint.wall,
                 NEW p \in sourceCompleted \cup (s .. e), p > w
          PROVE  0 .. w \subseteq sourceCompleted \cup (s .. e)
      <4>1. w \in Positions /\ w \in Nat /\ 0 .. w \subseteq Positions
        BY SourceSizeAssumption DEF TypeOK, Positions
      <4>2. CASE p \in sourceCompleted
        BY <3>6, <4>2 DEF WallsHold
      <4>3. CASE p \in s .. e
        <5>1. w < e
          BY <3>5, <3>6, <4>1, <4>3
        <5>2. CASE s = g
          <6>1. ASSUME NEW q \in 0 .. w, q \notin sourceCompleted
                PROVE  q \in s .. e
            BY <3>4, <3>5, <4>1, <5>1, <5>2, <6>1
          <6>2. QED
            BY <6>1
        <5>3. CASE s # g
          <6>1. constraint.active
            BY ConstraintsAssumption
          <6>2. ~HitsWall(constraint, sourceCompleted, s, e)
            BY <3>1, <6>1 DEF CanExpand, Translatable, Check
          <6>3. ~(w \in g .. e - 1)
            BY <5>3, <6>2 DEF HitsWall
          <6>4. w < g
            BY <3>4, <3>5, <4>1, <5>1, <6>3
          <6>5. \A q \in 0 .. w : q \in sourceCompleted
            BY <3>4, <4>1, <6>4
          <6>6. QED
            BY <6>5
        <5>4. QED
          BY <5>2, <5>3
      <4>4. QED
        BY <4>2, <4>3
    <3>7. WallsHold'
      BY <3>1, <3>6 DEF WallsHold
    <3>8. QED
      BY <2>1, <3>1, <3>7
  <2>4. QED
    BY <2>2, <2>3 DEF Next
<1>3. WallInv => WallsHold
  OBVIOUS
<1>4. QED
  BY <1>1, <1>2, <1>3, PTL DEF Spec
-----------------------------------------------------------------------------
(* Zones and the walls that are local to them *)

\* f holds what the passes of FinalizeWalls' outer loop make of the wall at pos.
Passes(f, n, zones, walls, pos) ==
  f = [z \in 0 .. n |-> IF z = 0 THEN <<pos \in walls, NotAZone>>
                                 ELSE ClaimWall(zones, z, pos, f[z - 1])]

\* The recursion has a solution: otherwise there is a least number of zones for
\* which it has none, and that for one zone less can be extended.
LEMMA PassesExist ==
  ASSUME NEW zones, NEW walls, NEW pos, NEW n \in Nat
  PROVE  \E f : Passes(f, n, zones, walls, pos)
<1> DEFINE Bad == {k \in Nat : ~ \E f : Passes(f, k, zones, walls, pos)}
<1>1. SUFFICES ASSUME Bad # {} PROVE FALSE
  OBVIOUS
<1>2. PICK k \in Bad : \A j \in Bad : k <= j
  BY <1>1, LeastElement
<1>3. CASE k = 0
  <2>1. Passes([z \in 0 .. 0 |-> <<pos \in walls, NotAZone>>], 0, zones, walls, pos)
    BY DEF Passes
  <2> QED BY <1>2, <1>3, <2>1
<1>4. CASE k # 0
  <2>1. k \in Nat /\ k - 1 \in Nat /\ ~(k <= k - 1)
    BY <1>2, <1>4
  <2>2. PICK f : Passes(f, k - 1, zones, walls, pos)
    BY <1>2, <2>1
  <2> DEFINE g == [z \in 0 .. k |-> IF z = k THEN ClaimWall(zones, k, pos, f[k - 1]) ELSE f[z]]
  <2>3. ASSUME NEW z \in 0 .. k
        PROVE  g[z] = IF z = 0 THEN <<pos \in walls, NotAZone>>
                               ELSE ClaimWall(zones, z, pos, g[z - 1])
    <3>1. CASE z = k
      <4>1. g[z - 1] = f[k - 1] /\ z # 0
        BY <1>4, <2>1, <3>1
      <4> QED BY <3>1, <4>1
    <3>2. CASE z # k
      <4>1. z \in 0 .. k - 1 /\ g[z] = f[z]
        BY <2>1, <3>2
      <4>2. f[z] = IF z = 0 THEN <<pos \in walls, NotAZone>>
                            ELSE ClaimWall(zones, z, pos, f[z - 1])
        <5> HIDE DEF g
        <5> QED BY <2>2, <4>1 DEF Passes
      <4>3. z # 0 => g[z - 1] = f[z - 1]
        BY <2>1, <3>2, <4>1
      <4> QED BY <4>1, <4>2, <4>3
    <3> QED BY <3>1, <3>2
  <2>4. Passes(g, k, zones, walls, pos)
    <3>1. DOMAIN g = 0 .. k /\ g = [z \in 0 .. k |-> g[z]]
      OBVIOUS
    <3> HIDE DEF g
    <3> QED BY <2>3, <3>1 DEF Passes
  <2> QED BY <1>2, <2>4
<1> QED BY <1>3, <1>4

\* FinalWall is what the last pass makes of the wall.
LEMMA FinalWallPasses ==
  ASSUME NEW zones, NEW walls, NEW pos, Len(zones) \in Nat
  PROVE  \E f : /\ Passes(f, Len(zones), zones, walls, pos)
                /\ FinalWall(zones, walls, pos) = f[Len(zones)]
<1>1. \E f : Passes(f, Len(zones), zones, walls, pos)
  BY PassesExist
<1> DEFINE f == CHOOSE f : Passes(f, Len(zones), zones, walls, pos)
<1>2. Passes(f, Len(zones), zones, walls, pos)
  BY <1>1
<1>3. FinalWall(zones, walls, pos) = f[Len(zones)]
  BY DEF FinalWall, Passes
<1> QED BY <1>2, <1>3

\* The words around a wall.
Around(zone, pos) == zone.start <= pos /\ pos < zone.end

\* l is the index of the innermost of the first k zones that are around pos.
InnermostOf(l, zones, k, pos) ==
  /\ l \in 1 .. k /\ Around(zones[l], pos)
  /\ \A j \in 1 .. k : Around(zones[j], pos) =>
       zones[j].start <= zones[l].start /\ zones[l].end <= zones[j].end

\* A wall that k zones have had a chance to claim is still there only when none of
\* them is around it; one that was claimed belongs to the innermost of them.
Claimed(w, zones, k, pos) ==
  /\ w = <<w[1], w[2]>> /\ w[1] \in BOOLEAN
  /\ w[1] => w[2] = NotAZone /\ \A j \in 1 .. k : ~Around(zones[j], pos)
  /\ w[2] # NotAZone => InnermostOf(w[2], zones, k, pos)

ZoneSpans == [start : Nat, end : Nat]

\* The next zone claims a wall from none or from a zone that it lies in.
LEMMA ClaimNext ==
  ASSUME NEW zones \in Seq(ZoneSpans), NEW k \in 1 .. Len(zones), NEW pos \in Positions, NEW w,
         \A a, b \in 1 .. Len(zones) : Nested(zones[a], zones[b]),
         Claimed(w, zones, k - 1, pos)
  PROVE  Claimed(ClaimWall(zones, k, pos, w), zones, k, pos)
<1>1. k \in Nat /\ 1 .. k = (1 .. k - 1) \cup {k} /\ k - 1 \in Nat
  OBVIOUS
<1>2. \A j \in 1 .. k : j \in 1 .. Len(zones) /\ zones[j].start \in Nat /\ zones[j].end \in Nat
  <2>1. \A j \in 1 .. k : j \in 1 .. Len(zones)
    BY <1>1
  <2>2. \A j \in 1 .. Len(zones) : zones[j] \in ZoneSpans
    OBVIOUS
  <2> QED BY <2>1, <2>2 DEF ZoneSpans
<1>3. pos \in Nat
  BY SourceSizeAssumption DEF Positions
<1>4. pos \in zones[k].start .. zones[k].end - 1 <=> Around(zones[k], pos)
  BY <1>1, <1>2, <1>3 DEF Around
<1>5. CASE ~Around(zones[k], pos)
  <2>1. ClaimWall(zones, k, pos, w) = w
    BY <1>4, <1>5 DEF ClaimWall
  <2>2. w[2] # NotAZone => InnermostOf(w[2], zones, k, pos)
    BY <1>1, <1>5 DEF Claimed, InnermostOf
  <2>3. w[1] => \A j \in 1 .. k : ~Around(zones[j], pos)
    BY <1>1, <1>5 DEF Claimed
  <2> QED BY <2>1, <2>2, <2>3 DEF Claimed
<1>6. CASE Around(zones[k], pos) /\ w[1]
  <2>1. ClaimWall(zones, k, pos, w) = <<FALSE, k>>
    BY <1>4, <1>6 DEF ClaimWall
  <2>2. \A j \in 1 .. k : Around(zones[j], pos) => j = k
    BY <1>1, <1>6 DEF Claimed
  <2>3. InnermostOf(k, zones, k, pos)
    BY <1>1, <1>2, <1>6, <2>2 DEF InnermostOf
  <2> QED BY <2>1, <2>3 DEF Claimed
<1>7. CASE Around(zones[k], pos) /\ ~w[1] /\ w[2] = NotAZone
  <2>1. ClaimWall(zones, k, pos, w) = w
    BY <1>7 DEF ClaimWall
  <2> QED BY <1>7, <2>1 DEF Claimed
<1>8. CASE Around(zones[k], pos) /\ ~w[1] /\ w[2] # NotAZone
  <2> DEFINE l == w[2]
  <2>1. InnermostOf(l, zones, k - 1, pos)
    BY <1>8 DEF Claimed
  <2>2. l \in 1 .. k /\ Nested(zones[l], zones[k]) /\ Around(zones[l], pos)
    BY <1>1, <1>2, <2>1 DEF InnermostOf
  <2> HIDE DEF l
  <2>3. \/ zones[l].start <= zones[k].start /\ zones[k].end <= zones[l].end
        \/ zones[k].start <= zones[l].start /\ zones[l].end <= zones[k].end
    <3>1. /\ zones[l].start \in Nat /\ zones[l].end \in Nat
          /\ zones[k].start \in Nat /\ zones[k].end \in Nat
      BY <1>1, <1>2, <2>2
    <3>2. /\ zones[l].start <= pos /\ pos < zones[l].end
          /\ zones[k].start <= pos /\ pos < zones[k].end
      BY <1>8, <2>2 DEF Around
    <3>3. ~(zones[l].end < zones[k].start) /\ ~(zones[l].start > zones[k].end)
      BY <1>3, <3>1, <3>2
    <3>4. ~Outside(zones[l].start, zones[l].end, zones[k])
      BY <3>3 DEF Outside
    <3> QED BY <2>2, <3>4 DEF Nested
  <2> DEFINE outer == zones[l].start < zones[k].start \/ zones[l].end > zones[k].end
  <2>4. CASE outer
    <3>1. ClaimWall(zones, k, pos, w) = <<FALSE, k>>
      BY <1>4, <1>8, <2>4 DEF ClaimWall, l
    <3>2. zones[l].start <= zones[k].start /\ zones[k].end <= zones[l].end
      BY <1>2, <2>2, <2>3, <2>4
    <3>3. ASSUME NEW j \in 1 .. k, Around(zones[j], pos)
          PROVE  zones[j].start <= zones[k].start /\ zones[k].end <= zones[j].end
      <4>1. CASE j \in 1 .. k - 1
        <5>1. zones[j].start <= zones[l].start /\ zones[l].end <= zones[j].end
          BY <2>1, <3>3, <4>1 DEF InnermostOf
        <5> QED BY <1>2, <2>2, <3>2, <5>1
      <4>2. CASE j = k
        BY <1>2, <4>2
      <4> QED BY <1>1, <4>1, <4>2
    <3>4. InnermostOf(k, zones, k, pos)
      BY <1>1, <1>8, <3>3 DEF InnermostOf
    <3> QED BY <3>1, <3>4 DEF Claimed
  <2>5. CASE ~outer
    <3>1. ClaimWall(zones, k, pos, w) = w
      BY <1>4, <1>8, <2>5 DEF ClaimWall, l
    <3>2. zones[k].start <= zones[l].start /\ zones[l].end <= zones[k].end
      <4>1. /\ zones[l].start \in Int /\ zones[l].end \in Int
            /\ zones[k].start \in Int /\ zones[k].end \in Int
        BY <1>2, <2>2
      <4>2. ~(zones[l].start < zones[k].start) /\ ~(zones[l].end > zones[k].end)
        BY <2>5
      <4> QED BY <4>1, <4>2
    <3>3. InnermostOf(l, zones, k, pos)
      BY <1>1, <2>1, <2>2, <3>2 DEF InnermostOf
    <3> QED BY <1>8, <3>1, <3>3 DEF Claimed, l
  <2> QED BY <2>4, <2>5
<1> QED BY <1>5, <1>6, <1>7, <1>8

\* FinalizeWalls gives a wall to the innermost zone around it.
LEMMA WallsFinalized ==
  ASSUME NEW zones \in Seq(ZoneSpans), NEW walls, NEW pos \in Positions,
         \A a, b \in 1 .. Len(zones) : Nested(zones[a], zones[b])
  PROVE  Claimed(FinalWall(zones, walls, pos), zones, Len(zones), pos)
<1> DEFINE n == Len(zones)
<1>1. n \in Nat
  OBVIOUS
<1>2. PICK f : Passes(f, n, zones, walls, pos) /\ FinalWall(zones, walls, pos) = f[n]
  BY FinalWallPasses
<1> DEFINE Bad == {k \in 0 .. n : ~Claimed(f[k], zones, k, pos)}
<1>3. SUFFICES ASSUME Bad # {} PROVE FALSE
  BY <1>1, <1>2
<1>4. PICK k \in Bad : \A j \in Bad : k <= j
  <2>1. Bad \in SUBSET Nat
    BY <1>1
  <2> QED BY <1>3, <2>1, LeastElement
<1>5. f[k] = IF k = 0 THEN <<pos \in walls, NotAZone>> ELSE ClaimWall(zones, k, pos, f[k - 1])
  BY <1>2, <1>4 DEF Passes
<1>6. CASE k = 0
  <2>1. 1 .. 0 = {} /\ f[0] = <<pos \in walls, NotAZone>>
    BY <1>5, <1>6
  <2>2. Claimed(f[0], zones, 0, pos)
    BY <2>1 DEF Claimed
  <2> QED BY <1>4, <1>6, <2>2
<1>7. CASE k # 0
  <2>1. k \in 1 .. n /\ k - 1 \in 0 .. n /\ ~(k <= k - 1)
    BY <1>1, <1>4, <1>7
  <2>2. Claimed(f[k - 1], zones, k - 1, pos)
    BY <1>4, <2>1
  <2>3. Claimed(ClaimWall(zones, k, pos, f[k - 1]), zones, k, pos)
    BY <2>1, <2>2, ClaimNext
  <2> QED BY <1>4, <1>5, <1>7, <2>3
<1> QED BY <1>6, <1>7

\* The constraints of sentences whose zones are nested, as Sentence::Read
\* assembles them from punctuation and markup.
ConstraintsOfSentences ==
  \A c \in Constraints :
    /\ \A a, b \in 1 .. Len(c.zones) : Nested(c.zones[a], c.zones[b])
    /\ \E punctuation, xmlWalls : c = SentenceConstraint(punctuation, xmlWalls, c.zones)

\* The innermost zone around a local wall is the one it belongs to.
LEMMA LocalWallsInnermost ==
  ASSUME ConstraintsOfSentences, constraint \in Constraints,
         NEW w \in Positions, constraint.localWall[w] # NotAZone
  PROVE  LET l == constraint.localWall[w]
         IN  /\ l \in 1 .. Len(constraint.zones) /\ Around(constraint.zones[l], w)
             /\ InnermostZone(w) = constraint.zones[l]
<1> DEFINE zones == constraint.zones
           l == constraint.localWall[w]
           around == {z \in Zones : z.start <= w /\ w < z.end}
<1>1. zones \in Seq(ZoneSpans)
  BY ConstraintsAssumption DEF ZoneSpans
<1>2. PICK walls : l = FinalWall(zones, walls, w)[2]
  <2>1. PICK punctuation, xmlWalls :
               constraint = SentenceConstraint(punctuation, xmlWalls, zones)
    BY DEF ConstraintsOfSentences
  <2>2. constraint.localWall = [p \in Positions |->
          FinalWall(zones, PunctuationWalls(punctuation) \cup (xmlWalls \cap Positions), p)[2]]
    <3> HIDE DEF zones
    <3> QED BY <2>1 DEF SentenceConstraint
  <2> HIDE DEF zones
  <2> QED BY <2>2
<1>3. InnermostOf(l, zones, Len(zones), w)
  <2>1. Claimed(FinalWall(zones, walls, w), zones, Len(zones), w)
    BY <1>1, WallsFinalized DEF ConstraintsOfSentences
  <2> QED BY <1>2, <2>1 DEF Claimed
<1>4. l \in 1 .. Len(zones) /\ Around(zones[l], w)
  BY <1>3 DEF InnermostOf
<1>5. zones[l] \in around /\ \A y \in around : y.start <= zones[l].start /\ zones[l].end <= y.end
  BY <1>3, <1>4 DEF Zones, InnermostOf, Around
<1>6. \A z \in around : z \in ZoneSpans
  <2>1. \A j \in 1 .. Len(zones) : zones[j] \in ZoneSpans
    BY <1>1
  <2> QED BY <2>1 DEF Zones
<1>7. ASSUME NEW z \in around, \A y \in around : y.start <= z.start /\ z.end <= y.end
      PROVE  z = zones[l]
  <2>1. z \in ZoneSpans /\ zones[l] \in ZoneSpans
    BY <1>5, <1>6
  <2>2. z.start = zones[l].start /\ z.end = zones[l].end
    BY <1>5, <1>7, <2>1 DEF ZoneSpans
  <2> QED BY <2>1, <2>2 DEF ZoneSpans
<1>8. InnermostZone(w) = CHOOSE z \in around : \A y \in around : y.start <= z.start /\ z.end <= y.end
  BY DEF InnermostZone
<1> HIDE DEF around
<1>9. InnermostZone(w) = zones[l]
  BY <1>5, <1>7, <1>8
<1> QED BY <1>4, <1>9

-----------------------------------------------------------------------------
(* What Check lets through *)

\* A set of positions that is not empty has a greatest one.
LEMMA GreatestElement ==
  ASSUME NEW cov \in SUBSET Positions, cov # {}
  PROVE  Greatest(cov) \in cov /\ \A q \in cov : q <= Greatest(cov)
<1> DEFINE S == {SourceSize - p : p \in cov}
<1>1. \A p \in cov : p \in Nat /\ p < SourceSize
  BY NotFoundBeyond
<1>2. S \in SUBSET Nat /\ S # {}
  BY <1>1, SourceSizeAssumption
<1>3. Least(S) \in S /\ \A q \in S : Least(S) <= q
  BY <1>2, LeastElement
<1>4. PICK p \in cov : Least(S) = SourceSize - p
  BY <1>3
<1>5. \A q \in cov : SourceSize - p <= SourceSize - q
  BY <1>3, <1>4
<1> HIDE DEF S
<1>6. \A q \in cov : q <= p
  BY <1>1, <1>5, SourceSizeAssumption
<1> QED BY <1>6 DEF Greatest

\* Before a phrase that continues a translation without gaps, all is translated,
\* and nothing behind it.
LEMMA MonotonePrefix ==
  ASSUME NEW cov \in SUBSET Positions, cov # Positions, NEW s \in Positions, Monotone(cov, s)
  PROVE  cov = 0 .. s - 1
<1>1. /\ FirstGapPos(cov) \in Positions \ cov
      /\ \A q \in Positions \ cov : FirstGapPos(cov) <= q
  BY FirstGap
<1>2. s \in Nat /\ s < SourceSize /\ s < NotFound /\ NotFound \in Nat
  BY NotFoundBeyond
<1>3. CASE cov = {}
  <2>1. LastPos(cov) = NotFound
    BY <1>3 DEF LastPos
  <2>2. FirstGapPos(cov) < NotFound /\ FirstGapPos(cov) \in Nat
    BY <1>1, NotFoundBeyond
  <2>3. s = 0
    BY <1>2, <2>1, <2>2 DEF Monotone
  <2> QED BY <1>3, <2>3
<1>4. CASE cov # {}
  <2>1. LastPos(cov) \in cov /\ \A q \in cov : q <= LastPos(cov)
    BY <1>4, GreatestElement DEF LastPos
  <2>2. LastPos(cov) # NotFound
    BY <2>1, NotFoundBeyond
  <2>3. s = FirstGapPos(cov) /\ s > LastPos(cov)
    BY <2>2 DEF Monotone
  <2>4. ASSUME NEW q \in cov PROVE q \in 0 .. s - 1
    <3>1. q \in Nat /\ LastPos(cov) \in Nat /\ q <= LastPos(cov)
      BY <2>1, NotFoundBeyond
    <3> QED BY <1>2, <2>3, <3>1
  <2>5. ASSUME NEW q \in 0 .. s - 1 PROVE q \in cov
    <3>1. q \in Positions /\ ~(s <= q)
      BY <1>2, SourceSizeAssumption DEF Positions
    <3> QED BY <1>1, <2>3, <3>1
  <2> QED BY <2>4, <2>5
<1> QED BY <1>3, <1>4

\* A phrase that reaches beyond the end of a zone, and has as many words in it as
\* are untranslated there, translates all of these.
LEMMA ZoneFilled ==
  ASSUME NEW zone \in ZoneSpans, NEW cov \in SUBSET Positions,
         NEW s \in Positions, NEW e \in s .. SourceSize - 1, ~Overlap(cov, s, e),
         s <= zone.end, e > zone.end,
         \/ s <= zone.start
         \/ zone.end - s + 1 >= Cardinality((zone.start .. zone.end) \ cov)
  PROVE  zone.start .. zone.end \subseteq cov \cup (s .. e)
<1>1. s \in Nat /\ e \in Nat /\ zone.start \in Nat /\ zone.end \in Nat
  BY SourceSizeAssumption DEF Positions, ZoneSpans
<1>2. CASE s <= zone.start
  BY <1>1, <1>2
<1>3. CASE /\ ~(s <= zone.start)
           /\ zone.end - s + 1 >= Cardinality((zone.start .. zone.end) \ cov)
  <2> DEFINE T == s .. zone.end
             U == (zone.start .. zone.end) \ cov
  <2>1. T \in SUBSET U
    BY <1>1, <1>3 DEF Overlap
  <2>2. IsFiniteSet(zone.start .. zone.end) /\ U \in SUBSET (zone.start .. zone.end)
    <3>1. zone.start \in Int /\ zone.end \in Int
      BY <1>1
    <3>2. IsFiniteSet(zone.start .. zone.end)
      BY <3>1, FS_Interval
    <3> QED BY <3>2
  <2>3. IsFiniteSet(U)
    BY <2>2, FS_Subset
  <2>4. Cardinality(T) = zone.end - s + 1
    <3>1. ~(s > zone.end)
      BY <1>1
    <3> QED BY <1>1, <3>1, FS_Interval
  <2>5. Cardinality(U) \in Nat /\ Cardinality(T) \in Nat /\ Cardinality(U) <= Cardinality(T)
    BY <1>1, <1>3, <2>3, <2>4, FS_CardinalityType
  <2>6. Cardinality(T) <= Cardinality(U) /\ (Cardinality(T) = Cardinality(U) => T = U)
    BY <2>1, <2>3, FS_Subset
  <2> HIDE DEF T, U
  <2>7. Cardinality(T) = Cardinality(U)
    BY <2>5, <2>6
  <2>8. U = s .. zone.end
    BY <2>6, <2>7 DEF T
  <2>9. s .. zone.end \subseteq s .. e
    BY <1>1
  <2> QED BY <2>8, <2>9 DEF U
<1> QED BY <1>2, <1>3

\* The first gap is not behind a zone that is not finished.
LEMMA GapNotBehind ==
  ASSUME NEW zone \in ZoneSpans, NEW cov \in SUBSET Positions, cov # Positions,
         NEW q \in zone.start .. zone.end, q \notin cov
  PROVE  ~(FirstGapPos(cov) > zone.end)
<1>1. /\ FirstGapPos(cov) \in Nat /\ FirstGapPos(cov) < SourceSize
      /\ \A x \in Positions \ cov : FirstGapPos(cov) <= x
  BY FirstGap, NotFoundBeyond
<1>2. zone.start \in Nat /\ zone.end \in Nat
  BY DEF ZoneSpans
<1>3. ASSUME FirstGapPos(cov) > zone.end PROVE FALSE
  <2>1. q \in Positions /\ ~(FirstGapPos(cov) <= q)
    BY <1>1, <1>2, <1>3, SourceSizeAssumption DEF Positions
  <2> QED BY <1>1, <2>1
<1> QED BY <1>3

\* A zone that is not finished: only the test for phrases inside a zone lets
\* a phrase with words of the zone pass.
LEMMA PhraseInZone ==
  ASSUME NEW c, NEW z, c.zones[z] \in ZoneSpans, NEW cov \in SUBSET Positions, cov # Positions,
         NEW s, NEW e, CheckZone(c, z, cov, s, e, MaxDistortion),
         ~(c.zones[z].start .. c.zones[z].end \subseteq cov), ~Outside(s, e, c.zones[z])
  PROVE  CheckInsideZone(c, z, cov, s, e, MaxDistortion)
<1> DEFINE zone == c.zones[z]
<1>2. ~(FirstGapPos(cov) > zone.end)
  <2>1. PICK q \in zone.start .. zone.end : q \notin cov
    OBVIOUS
  <2> HIDE DEF zone
  <2>2. zone \in ZoneSpans
    BY DEF zone
  <2> QED BY <2>1, <2>2, GapNotBehind
<1>3. (zone.start .. zone.end) \cap cov # zone.start .. zone.end
  OBVIOUS
<1> QED BY <1>2, <1>3 DEF CheckZone

\* What lets a phrase pass the zones of an active constraint.
LEMMA ZoneGuards ==
  ASSUME NEW c \in Constraints, NEW z \in 1 .. Len(c.zones),
         NEW cov \in SUBSET Positions, NEW prev,
         NEW s \in Positions, NEW e \in s .. SourceSize - 1, CanExpand(c, cov, prev, s, e)
  PROVE  /\ c.zones[z] \in ZoneSpans /\ cov # Positions /\ ~Overlap(cov, s, e)
         /\ cov = 0 .. s - 1 \/ CheckZone(c, z, cov, s, e, MaxDistortion)
<1>1. c.zones \in Seq(ZoneSpans) /\ (c.zones # <<>> => c.active)
  BY ConstraintsAssumption DEF ZoneSpans
<1>2. c.zones[z] \in ZoneSpans /\ c.active
  BY <1>1
<1>3. cov # Positions
  BY ExpansionGuards
<1>4. ~Overlap(cov, s, e) /\ Check(c, cov, s, e, MaxDistortion)
  BY DEF CanExpand, Translatable
<1>5. Monotone(cov, s) \/ CheckZone(c, z, cov, s, e, MaxDistortion)
  BY <1>2, <1>4 DEF Check
<1> QED BY <1>2, <1>3, <1>4, <1>5, MonotonePrefix

\* While a zone is begun and not finished, a phrase has words in it, and one that
\* reaches beyond its end finishes it.
LEMMA ZoneNotLeft ==
  ASSUME NEW c \in Constraints, NEW z \in 1 .. Len(c.zones),
         NEW cov \in SUBSET Positions, NEW prev,
         NEW s \in Positions, NEW e \in s .. SourceSize - 1, CanExpand(c, cov, prev, s, e),
         (c.zones[z].start .. c.zones[z].end) \cap cov # {},
         ~(c.zones[z].start .. c.zones[z].end \subseteq cov)
  PROVE  /\ ~Outside(s, e, c.zones[z])
         /\ e > c.zones[z].end => c.zones[z].start .. c.zones[z].end \subseteq cov \cup (s .. e)
<1> DEFINE zone == c.zones[z]
<1>1. /\ zone \in ZoneSpans /\ cov # Positions /\ ~Overlap(cov, s, e)
      /\ cov = 0 .. s - 1 \/ CheckZone(c, z, cov, s, e, MaxDistortion)
  BY ZoneGuards
<1>2. s \in Nat /\ e \in Nat /\ s <= e /\ zone.start \in Nat /\ zone.end \in Nat
  BY <1>1, SourceSizeAssumption DEF Positions, ZoneSpans
<1>3. PICK p \in zone.start .. zone.end : p \in cov
  OBVIOUS
<1>4. PICK q \in zone.start .. zone.end : q \notin cov
  OBVIOUS
<1> HIDE DEF zone
<1>5. CASE cov = 0 .. s - 1
  <2>1. p < s /\ s <= q
    BY <1>2, <1>3, <1>4, <1>5
  <2>2. ~Outside(s, e, zone)
    BY <1>2, <1>3, <1>4, <2>1 DEF Outside
  <2>3. \A x \in zone.start .. zone.end : e > zone.end => x \in cov \cup (s .. e)
    BY <1>2, <1>5
  <2> QED BY <2>2, <2>3 DEF zone
<1>6. CASE CheckZone(c, z, cov, s, e, MaxDistortion)
  <2>1. ~(LastPos(cov) < zone.start)
    <3>1. LastPos(cov) \in cov /\ p <= LastPos(cov)
      BY <1>3, GreatestElement DEF LastPos
    <3>2. LastPos(cov) \in Nat
      BY <3>1, NotFoundBeyond
    <3> QED BY <1>2, <1>3, <3>1, <3>2
  <2>2. ~Outside(s, e, zone)
    <3>2. ~(FirstGapPos(cov) > zone.end)
      BY <1>1, <1>4, GapNotBehind
    <3>3. /\ (zone.start .. zone.end) \cap cov # zone.start .. zone.end
          /\ (zone.start .. zone.end) \cap cov # {}
      BY <1>3, <1>4
    <3> QED BY <1>6, <2>1, <3>2, <3>3 DEF CheckZone, zone
  <2>3. CheckInsideZone(c, z, cov, s, e, MaxDistortion)
    BY <1>1, <1>6, <2>2, PhraseInZone DEF zone
  <2>4. ASSUME e > zone.end PROVE zone.start .. zone.end \subseteq cov \cup (s .. e)
    <3>1. s <= zone.end
      BY <1>2, <2>2 DEF Outside
    <3>2. \/ s <= zone.start
          \/ zone.end - s + 1 >= Cardinality((zone.start .. zone.end) \ cov)
      BY <1>2, <2>3, <2>4 DEF CheckInsideZone, zone
    <3> QED BY <1>1, <2>4, <3>1, <3>2, ZoneFilled
  <2> QED BY <2>2, <2>4 DEF zone
<1> QED BY <1>1, <1>5, <1>6

\* Zones are finished once they are entered (ReorderingConstraint::SetZone), for all
\* zones, limits and seeds.
THEOREM ZonesAreFinished == Spec => ZonesFinishOnceEntered
<1> DEFINE Inv == TypeOK /\ constraint \in Constraints
           Finishing(zone) ==
             Begun(zone) =>
               /\ ~Outside(currRange'.start, currRange'.end, zone)
               /\ currRange'.end > zone.end =>
                    zone.start .. zone.end \subseteq sourceCompleted'
<1>1. Init => Inv
  BY TypeInit DEF Init
<1>2. Inv /\ [Next]_vars => Inv'
  <2>1. TypeOK /\ [Next]_vars => TypeOK'
    BY TypeNext
  <2>2. [Next]_vars => constraint' = constraint
    BY DEF Next, Expand, vars
  <2> QED BY <2>1, <2>2
<1>3. Inv /\ [Next]_vars => [\A zone \in Zones : Finishing(zone)]_vars
  <2> SUFFICES ASSUME Inv, NEW s \in Positions, NEW e \in s .. SourceSize - 1, Expand(s, e),
                      NEW z \in 1 .. Len(constraint.zones)
               PROVE  Finishing(constraint.zones[z])
    BY DEF Next, Zones
  <2>1. /\ CanExpand(constraint, sourceCompleted, currRange, s, e)
        /\ sourceCompleted' = sourceCompleted \cup (s .. e)
        /\ currRange'.start = s /\ currRange'.end = e
    BY DEF Expand, Span
  <2>2. sourceCompleted \in SUBSET Positions
    BY DEF TypeOK
  <2> DEFINE zone == constraint.zones[z]
  <2>3. ASSUME Begun(zone)
        PROVE  /\ ~Outside(s, e, zone)
               /\ e > zone.end => zone.start .. zone.end \subseteq sourceCompleted \cup (s .. e)
    BY <2>1, <2>2, <2>3, ZoneNotLeft DEF Begun
  <2> QED BY <2>1, <2>3
<1>4. QED
  BY <1>1, <1>2, <1>3, PTL DEF Spec, ZonesFinishOnceEntered

\* What a local wall of a zone keeps: behind it nothing of the zone is translated
\* before all of the zone in front of it is.
KeepsWall(zone, w, cov) ==
  (\E p \in cov : w < p /\ p <= zone.end) => zone.start .. w \subseteq cov

\* A phrase does not break the local walls of a zone.
LEMMA LocalWallKept ==
  ASSUME NEW c \in Constraints, NEW w \in Positions, NEW z \in 1 .. Len(c.zones),
         c.localWall[w] = z, Around(c.zones[z], w),
         NEW cov \in SUBSET Positions, NEW prev,
         NEW s \in Positions, NEW e \in s .. SourceSize - 1, CanExpand(c, cov, prev, s, e),
         KeepsWall(c.zones[z], w, cov)
  PROVE  KeepsWall(c.zones[z], w, cov \cup (s .. e))
<1> DEFINE zone == c.zones[z]
<1>1. /\ zone \in ZoneSpans /\ cov # Positions /\ ~Overlap(cov, s, e)
      /\ cov = 0 .. s - 1 \/ CheckZone(c, z, cov, s, e, MaxDistortion)
  BY ZoneGuards
<1> HIDE DEF zone
<1>2. s \in Nat /\ e \in Nat /\ s <= e /\ zone.start \in Nat /\ zone.end \in Nat /\ w \in Nat
  BY <1>1, SourceSizeAssumption DEF Positions, ZoneSpans
<1>3. zone.start <= w /\ w < zone.end
  BY DEF Around, zone
<1>4. SUFFICES ASSUME NEW p \in cov \cup (s .. e), w < p, p <= zone.end,
                      NEW q \in zone.start .. w, q \notin cov
               PROVE  q \in s .. e
  BY DEF KeepsWall, zone
<1>5. p \in s .. e
  BY <1>4 DEF KeepsWall, zone
<1>6. w < e /\ q <= w /\ q \in Nat /\ zone.start <= q
  BY <1>2, <1>4, <1>5
<1>7. CASE cov = 0 .. s - 1
  <2>1. s <= q
    BY <1>2, <1>4, <1>6, <1>7
  <2> QED BY <1>2, <1>6, <2>1
<1>8. CASE CheckZone(c, z, cov, s, e, MaxDistortion)
  <2>1. ~Outside(s, e, zone)
    BY <1>2, <1>3, <1>4, <1>5 DEF Outside
  <2>2. q \in zone.start .. zone.end
    BY <1>2, <1>3, <1>4
  <2>3. ~(zone.start .. zone.end \subseteq cov)
    BY <1>4, <2>2
  <2>4. CheckInsideZone(c, z, cov, s, e, MaxDistortion)
    BY <1>1, <1>8, <2>1, <2>3, PhraseInZone DEF zone
  <2>5. s <= zone.end
    BY <1>2, <2>1 DEF Outside
  <2>6. CASE s <= zone.start
    BY <1>2, <1>6, <2>6
  <2>7. CASE e > zone.end /\ zone.end - s + 1 >= Cardinality((zone.start .. zone.end) \ cov)
    <3>1. zone.start .. zone.end \subseteq cov \cup (s .. e)
      BY <1>1, <2>5, <2>7, ZoneFilled
    <3> QED BY <1>4, <2>2, <3>1
  <2>8. CASE ~HitsLocalWall(c, z, cov, s, e)
    <3>1. w \in zone.start .. e - 1
      BY <1>2, <1>3, <1>6
    <3>2. ~(q \notin cov /\ q < s)
      BY <1>4, <2>8, <3>1 DEF HitsLocalWall, zone
    <3> QED BY <1>2, <1>4, <1>6, <3>2
  <2> QED BY <2>4, <2>6, <2>7, <2>8 DEF CheckInsideZone, zone
<1> QED BY <1>1, <1>7, <1>8

\* The walls local to a zone (FinalizeWalls, Check) are respected, for all nested
\* zones, all walls and any distortion limit, if the seeds respect them.
THEOREM LocalWallsAreRespected ==
  ASSUME ConstraintsOfSentences,
         \A c \in Constraints : \A cov \in SourceCompleted : \A w \in Positions :
           c.localWall[w] # NotAZone => KeepsWall(c.zones[c.localWall[w]], w, cov)
  PROVE  Spec => []LocalWallsHold
<1> DEFINE zone(w) == constraint.zones[constraint.localWall[w]]
           Local == {w \in Positions : constraint.localWall[w] # NotAZone}
           Kept == \A w \in Local : KeepsWall(zone(w), w, sourceCompleted)
           Inv == TypeOK /\ constraint \in Constraints /\ Kept
<1>1. Init => Inv
  BY TypeInit DEF Init
<1>2. Inv /\ [Next]_vars => Inv'
  <2> SUFFICES ASSUME Inv, [Next]_vars PROVE Inv'
    OBVIOUS
  <2>1. TypeOK' /\ constraint' = constraint
    BY TypeNext DEF Next, Expand, vars
  <2>2. CASE UNCHANGED vars
    BY <2>1, <2>2 DEF vars
  <2>3. ASSUME NEW s \in Positions, NEW e \in s .. SourceSize - 1, Expand(s, e)
        PROVE  Inv'
    <3>1. /\ CanExpand(constraint, sourceCompleted, currRange, s, e)
          /\ sourceCompleted' = sourceCompleted \cup (s .. e)
      BY <2>3 DEF Expand
    <3>2. sourceCompleted \in SUBSET Positions
      BY DEF TypeOK
    <3>3. ASSUME NEW w \in Local
          PROVE  KeepsWall(zone(w), w, sourceCompleted \cup (s .. e))
      <4>1. /\ constraint.localWall[w] \in 1 .. Len(constraint.zones)
            /\ Around(zone(w), w)
        BY LocalWallsInnermost
      <4>2. KeepsWall(zone(w), w, sourceCompleted)
        OBVIOUS
      <4> QED BY <3>1, <3>2, <4>1, <4>2, LocalWallKept
    <3> QED BY <2>1, <3>1, <3>3
  <2> QED BY <2>2, <2>3 DEF Next
<1>3. Inv => LocalWallsHold
  <2> SUFFICES ASSUME Inv, NEW w \in Positions, constraint.localWall[w] # NotAZone
               PROVE  KeepsWall(InnermostZone(w), w, sourceCompleted)
    BY DEF LocalWallsHold, KeepsWall
  <2>1. InnermostZone(w) = zone(w)
    BY LocalWallsInnermost
  <2> QED BY <2>1
<1>4. QED
  BY <1>1, <1>2, <1>3, PTL DEF Spec

-----------------------------------------------------------------------------
(* Bitmap IDs *)

\* f has the values of a loop that runs n times, starts with b and doubles the
\* number each time, with a new last bit.
Doubling(f, n, b, bit) ==
  f = [k \in 0 .. n |-> IF k = 0 THEN b ELSE 2 * f[k - 1] + bit[k]]

\* There is such a function.
LEMMA DoublingExists ==
  ASSUME NEW n \in Nat, NEW b, NEW bit
  PROVE  \E f : Doubling(f, n, b, bit)
<1> DEFINE Bad == {k \in 0 .. n : ~\E f : Doubling(f, k, b, bit)}
<1>1. SUFFICES ASSUME Bad # {} PROVE FALSE
  OBVIOUS
<1>2. PICK k \in Bad : \A j \in Bad : k <= j
  <2>1. Bad \in SUBSET Nat
    OBVIOUS
  <2> QED BY <1>1, <2>1, LeastElement
<1>3. CASE k = 0
  <2> DEFINE f == [j \in 0 .. 0 |-> b]
  <2>1. Doubling(f, 0, b, bit)
    BY DEF Doubling
  <2> QED BY <1>2, <1>3, <2>1
<1>4. CASE k # 0
  <2>1. k \in 1 .. n /\ k - 1 \in 0 .. n /\ ~(k <= k - 1)
    BY <1>2, <1>4
  <2>2. PICK f : Doubling(f, k - 1, b, bit)
    BY <1>2, <2>1
  <2> DEFINE g == [j \in 0 .. k |-> IF j = k THEN 2 * f[k - 1] + bit[k] ELSE f[j]]
  <2>3. ASSUME NEW j \in 0 .. k
        PROVE  g[j] = IF j = 0 THEN b ELSE 2 * g[j - 1] + bit[j]
    <3>1. CASE j = k
      <4>1. g[j - 1] = f[k - 1] /\ j # 0
        BY <1>4, <2>1, <3>1
      <4> QED BY <3>1, <4>1
    <3>2. CASE j # k
      <4>1. j \in 0 .. k - 1 /\ g[j] = f[j]
        BY <2>1, <3>2
      <4>2. f[j] = IF j = 0 THEN b ELSE 2 * f[j - 1] + bit[j]
        <5> HIDE DEF g
        <5> QED BY <2>2, <4>1 DEF Doubling
      <4>3. j # 0 => g[j - 1] = f[j - 1]
        BY <2>1, <3>2, <4>1
      <4> QED BY <4>1, <4>2, <4>3
    <3> QED BY <3>1, <3>2
  <2>4. Doubling(g, k, b, bit)
    <3>1. g = [j \in 0 .. k |-> g[j]]
      OBVIOUS
    <3> HIDE DEF g
    <3> QED BY <2>3, <3>1 DEF Doubling
  <2> QED BY <1>2, <2>4
<1> QED BY <1>3, <1>4

Bits == [Nat -> {0, 1}]

\* The numbers of a loop that is given bits.
LEMMA DoublingValues ==
  ASSUME NEW n \in Nat, NEW b \in Nat, NEW bit \in Bits, NEW f, Doubling(f, n, b, bit)
  PROVE  /\ \A k \in 0 .. n : f[k] \in Nat
         /\ f[0] = b
         /\ \A k \in 1 .. n : f[k] = 2 * f[k - 1] + bit[k]
<1> DEFINE Bad == {k \in 0 .. n : f[k] \notin Nat}
<1>1. f[0] = b /\ \A k \in 1 .. n : f[k] = 2 * f[k - 1] + bit[k]
  <2>1. \A k \in 0 .. n : f[k] = IF k = 0 THEN b ELSE 2 * f[k - 1] + bit[k]
    BY DEF Doubling
  <2> QED BY <2>1
<1>2. SUFFICES ASSUME Bad # {} PROVE FALSE
  BY <1>1
<1>3. PICK k \in Bad : \A j \in Bad : k <= j
  <2>1. Bad \in SUBSET Nat
    OBVIOUS
  <2> QED BY <1>2, <2>1, LeastElement
<1>4. k # 0
  BY <1>1, <1>3
<1>5. k \in 1 .. n /\ k - 1 \in 0 .. n /\ ~(k <= k - 1)
  BY <1>3, <1>4
<1>6. f[k - 1] \in Nat
  BY <1>3, <1>5
<1>7. bit[k] \in Nat
  BY <1>5 DEF Bits
<1> QED BY <1>1, <1>3, <1>5, <1>6, <1>7

\* A number of n bits is smaller than one that is shifted by as many, or more.
LEMMA DoublingBounded ==
  ASSUME NEW n \in Nat, NEW m \in Nat, n <= m, NEW bit \in Bits, NEW f, NEW power,
         Doubling(f, n, 0, bit), \A k \in 0 .. m : power[k] \in Nat,
         power[0] = 1, \A k \in 1 .. m : power[k] = 2 * power[k - 1]
  PROVE  f[n] < power[m]
<1>1. /\ \A k \in 0 .. n : f[k] \in Nat
      /\ f[0] = 0 /\ \A k \in 1 .. n : f[k] = 2 * f[k - 1] + bit[k]
  BY DoublingValues
<1>2. \A k \in 0 .. n : f[k] < power[k]
  <2> DEFINE Bad == {k \in 0 .. n : ~(f[k] < power[k])}
  <2>1. SUFFICES ASSUME Bad # {} PROVE FALSE
    OBVIOUS
  <2>2. PICK k \in Bad : \A j \in Bad : k <= j
    <3>1. Bad \in SUBSET Nat
      OBVIOUS
    <3> QED BY <2>1, <3>1, LeastElement
  <2>3. k # 0
    BY <1>1, <2>2
  <2>4. k \in 1 .. n /\ k - 1 \in 0 .. n /\ ~(k <= k - 1) /\ k \in 1 .. m /\ k - 1 \in 0 .. m
    BY <2>2, <2>3
  <2>5. f[k - 1] < power[k - 1]
    BY <2>2, <2>4
  <2>6. f[k - 1] \in Nat /\ power[k - 1] \in Nat /\ bit[k] \in {0, 1}
    BY <1>1, <2>4 DEF Bits
  <2>7. f[k] = 2 * f[k - 1] + bit[k] /\ power[k] = 2 * power[k - 1]
    BY <1>1, <2>4
  <2>8. f[k] < power[k]
    BY <2>5, <2>6, <2>7
  <2> QED BY <2>2, <2>8
<1>3. \A k \in n .. m : power[n] <= power[k]
  <2> DEFINE Bad == {k \in n .. m : ~(power[n] <= power[k])}
  <2>1. SUFFICES ASSUME Bad # {} PROVE FALSE
    OBVIOUS
  <2>2. PICK k \in Bad : \A j \in Bad : k <= j
    <3>1. Bad \in SUBSET Nat
      OBVIOUS
    <3> QED BY <2>1, <3>1, LeastElement
  <2>3. k # n
    <3>1. power[n] \in Nat
      OBVIOUS
    <3> QED BY <2>2, <3>1
  <2>4. k \in 1 .. m /\ k - 1 \in n .. m /\ ~(k <= k - 1) /\ n \in 0 .. m /\ k - 1 \in 0 .. m
    BY <2>2, <2>3
  <2>5. power[n] <= power[k - 1]
    BY <2>2, <2>4
  <2>6. power[n] \in Nat /\ power[k - 1] \in Nat /\ power[k] = 2 * power[k - 1]
    BY <2>4
  <2>7. power[n] <= power[k]
    BY <2>5, <2>6
  <2> QED BY <2>2, <2>7
<1>4. n \in 0 .. n /\ m \in n .. m /\ n \in 0 .. m /\ m \in 0 .. m
  OBVIOUS
<1>5. f[n] < power[n] /\ power[n] <= power[m]
  BY <1>2, <1>3, <1>4
<1>6. f[n] \in Nat /\ power[n] \in Nat /\ power[m] \in Nat
  BY <1>1, <1>4
<1> QED BY <1>5, <1>6

\* How often GetID's loop runs, and what it reads: bit k belongs to the position
\* end - k + 1.
StepsOf(start, end) == IF end > start THEN end - start ELSE 0

BitsOf(cov, end) == [k \in Nat |-> IF end - k + 1 \in cov THEN 1 ELSE 0]

\* GetID's loop is such a loop.
LEMMA PatternDoubles ==
  ASSUME NEW cov, NEW start \in Nat, NEW end \in Nat
  PROVE  LET n == StepsOf(start, end)
         IN  \E f : Doubling(f, n, 0, BitsOf(cov, end)) /\ Pattern(cov, start, end) = f[n]
<1> DEFINE n == IF end > start THEN end - start ELSE 0
           IsLoop(id) == id = [k \in 0 .. n |-> IF k = 0 THEN 0
                                 ELSE 2 * id[k - 1] + (IF end - k + 1 \in cov THEN 1 ELSE 0)]
           f == CHOOSE id : IsLoop(id)
<1>1. n \in Nat /\ n = StepsOf(start, end)
  BY DEF StepsOf
<1>2. Pattern(cov, start, end) = f[n]
  BY DEF Pattern
<1> HIDE DEF n
<1>3. ASSUME NEW g PROVE IsLoop(g) <=> Doubling(g, n, 0, BitsOf(cov, end))
  <2>1. \A k \in 0 .. n : BitsOf(cov, end)[k] = IF end - k + 1 \in cov THEN 1 ELSE 0
    BY <1>1 DEF BitsOf
  <2> QED BY <2>1 DEF Doubling
<1>4. \E g : Doubling(g, n, 0, BitsOf(cov, end))
  BY <1>1, DoublingExists
<1>5. IsLoop(f)
  <2>1. \E g : IsLoop(g)
    BY <1>3, <1>4
  <2> HIDE DEF IsLoop
  <2> QED BY <2>1
<1>6. Doubling(f, n, 0, BitsOf(cov, end))
  BY <1>3, <1>5
<1> QED BY <1>1, <1>2, <1>6

\* So is the shift, without new bits.
LEMMA ShiftDoubles ==
  ASSUME NEW n \in Nat
  PROVE  \E f : /\ \A k \in 0 .. n : f[k] \in Nat
                /\ f[0] = 1 /\ \A k \in 1 .. n : f[k] = 2 * f[k - 1]
                /\ ShiftedOne(n) = f[n]
<1> DEFINE IsShift(f) == f = [k \in 0 .. n |-> IF k = 0 THEN 1 ELSE 2 * f[k - 1]]
           f == CHOOSE f : IsShift(f)
           zero == [k \in Nat |-> 0]
<1>1. ShiftedOne(n) = f[n]
  BY DEF ShiftedOne
<1>2. PICK g : Doubling(g, n, 1, zero)
  <2> HIDE DEF zero
  <2> QED BY DoublingExists
<1>3. \A k \in 0 .. n : g[k] \in Nat
  <2>1. zero \in Bits
    BY DEF Bits
  <2> HIDE DEF zero
  <2> QED BY <1>2, <2>1, DoublingValues
<1>4. IsShift(g)
  <2>1. ASSUME NEW k \in 0 .. n, k # 0 PROVE 2 * g[k - 1] + zero[k] = 2 * g[k - 1]
    <3>1. k - 1 \in 0 .. n /\ k \in Nat
      BY <2>1
    <3>2. g[k - 1] \in Nat /\ zero[k] = 0
      BY <1>3, <3>1
    <3> QED BY <3>2
  <2> HIDE DEF zero
  <2>2. g = [k \in 0 .. n |-> IF k = 0 THEN 1 ELSE 2 * g[k - 1] + zero[k]]
    BY <1>2 DEF Doubling
  <2> QED BY <2>1, <2>2
<1>5. IsShift(f)
  <2> HIDE DEF IsShift
  <2> QED BY <1>4
<1>6. f[0] = 1 /\ \A k \in 1 .. n : f[k] = 2 * f[k - 1]
  <2>1. \A k \in 0 .. n : f[k] = IF k = 0 THEN 1 ELSE 2 * f[k - 1]
    <3> HIDE DEF f
    <3> QED BY <1>5
  <2> HIDE DEF f
  <2> QED BY <2>1
<1>7. \A k \in 0 .. n : f[k] \in Nat
  <2> HIDE DEF f
  <2> DEFINE Bad == {k \in 0 .. n : f[k] \notin Nat}
  <2>1. SUFFICES ASSUME Bad # {} PROVE FALSE
    OBVIOUS
  <2>2. PICK k \in Bad : \A j \in Bad : k <= j
    <3>1. Bad \in SUBSET Nat
      OBVIOUS
    <3> QED BY <2>1, <3>1, LeastElement
  <2>3. k # 0
    BY <1>6, <2>2
  <2>4. k \in 1 .. n /\ k - 1 \in 0 .. n /\ ~(k <= k - 1)
    BY <2>2, <2>3
  <2>5. f[k - 1] \in Nat
    BY <2>2, <2>4
  <2> QED BY <1>6, <2>2, <2>4, <2>5
<1> QED BY <1>1, <1>6, <1>7

\* The last bits of a number of two loops are the same.
LEMMA SameNumbers ==
  ASSUME NEW n \in Nat, NEW m \in Nat, n <= m, NEW a \in Bits, NEW b \in Bits, NEW f, NEW g,
         Doubling(f, n, 0, a), Doubling(g, m, 0, b), f[n] = g[m]
  PROVE  \A j \in 0 .. n : f[n - j] = g[m - j] /\ (j < n => a[n - j] = b[m - j])
<1>1. /\ \A k \in 0 .. n : f[k] \in Nat
      /\ \A k \in 1 .. n : f[k] = 2 * f[k - 1] + a[k]
  BY DoublingValues
<1>2. /\ \A k \in 0 .. m : g[k] \in Nat
      /\ \A k \in 1 .. m : g[k] = 2 * g[k - 1] + b[k]
  BY DoublingValues
<1>3. ASSUME NEW j \in 0 .. n, f[n - j] = g[m - j], j < n
      PROVE  f[n - (j + 1)] = g[m - (j + 1)] /\ a[n - j] = b[m - j]
  <2>1. PICK k, l : k = n - j /\ l = m - j
    OBVIOUS
  <2>2. /\ k \in 1 .. n /\ k - 1 \in 0 .. n /\ l \in 1 .. m /\ l - 1 \in 0 .. m
        /\ n - (j + 1) = k - 1 /\ m - (j + 1) = l - 1
    BY <1>3, <2>1
  <2>3. /\ f[k - 1] \in Nat /\ g[l - 1] \in Nat /\ a[k] \in {0, 1} /\ b[l] \in {0, 1}
        /\ f[k] = 2 * f[k - 1] + a[k] /\ g[l] = 2 * g[l - 1] + b[l]
    BY <1>1, <1>2, <2>2 DEF Bits
  <2>4. PICK x, y, c, d : x = f[k - 1] /\ y = g[l - 1] /\ c = a[k] /\ d = b[l]
    OBVIOUS
  <2>5. 2 * x + c = 2 * y + d /\ x \in Nat /\ y \in Nat /\ c \in {0, 1} /\ d \in {0, 1}
    BY <1>3, <2>1, <2>3, <2>4
  <2>6. x = y /\ c = d
    BY <2>5
  <2> QED BY <2>1, <2>2, <2>4, <2>6
<1> DEFINE Bad == {j \in 0 .. n : f[n - j] # g[m - j]}
<1>4. Bad = {}
  <2>1. SUFFICES ASSUME Bad # {} PROVE FALSE
    OBVIOUS
  <2>2. PICK j \in Bad : \A i \in Bad : j <= i
    <3>1. Bad \in SUBSET Nat
      OBVIOUS
    <3> QED BY <2>1, <3>1, LeastElement
  <2>3. j # 0
    <3>1. n - 0 = n /\ m - 0 = m
      OBVIOUS
    <3> QED BY <2>2, <3>1
  <2>4. j - 1 \in 0 .. n /\ j - 1 < n /\ ~(j <= j - 1) /\ (j - 1) + 1 = j
    BY <2>2, <2>3
  <2>5. f[n - (j - 1)] = g[m - (j - 1)]
    BY <2>2, <2>4
  <2>6. f[n - j] = g[m - j]
    <3>1. PICK i : i = j - 1
      OBVIOUS
    <3> HIDE DEF Bad
    <3> QED BY <1>3, <2>4, <2>5, <3>1
  <2> QED BY <2>2, <2>6
<1> QED BY <1>3, <1>4

\* A number whose first bit is set is not 0.
LEMMA FirstBitCounts ==
  ASSUME NEW n \in Nat, NEW bit \in Bits, NEW f, Doubling(f, n, 0, bit), bit[1] = 1
  PROVE  \A k \in 1 .. n : f[k] > 0
<1>1. /\ \A k \in 0 .. n : f[k] \in Nat
      /\ \A k \in 1 .. n : f[k] = 2 * f[k - 1] + bit[k]
  BY DoublingValues
<1> DEFINE Bad == {k \in 1 .. n : ~(f[k] > 0)}
<1>2. SUFFICES ASSUME Bad # {} PROVE FALSE
  OBVIOUS
<1>3. PICK k \in Bad : \A j \in Bad : k <= j
  <2>1. Bad \in SUBSET Nat
    OBVIOUS
  <2> QED BY <1>2, <2>1, LeastElement
<1>4. k \in 1 .. n /\ k - 1 \in 0 .. n /\ f[k - 1] \in Nat /\ bit[k] \in {0, 1}
  BY <1>1, <1>3 DEF Bits
<1>5. CASE k = 1
  BY <1>1, <1>3, <1>4, <1>5
<1>6. CASE k # 1
  <2>1. k - 1 \in 1 .. n /\ ~(k <= k - 1)
    BY <1>4, <1>6
  <2>2. f[k - 1] > 0
    BY <1>3, <2>1
  <2> QED BY <1>1, <1>3, <1>4, <2>2
<1> QED BY <1>5, <1>6

\* The two parts of an ID do not overlap.
LEMMA PartsOfID ==
  ASSUME NEW x \in Nat, NEW y \in Nat, NEW m \in Nat, NEW a \in Nat, NEW b \in Nat,
         x < m, y < m, x + m * a = y + m * b
  PROVE  a = b /\ x = y
<1>1. ASSUME NEW u \in Nat, NEW v \in Nat, NEW c \in Nat, NEW d \in Nat,
             v < m, u + m * c = v + m * d, d < c
      PROVE  FALSE
  <2>1. PICK k \in Nat : c = d + 1 + k
    <3>1. c - d - 1 \in Nat /\ c = d + 1 + (c - d - 1)
      BY <1>1
    <3> QED BY <3>1
  <2>2. m * c = m * d + m + m * k /\ m * k \in Nat /\ m * d \in Nat
    BY <2>1
  <2> QED BY <1>1, <2>2
<1>2. ~(b < a) /\ ~(a < b)
  BY <1>1
<1>3. a = b
  BY <1>2
<1>4. m * a \in Nat
  OBVIOUS
<1> QED BY <1>3, <1>4

-----------------------------------------------------------------------------
(* Coverages and their IDs *)

\* What GetID takes of a coverage.
LEMMA EndsOfCoverage ==
  ASSUME NEW cov \in SUBSET Positions
  PROVE  LET start == FirstGapOrSize(cov)
             last  == LastPosOrZero(cov)
         IN  /\ start \in Nat /\ last \in Nat /\ start \notin cov
             /\ \A p \in Nat : p < start => p \in cov
             /\ \A p \in cov : p \in Nat /\ p <= last
             /\ last > start => last \in cov
             /\ last > start => start = FirstGapPos(cov)
<1> DEFINE start == FirstGapOrSize(cov)
           last  == LastPosOrZero(cov)
<1>1. \A p \in Positions : p \in Nat /\ p < SourceSize /\ p # NotFound
  BY NotFoundBeyond
<1>2. start \in Nat /\ start \notin cov /\ \A p \in Nat : p < start => p \in cov
  <2>1. CASE cov = Positions
    <3>1. start = SourceSize
      BY <2>1, NoGap DEF FirstGapOrSize
    <3> QED BY <1>1, <2>1, <3>1, SourceSizeAssumption DEF Positions
  <2>2. CASE cov # Positions
    <3>1. /\ FirstGapPos(cov) \in Positions \ cov
          /\ \A q \in Positions \ cov : FirstGapPos(cov) <= q
      BY <2>2, FirstGap
    <3>2. start = FirstGapPos(cov)
      BY <1>1, <3>1 DEF FirstGapOrSize
    <3>3. start \in Nat /\ start < SourceSize
      BY <1>1, <3>1, <3>2
    <3>4. ASSUME NEW p \in Nat, p < start PROVE p \in cov
      <4>1. p \in Positions
        BY <3>3, <3>4, SourceSizeAssumption DEF Positions
      <4>2. ~(start <= p)
        BY <3>3, <3>4
      <4> QED BY <3>1, <3>2, <4>1, <4>2
    <3> QED BY <3>1, <3>2, <3>3, <3>4
  <2> QED BY <2>1, <2>2
<1>3. last \in Nat /\ (\A p \in cov : p \in Nat /\ p <= last) /\ (last > start => last \in cov)
  <2>1. CASE cov = {}
    <3>1. last = 0
      BY <2>1 DEF LastPosOrZero, LastPos
    <3> HIDE DEF start, last
    <3> QED BY <1>2, <2>1, <3>1
  <2>2. CASE cov # {}
    <3>1. Greatest(cov) \in cov /\ \A q \in cov : q <= Greatest(cov)
      BY <2>2, GreatestElement
    <3>2. last = Greatest(cov)
      BY <1>1, <2>2, <3>1 DEF LastPosOrZero, LastPos
    <3> QED BY <1>1, <3>1, <3>2
  <2> QED BY <2>1, <2>2
<1>4. ASSUME last > start PROVE start = FirstGapPos(cov)
  <2>1. last \in cov
    BY <1>3, <1>4
  <2>2. last < SourceSize
    BY <1>1, <2>1
  <2>3. start # SourceSize
    <3> HIDE DEF start, last
    <3> QED BY <1>2, <1>3, <1>4, <2>2, SourceSizeAssumption
  <2> QED BY <2>3 DEF FirstGapOrSize
<1> QED BY <1>2, <1>3, <1>4

\* The pattern of a coverage has a bit for each position from the one behind the first
\* gap to the last translated one.
Steps(cov) == StepsOf(FirstGapOrSize(cov), LastPosOrZero(cov))

\* How often the loop runs, the number it makes, and its last and first bits.
LEMMA LoopOfCoverage ==
  ASSUME NEW cov \in SUBSET Positions, Steps(cov) <= PatternBits
  PROVE  LET n == Steps(cov)
             last == LastPosOrZero(cov)
             bit == BitsOf(cov, last)
         IN  /\ n \in Nat /\ bit \in Bits
             /\ \E f, m : /\ Doubling(f, n, 0, bit) /\ f[n] \in Nat /\ f[n] < m /\ m \in Nat
                          /\ m = ShiftedOne(PatternBits)
                          /\ GetID(cov) = f[n] + m * FirstGapOrSize(cov)
             /\ n > 0 => bit[1] = 1 /\ last = FirstGapOrSize(cov) + n
             /\ n = 0 => \A p \in cov : p < FirstGapOrSize(cov)
<1> DEFINE n == Steps(cov)
           last == LastPosOrZero(cov)
           start == FirstGapOrSize(cov)
           bit == BitsOf(cov, last)
<1>1. /\ start \in Nat /\ last \in Nat /\ start \notin cov
      /\ \A p \in cov : p \in Nat /\ p <= last
      /\ last > start => last \in cov
  BY EndsOfCoverage
<1>2. n \in Nat /\ bit \in Bits
  BY <1>1 DEF Steps, StepsOf, BitsOf, Bits
<1>3. PICK f : Doubling(f, n, 0, bit) /\ Pattern(cov, start, last) = f[n]
  <2> HIDE DEF start, last
  <2> QED BY <1>1, PatternDoubles DEF Steps, start, last
<1>4. PICK power : /\ \A k \in 0 .. PatternBits : power[k] \in Nat
                   /\ power[0] = 1 /\ \A k \in 1 .. PatternBits : power[k] = 2 * power[k - 1]
                   /\ ShiftedOne(PatternBits) = power[PatternBits]
  BY PatternBitsAssumption, ShiftDoubles
<1>5. f[n] < power[PatternBits]
  <2> HIDE DEF n, bit
  <2> QED BY <1>2, <1>3, <1>4, PatternBitsAssumption, DoublingBounded DEF n
<1>6. f[n] \in Nat /\ power[PatternBits] \in Nat
  <2>1. n \in 0 .. n /\ PatternBits \in 0 .. PatternBits
    BY <1>2, PatternBitsAssumption
  <2>2. \A k \in 0 .. n : f[k] \in Nat
    <3> HIDE DEF n, bit
    <3> QED BY <1>2, <1>3, DoublingValues
  <2> HIDE DEF n
  <2> QED BY <1>4, <2>1, <2>2
<1>7. GetID(cov) = f[n] + ShiftedOne(PatternBits) * start
  BY <1>3 DEF GetID
<1>8. ASSUME n > 0 PROVE bit[1] = 1 /\ last = start + n
  <2>1. last > start /\ n = last - start
    BY <1>1, <1>8 DEF Steps, StepsOf
  <2>2. last \in cov /\ last - 1 + 1 = last
    BY <1>1, <2>1
  <2>3. bit[1] = 1
    BY <2>2 DEF BitsOf
  <2> HIDE DEF n, start, last, bit
  <2> QED BY <1>1, <2>1, <2>3
<1>9. ASSUME n = 0 PROVE \A p \in cov : p < start
  <2>1. ~(last > start)
    BY <1>1, <1>9 DEF Steps, StepsOf
  <2>2. \A p \in cov : p \in Nat /\ p <= last /\ p # start
    BY <1>1
  <2> HIDE DEF start, last
  <2> QED BY <1>1, <2>1, <2>2
<1> HIDE DEF n, start, last, bit
<1>10. \E g, m : /\ Doubling(g, n, 0, bit) /\ g[n] \in Nat /\ g[n] < m /\ m \in Nat
                 /\ m = ShiftedOne(PatternBits) /\ GetID(cov) = g[n] + m * start
  BY <1>3, <1>4, <1>5, <1>6, <1>7
<1> QED BY <1>2, <1>8, <1>9, <1>10 DEF n, start, last, bit

\* Two coverages with the same ID, the first with the shorter pattern.
LEMMA SameIDSameCoverage ==
  ASSUME NEW A \in SUBSET Positions, NEW B \in SUBSET Positions,
         Steps(A) <= PatternBits, Steps(B) <= PatternBits, Steps(A) <= Steps(B),
         GetID(A) = GetID(B)
  PROVE  A = B
<1> DEFINE n == Steps(A)
           m == Steps(B)
           s == FirstGapOrSize(A)
           lastA == LastPosOrZero(A)
           lastB == LastPosOrZero(B)
           bitA == BitsOf(A, lastA)
           bitB == BitsOf(B, lastB)
<1>1. /\ n \in Nat /\ bitA \in Bits
      /\ n > 0 => bitA[1] = 1 /\ lastA = s + n
      /\ n = 0 => \A p \in A : p < s
      /\ m \in Nat /\ bitB \in Bits
      /\ m > 0 => bitB[1] = 1 /\ lastB = FirstGapOrSize(B) + m
      /\ m = 0 => \A p \in B : p < FirstGapOrSize(B)
  BY LoopOfCoverage
<1>2. PICK f, M : /\ Doubling(f, n, 0, bitA) /\ f[n] \in Nat /\ f[n] < M /\ M \in Nat
                  /\ M = ShiftedOne(PatternBits) /\ GetID(A) = f[n] + M * s
  BY LoopOfCoverage
<1>3. PICK g : /\ Doubling(g, m, 0, bitB) /\ g[m] \in Nat /\ g[m] < M
               /\ GetID(B) = g[m] + M * FirstGapOrSize(B)
  <2>1. \E h, k : /\ Doubling(h, m, 0, bitB) /\ h[m] \in Nat /\ h[m] < k /\ k \in Nat
                  /\ k = ShiftedOne(PatternBits) /\ GetID(B) = h[m] + k * FirstGapOrSize(B)
    BY LoopOfCoverage
  <2> HIDE DEF m, bitB
  <2> QED BY <1>2, <2>1
<1>4. /\ s \in Nat /\ s \notin A /\ lastA \in Nat
      /\ \A p \in Nat : p < s => p \in A
      /\ \A p \in A : p \in Nat /\ p <= lastA
  BY EndsOfCoverage
<1>5. /\ FirstGapOrSize(B) \in Nat /\ FirstGapOrSize(B) \notin B /\ lastB \in Nat
      /\ \A p \in Nat : p < FirstGapOrSize(B) => p \in B
      /\ \A p \in B : p \in Nat /\ p <= lastB
  BY EndsOfCoverage
<1> HIDE DEF n, m, s, bitA, bitB, lastA, lastB
<1>6. s = FirstGapOrSize(B) /\ f[n] = g[m]
  <2>1. PICK x, y, b : x = f[n] /\ y = g[m] /\ b = FirstGapOrSize(B)
    OBVIOUS
  <2>2. x \in Nat /\ y \in Nat /\ b \in Nat /\ x < M /\ y < M /\ x + M * s = y + M * b
    BY <1>2, <1>3, <1>5, <2>1
  <2>3. s = b /\ x = y
    BY <1>2, <1>4, <2>2, PartsOfID
  <2> QED BY <2>1, <2>3
<1>7. \A j \in 0 .. n : f[n - j] = g[m - j] /\ (j < n => bitA[n - j] = bitB[m - j])
  <2>1. n <= m
    BY DEF n, m
  <2> QED BY <1>1, <1>2, <1>3, <1>6, <2>1, SameNumbers
\* The longer pattern would begin with a bit that the shorter does not have.
<1>8. n = m
  <2>1. SUFFICES ASSUME n # m PROVE FALSE
    OBVIOUS
  <2>2. m - n \in 1 .. m /\ m > 0 /\ n \in 0 .. n /\ n - n = 0
    <3>1. n <= m
      BY DEF n, m
    <3> QED BY <1>1, <2>1, <3>1
  <2>3. g[m - n] > 0
    BY <1>1, <1>3, <2>2, FirstBitCounts
  <2>4. f[n - n] = g[m - n]
    BY <1>7, <2>2
  <2>5. f[0] = 0
    BY <1>1, <1>2, DoublingValues
  <2> QED BY <2>2, <2>3, <2>4, <2>5
<1>9. n > 0 => lastA = lastB
  BY <1>1, <1>6, <1>8
<1>10. ASSUME NEW p \in Nat, p > s PROVE p \in A <=> p \in B
  <2>1. CASE n = 0
    <3>1. \A q \in A \cup B : q < s
      BY <1>1, <1>6, <1>8, <2>1
    <3>2. ~(p < s)
      BY <1>4, <1>10
    <3> QED BY <3>1, <3>2
  <2>2. CASE n > 0 /\ p > lastA
    <3>1. ~(p <= lastA) /\ lastA = lastB
      BY <1>4, <1>9, <2>2
    <3> QED BY <1>4, <1>5, <3>1
  <2>3. CASE n > 0 /\ ~(p > lastA)
    <3>1. PICK k : k = lastA - p + 1
      OBVIOUS
    <3>2. /\ lastA = s + n /\ k \in 1 .. n /\ k \in Nat /\ n - k \in 0 .. n /\ n - k < n
          /\ n - (n - k) = k /\ m - (n - k) = k /\ lastA - k + 1 = p
      BY <1>1, <1>4, <1>8, <1>10, <2>3, <3>1
    <3>3. bitA[k] = bitB[k]
      <4>1. PICK j : j = n - k
        OBVIOUS
      <4>2. j \in 0 .. n /\ j < n /\ n - j = k /\ m - j = k
        BY <3>2, <4>1
      <4> QED BY <1>7, <4>2
    <3>4. bitA[k] = 1 <=> p \in A
      BY <3>2 DEF bitA, BitsOf
    <3>5. bitB[k] = 1 <=> p \in B
      <4>1. lastB - k + 1 = p
        BY <1>9, <2>3, <3>2
      <4> QED BY <3>2, <4>1 DEF bitB, BitsOf
    <3> QED BY <3>3, <3>4, <3>5
  <2>4. n = 0 \/ n > 0
    BY <1>1
  <2> QED BY <2>1, <2>2, <2>3, <2>4
<1>11. ASSUME NEW p \in Nat PROVE p \in A <=> p \in B
  <2>1. CASE p < s
    BY <1>4, <1>5, <1>6, <2>1
  <2>2. CASE p = s
    BY <1>4, <1>5, <1>6, <2>2
  <2>3. CASE p > s
    BY <1>10, <2>3
  <2>4. p < s \/ p = s \/ p > s
    BY <1>4
  <2> QED BY <2>1, <2>2, <2>3, <2>4
<1>12. A \subseteq Nat /\ B \subseteq Nat
  BY <1>4, <1>5
<1> QED BY <1>11, <1>12

\* Within a window that fits, no two coverages share an ID.
LEMMA WindowFits ==
  ASSUME MaxDistortion \in 0 .. PatternBits + 1, NEW cov \in SUBSET Positions,
         \A p \in cov : p > FirstGapPos(cov) => p - FirstGapPos(cov) + 1 <= MaxDistortion
  PROVE  Steps(cov) <= PatternBits /\ PatternFits(cov)
<1> DEFINE start == FirstGapOrSize(cov)
           last  == LastPosOrZero(cov)
<1>1. /\ start \in Nat /\ last \in Nat
      /\ last > start => last \in cov /\ start = FirstGapPos(cov)
      /\ start \notin cov
  BY EndsOfCoverage
<1>2. last > start => last - start <= PatternBits
  <2> SUFFICES ASSUME last > start PROVE last - start <= PatternBits
    OBVIOUS
  <2>1. last - start + 1 <= MaxDistortion
    BY <1>1
  <2> HIDE DEF start, last
  <2> QED BY <1>1, <2>1, PatternBitsAssumption
<1>3. last < start \/ last > start \/ last - start = 0
  <2> HIDE DEF start, last
  <2> QED BY <1>1
<1> QED BY <1>1, <1>2, <1>3, PatternBitsAssumption DEF Steps, StepsOf, PatternFits

\* Up to a distortion limit of one more than the bits of the pattern (17 in the
\* code), whatever the sentence: the assertion of GetID holds for every coverage a
\* derivation builds, and the ID of none is that of another coverage within the limit.
\* The loop that makes the ID can be undone bit by bit, and both parts of
\* the number stay apart.
THEOREM CoverageIDsDistinct ==
  ASSUME MaxDistortion \in 0 .. PatternBits + 1
  PROVE  SeedsInWindow /\ Spec => []IDsDistinct
<1>1. TypeOK /\ WindowWithinLimit => IDsDistinct
  <2> SUFFICES ASSUME TypeOK, WindowWithinLimit PROVE IDsDistinct
    OBVIOUS
  <2>1. /\ sourceCompleted \in SUBSET Positions
        /\ \A p \in sourceCompleted : p > FirstGapPos(sourceCompleted) =>
             p - FirstGapPos(sourceCompleted) + 1 <= MaxDistortion
    BY PatternBitsAssumption DEF TypeOK, WindowWithinLimit
  <2>2. Steps(sourceCompleted) <= PatternBits /\ PatternFits(sourceCompleted)
    BY <2>1, WindowFits
  <2>3. ASSUME NEW cov \in WindowCoverages, GetID(cov) = GetID(sourceCompleted)
        PROVE  cov = sourceCompleted
    <3>1. cov \in SUBSET Positions /\ Steps(cov) <= PatternBits
      BY WindowFits DEF WindowCoverages
    <3>2. Steps(cov) \in Nat /\ Steps(sourceCompleted) \in Nat
      BY <2>1, <2>2, <3>1, LoopOfCoverage
    <3>3. Steps(cov) <= Steps(sourceCompleted) \/ Steps(sourceCompleted) <= Steps(cov)
      BY <3>2
    <3> QED BY <2>1, <2>2, <2>3, <3>1, <3>3, SameIDSameCoverage
  <2> QED BY <2>2, <2>3 DEF IDsDistinct
<1> QED BY <1>1, TypeCorrect, DistortionLimitHolds, PTL

-----------------------------------------------------------------------------
(* The blocks of the hierarchical reordering models (LexicalReordering) *)

Spans  == [start : Positions, end : Positions]
Blocks == {b \in Spans : b.start <= b.end}

\* Two blocks without a word in common, and a block that holds another.
Apart(a, b) == a.end < b.start \/ b.end < a.start
Holds(b, a) == b.start <= a.start /\ a.end <= b.end

\* A word of a block.
Covers(b, p) == b.start <= p /\ p <= b.end

\* The stack holds disjoint blocks that could not be merged when they met.
StackSound(stack) ==
  /\ stack \in Seq(Blocks)
  /\ \A i, j \in 1 .. Len(stack) : i # j => Apart(stack[i], stack[j])
  /\ \A i \in 2 .. Len(stack) : ~NextTo(stack[i], stack[i - 1])

\* The words of the blocks from number lo to number hi.
CoveredFrom(stack, lo, hi, p) == \E i \in lo .. hi : Covers(stack[i], p)

Covered(stack, p) == CoveredFrom(stack, 1, Len(stack), p)

LEMMA BlockNumbers ==
  ASSUME NEW b \in Blocks
  PROVE  b.start \in Int /\ b.end \in Int /\ b.start <= b.end
BY SourceSizeAssumption DEF Blocks, Spans, Positions

\* A word next to a block, or in it, is on one side of every block that is apart.
LEMMA MergedBlock ==
  ASSUME NEW a \in Blocks, NEW b \in Blocks, NextTo(b, a)
  PROVE  LET m == Merge(a, b)
         IN  /\ m \in Blocks
             /\ Holds(m, a) /\ Holds(m, b)
             /\ \A p \in Positions : Covers(m, p) <=> Covers(a, p) \/ Covers(b, p)
             /\ \A x \in Blocks : Apart(x, a) /\ Apart(x, b) => Apart(x, m)
<1>1. /\ a.start \in Int /\ a.end \in Int /\ a.start <= a.end
      /\ b.start \in Int /\ b.end \in Int /\ b.start <= b.end
  BY BlockNumbers
<1>2. a.start \in Positions /\ a.end \in Positions /\ b.start \in Positions /\ b.end \in Positions
  BY DEF Blocks, Spans
<1>3. Positions \subseteq Int
  BY SourceSizeAssumption DEF Positions
<1>4. CASE b.start - a.end = 1
  <2> DEFINE m == Joined(a, b)
  <2>1. Merge(a, b) = m
    BY <1>4 DEF Merge
  <2>2. m \in Spans /\ m.start = a.start /\ m.end = b.end
    BY <1>2 DEF Joined, Span, Spans
  <2> HIDE DEF m
  <2>3. m \in Blocks /\ Holds(m, a) /\ Holds(m, b)
    BY <1>1, <1>4, <2>2 DEF Blocks, Holds
  <2>4. ASSUME NEW p \in Positions PROVE Covers(m, p) <=> Covers(a, p) \/ Covers(b, p)
    BY <1>1, <1>3, <1>4, <2>2 DEF Covers
  <2>5. ASSUME NEW x \in Blocks, Apart(x, a), Apart(x, b) PROVE Apart(x, m)
    <3>1. x.start \in Int /\ x.end \in Int /\ x.start <= x.end
      BY BlockNumbers
    <3> QED BY <1>1, <1>4, <2>2, <2>5, <3>1 DEF Apart
  <2> QED BY <2>1, <2>3, <2>4, <2>5
<1>5. CASE b.start - a.end # 1
  <2> DEFINE m == Joined(b, a)
  <2>0. a.start - b.end = 1
    BY <1>5 DEF NextTo
  <2>1. Merge(a, b) = m
    BY <1>5 DEF Merge
  <2>2. m \in Spans /\ m.start = b.start /\ m.end = a.end
    BY <1>2 DEF Joined, Span, Spans
  <2> HIDE DEF m
  <2>3. m \in Blocks /\ Holds(m, a) /\ Holds(m, b)
    BY <1>1, <2>0, <2>2 DEF Blocks, Holds
  <2>4. ASSUME NEW p \in Positions PROVE Covers(m, p) <=> Covers(a, p) \/ Covers(b, p)
    BY <1>1, <1>3, <2>0, <2>2 DEF Covers
  <2>5. ASSUME NEW x \in Blocks, Apart(x, a), Apart(x, b) PROVE Apart(x, m)
    <3>1. x.start \in Int /\ x.end \in Int /\ x.start <= x.end
      BY BlockNumbers
    <3> QED BY <1>1, <2>0, <2>2, <2>5, <3>1 DEF Apart
  <2> QED BY <2>1, <2>3, <2>4, <2>5
<1> QED BY <1>4, <1>5

\* f has the spans of the loop of ReorderingStack::Reduce up to turn n.
MergingTo(f, n, stack, span) ==
  f = [k \in 0 .. n |->
         IF k = 0 THEN span ELSE Merge(stack[Len(stack) - k + 1], f[k - 1])]

\* There is such a function.
LEMMA MergingExists ==
  ASSUME NEW n \in Nat, NEW stack, NEW span
  PROVE  \E f : MergingTo(f, n, stack, span)
<1> DEFINE M(k, x) == Merge(stack[Len(stack) - k + 1], x)
           Bad == {k \in 0 .. n : ~\E f : MergingTo(f, k, stack, span)}
<1>0. ASSUME NEW f, NEW k
      PROVE  MergingTo(f, k, stack, span) <=>
               f = [j \in 0 .. k |-> IF j = 0 THEN span ELSE M(j, f[j - 1])]
  BY DEF MergingTo
<1> HIDE DEF M
<1>1. SUFFICES ASSUME Bad # {} PROVE FALSE
  OBVIOUS
<1>2. PICK k \in Bad : \A j \in Bad : k <= j
  <2>1. Bad \in SUBSET Nat
    OBVIOUS
  <2> QED BY <1>1, <2>1, LeastElement
<1>3. CASE k = 0
  <2> DEFINE f == [j \in 0 .. 0 |-> span]
  <2>1. f = [j \in 0 .. 0 |-> IF j = 0 THEN span ELSE M(j, f[j - 1])]
    OBVIOUS
  <2>2. MergingTo(f, 0, stack, span)
    BY <1>0, <2>1
  <2> QED BY <1>2, <1>3, <2>2
<1>4. CASE k # 0
  <2>1. k \in 1 .. n /\ k - 1 \in 0 .. n /\ ~(k <= k - 1)
    BY <1>2, <1>4
  <2>2. PICK f : MergingTo(f, k - 1, stack, span)
    BY <1>2, <2>1
  <2>3. f = [j \in 0 .. k - 1 |-> IF j = 0 THEN span ELSE M(j, f[j - 1])]
    BY <1>0, <2>2
  <2> DEFINE g == [j \in 0 .. k |-> IF j = k THEN M(k, f[k - 1]) ELSE f[j]]
  <2>4. ASSUME NEW j \in 0 .. k
        PROVE  g[j] = IF j = 0 THEN span ELSE M(j, g[j - 1])
    <3>1. CASE j = k
      <4>1. g[j - 1] = f[k - 1] /\ j # 0
        BY <1>4, <2>1, <3>1
      <4> QED BY <3>1, <4>1
    <3>2. CASE j # k
      <4>1. j \in 0 .. k - 1 /\ g[j] = f[j]
        BY <2>1, <3>2
      <4>2. f[j] = IF j = 0 THEN span ELSE M(j, f[j - 1])
        <5> HIDE DEF g
        <5> QED BY <2>3, <4>1
      <4>3. j # 0 => g[j - 1] = f[j - 1]
        BY <2>1, <3>2, <4>1
      <4> QED BY <4>1, <4>2, <4>3
    <3> QED BY <3>1, <3>2
  <2>5. g = [j \in 0 .. k |-> IF j = 0 THEN span ELSE M(j, g[j - 1])]
    <3>1. g = [j \in 0 .. k |-> g[j]]
      OBVIOUS
    <3> HIDE DEF g
    <3> QED BY <2>4, <3>1
  <2>6. MergingTo(g, k, stack, span)
    <3> HIDE DEF g
    <3> QED BY <1>0, <2>5
  <2> QED BY <1>2, <2>6
<1> QED BY <1>3, <1>4

\* f has the values of the loop of Reduce, which ends at turn k, the first one at
\* which nothing is left or the block on top is not next to the merged span.
IsReduceLoop(f, k, stack, span) ==
  /\ k \in 0 .. Len(stack)
  /\ f[0] = span
  /\ \A j \in 1 .. Len(stack) : f[j] = Merge(stack[Len(stack) - j + 1], f[j - 1])
  /\ k = Len(stack) \/ ~NextTo(stack[Len(stack) - k], f[k])
  /\ \A j \in 0 .. k - 1 : NextTo(stack[Len(stack) - j], f[j])
  /\ Reduce(stack, span) = Append(SubSeq(stack, 1, Len(stack) - k), f[k])

\* Reduce is such a loop.
LEMMA ReduceLoop ==
  ASSUME NEW stack \in Seq(Blocks), NEW span
  PROVE  \E f, k : IsReduceLoop(f, k, stack, span)
<1> DEFINE n == Len(stack)
           IsMerging(f) == f = [k \in 0 .. n |->
                                  IF k = 0 THEN span ELSE Merge(stack[n - k + 1], f[k - 1])]
           f == CHOOSE g : IsMerging(g)
           Stops == {k \in 0 .. n : k = n \/ ~NextTo(stack[n - k], f[k])}
           turns == Least(Stops)
<1>1. Reduce(stack, span) = Append(SubSeq(stack, 1, n - turns), f[turns])
  BY DEF Reduce
<1>2. n \in Nat
  OBVIOUS
<1>3. IsMerging(f)
  <2>1. \E g : IsMerging(g)
    <3>1. \E g : MergingTo(g, n, stack, span)
      BY <1>2, MergingExists
    <3> QED BY <3>1 DEF MergingTo
  <2> HIDE DEF IsMerging
  <2> QED BY <2>1
<1> HIDE DEF f
<1>4. f[0] = span /\ \A j \in 1 .. n : f[j] = Merge(stack[n - j + 1], f[j - 1])
  <2>1. \A k \in 0 .. n : f[k] = IF k = 0 THEN span ELSE Merge(stack[n - k + 1], f[k - 1])
    BY <1>3
  <2> HIDE DEF IsMerging, n
  <2> QED BY <1>2, <2>1
<1>5. turns \in Stops /\ \A j \in Stops : turns <= j
  <2>1. Stops \in SUBSET Nat /\ n \in Stops
    <3> HIDE DEF n
    <3> QED BY <1>2
  <2> HIDE DEF Stops
  <2> QED BY <2>1, LeastElement
<1>6. turns \in 0 .. n /\ (turns = n \/ ~NextTo(stack[n - turns], f[turns]))
  <2> HIDE DEF turns
  <2> QED BY <1>5
<1>7. ASSUME NEW j \in 0 .. turns - 1 PROVE NextTo(stack[n - j], f[j])
  <2> HIDE DEF turns, n
  <2>1. j \in 0 .. n /\ j # n /\ ~(turns <= j)
    BY <1>2, <1>6
  <2> QED BY <1>5, <2>1
<1> HIDE DEF turns
<1>8. IsReduceLoop(f, turns, stack, span)
  BY <1>1, <1>4, <1>6, <1>7 DEF IsReduceLoop
<1> QED BY <1>8

\* The loop below the top of the stack.
LEMMA PrefixSound ==
  ASSUME NEW stack, StackSound(stack), NEW m \in 0 .. Len(stack)
  PROVE  LET q == SubSeq(stack, 1, m)
         IN  /\ StackSound(q) /\ Len(q) = m
             /\ \A i \in 1 .. m : q[i] = stack[i]
<1> DEFINE q == SubSeq(stack, 1, m)
<1>1. stack \in Seq(Blocks) /\ Len(stack) \in Nat
  BY DEF StackSound
<1>2. m \in Nat /\ m <= Len(stack)
  BY <1>1
<1>3. q \in Seq(Blocks) /\ Len(q) = m /\ \A i \in 1 .. m : q[i] = stack[i]
  BY <1>1, <1>2
<1> HIDE DEF q
<1>4. \A i, j \in 1 .. Len(q) : i # j => Apart(q[i], q[j])
  <2>1. \A i \in 1 .. m : i \in 1 .. Len(stack)
    BY <1>1, <1>2
  <2> QED BY <1>3, <2>1 DEF StackSound
<1>5. \A i \in 2 .. Len(q) : ~NextTo(q[i], q[i - 1])
  <2>1. \A i \in 2 .. m : i \in 2 .. Len(stack) /\ i \in 1 .. m /\ i - 1 \in 1 .. m
    BY <1>1, <1>2
  <2> QED BY <1>3, <2>1 DEF StackSound
<1> QED BY <1>3, <1>4, <1>5 DEF StackSound

\* A block that is apart from the others, and not next to the one on top, is
\* pushed.
LEMMA PushSound ==
  ASSUME NEW stack, StackSound(stack), NEW b \in Blocks,
         \A i \in 1 .. Len(stack) : Apart(stack[i], b),
         stack = <<>> \/ ~NextTo(stack[Len(stack)], b)
  PROVE  LET r == Append(stack, b)
         IN  /\ StackSound(r) /\ Len(r) = Len(stack) + 1
             /\ r # <<>> /\ r[Len(r)] = b
             /\ \A p \in Positions : Covered(r, p) <=> Covered(stack, p) \/ Covers(b, p)
<1> DEFINE r == Append(stack, b)
           n == Len(stack)
<1>1. stack \in Seq(Blocks) /\ n \in Nat
  BY DEF StackSound
<1>2. /\ r \in Seq(Blocks) /\ Len(r) = n + 1
      /\ \A i \in 1 .. n : r[i] = stack[i]
      /\ r[n + 1] = b
  BY <1>1
<1>3. r # <<>>
  BY <1>1
<1>4. stack = <<>> \/ n >= 1
  BY <1>1
<1>5. n >= 1 => ~NextTo(stack[n], b)
  BY <1>1
<1> HIDE DEF r, n
<1>6. ASSUME NEW i \in 1 .. Len(r), NEW j \in 1 .. Len(r), i # j
      PROVE  Apart(r[i], r[j])
  <2>1. CASE i \in 1 .. n /\ j \in 1 .. n
    <3>1. Apart(stack[i], stack[j])
      BY <1>6, <2>1 DEF StackSound, n
    <3> QED BY <1>2, <2>1, <3>1
  <2>2. CASE i = n + 1 /\ j \in 1 .. n
    <3>1. Apart(stack[j], b)
      BY <2>2 DEF n
    <3> QED BY <1>2, <2>2, <3>1 DEF Apart
  <2>3. CASE j = n + 1 /\ i \in 1 .. n
    <3>1. Apart(stack[i], b)
      BY <2>3 DEF n
    <3> QED BY <1>2, <2>3, <3>1
  <2>4. \A k \in 1 .. Len(r) : k \in 1 .. n \/ k = n + 1
    BY <1>1, <1>2
  <2> QED BY <1>6, <2>1, <2>2, <2>3, <2>4
<1>7. ASSUME NEW i \in 2 .. Len(r) PROVE ~NextTo(r[i], r[i - 1])
  <2>1. CASE i \in 2 .. n
    <3>1. ~NextTo(stack[i], stack[i - 1])
      BY <2>1 DEF StackSound, n
    <3>2. i \in 1 .. n /\ i - 1 \in 1 .. n
      BY <1>1, <2>1
    <3> QED BY <1>2, <3>1, <3>2
  <2>2. CASE i = n + 1
    <3>1. n >= 1 /\ i - 1 = n /\ n \in 1 .. n
      BY <1>1, <1>2, <2>2
    <3>2. r[i] = b /\ r[i - 1] = stack[n]
      BY <1>2, <2>2, <3>1
    <3> QED BY <1>5, <3>1, <3>2 DEF NextTo
  <2> QED BY <1>1, <1>2, <1>7, <2>1, <2>2
<1>8. ASSUME NEW p \in Positions
      PROVE  Covered(r, p) <=> Covered(stack, p) \/ Covers(b, p)
  <2>1. \A i : i \in 1 .. n + 1 <=> i \in 1 .. n \/ i = n + 1
    BY <1>1
  <2>2. Covered(r, p) <=> \E i \in 1 .. n + 1 : Covers(r[i], p)
    BY <1>2 DEF Covered, CoveredFrom
  <2>3. Covered(stack, p) <=> \E i \in 1 .. n : Covers(stack[i], p)
    BY DEF Covered, CoveredFrom, n
  <2> QED BY <1>2, <2>1, <2>2, <2>3
<1>9. StackSound(r)
  BY <1>2, <1>6, <1>7 DEF StackSound
<1> QED BY <1>2, <1>3, <1>8, <1>9 DEF r, n

\* Reduce keeps the stack sound, and the merged block on top holds the span.
LEMMA ReduceSound ==
  ASSUME NEW stack, StackSound(stack), NEW span \in Blocks,
         \A i \in 1 .. Len(stack) : Apart(stack[i], span)
  PROVE  LET r == Reduce(stack, span)
         IN  /\ StackSound(r) /\ r # <<>> /\ Holds(r[Len(r)], span)
             /\ \A p \in Positions : Covered(r, p) <=> Covered(stack, p) \/ Covers(span, p)
<1> DEFINE n == Len(stack)
<1>1. stack \in Seq(Blocks) /\ n \in Nat
  BY DEF StackSound
<1>2. PICK f, k : IsReduceLoop(f, k, stack, span)
  BY <1>1, ReduceLoop
<1>3. /\ k \in 0 .. n
      /\ f[0] = span
      /\ \A j \in 1 .. n : f[j] = Merge(stack[n - j + 1], f[j - 1])
      /\ k = n \/ ~NextTo(stack[n - k], f[k])
      /\ \A j \in 0 .. k - 1 : NextTo(stack[n - j], f[j])
      /\ Reduce(stack, span) = Append(SubSeq(stack, 1, n - k), f[k])
  BY <1>2 DEF IsReduceLoop
\* After j turns: the j blocks on top have become part of the span.
<1> DEFINE Merged(j) ==
             /\ f[j] \in Blocks
             /\ Holds(f[j], span)
             /\ \A p \in Positions :
                  Covers(f[j], p) <=> CoveredFrom(stack, n - j + 1, n, p) \/ Covers(span, p)
             /\ \A i \in 1 .. n - j : Apart(stack[i], f[j])
           Bad == {j \in 0 .. k : ~Merged(j)}
<1>4. \A i \in 1 .. n : stack[i] \in Blocks /\ Apart(stack[i], span)
  BY <1>1
<1>5. \A i, j \in 1 .. n : i # j => Apart(stack[i], stack[j])
  BY DEF StackSound
<1> HIDE DEF n
<1>6. Merged(0)
  <2>1. f[0] \in Blocks /\ Holds(f[0], span)
    <3>1. span.start \in Int /\ span.end \in Int
      BY BlockNumbers
    <3> QED BY <1>3, <3>1 DEF Holds
  <2>2. ASSUME NEW p \in Positions PROVE ~CoveredFrom(stack, n - 0 + 1, n, p)
    <3>1. (n - 0 + 1) .. n = {}
      BY <1>1
    <3> QED BY <3>1 DEF CoveredFrom
  <2>3. \A i \in 1 .. n - 0 : i \in 1 .. n
    BY <1>1
  <2> QED BY <1>3, <1>4, <2>1, <2>2, <2>3
<1>7. ASSUME NEW j \in 1 .. k, Merged(j - 1) PROVE Merged(j)
  <2> DEFINE a == stack[n - j + 1]
             b == f[j - 1]
  <2>1. /\ j \in 1 .. n /\ j - 1 \in 0 .. k - 1 /\ n - j + 1 \in 1 .. n
        /\ n - (j - 1) = n - j + 1
    BY <1>1, <1>3
  <2>2. a \in Blocks /\ b \in Blocks /\ NextTo(b, a) /\ f[j] = Merge(a, b)
    <3>1. NextTo(stack[n - (j - 1)], f[j - 1])
      BY <1>3, <2>1
    <3> QED BY <1>3, <1>4, <1>7, <2>1, <3>1 DEF NextTo
  <2>3. /\ f[j] \in Blocks /\ Holds(f[j], b)
        /\ \A p \in Positions : Covers(f[j], p) <=> Covers(a, p) \/ Covers(b, p)
        /\ \A x \in Blocks : Apart(x, a) /\ Apart(x, b) => Apart(x, f[j])
    <3> HIDE DEF a, b
    <3> QED BY <2>2, MergedBlock
  <2>4. Holds(f[j], span)
    <3>1. Holds(b, span)
      BY <1>7
    <3>2. /\ b.start \in Int /\ b.end \in Int /\ span.start \in Int /\ span.end \in Int
          /\ f[j].start \in Int /\ f[j].end \in Int
      BY <2>2, <2>3, BlockNumbers
    <3> HIDE DEF b
    <3> QED BY <2>3, <3>1, <3>2 DEF Holds
  <2>5. ASSUME NEW p \in Positions
        PROVE  Covers(f[j], p) <=> CoveredFrom(stack, n - j + 1, n, p) \/ Covers(span, p)
    <3>1. Covers(b, p) <=> CoveredFrom(stack, n - (j - 1) + 1, n, p) \/ Covers(span, p)
      BY <1>7
    <3>2. \A i : i \in n - j + 1 .. n <=> i = n - j + 1 \/ i \in n - (j - 1) + 1 .. n
      BY <1>1, <2>1
    <3>3. CoveredFrom(stack, n - j + 1, n, p) <=>
            Covers(a, p) \/ CoveredFrom(stack, n - (j - 1) + 1, n, p)
      BY <3>2 DEF CoveredFrom
    <3> HIDE DEF a, b
    <3> QED BY <2>3, <3>1, <3>3
  <2>6. ASSUME NEW i \in 1 .. n - j PROVE Apart(stack[i], f[j])
    <3>1. i \in 1 .. n /\ i \in 1 .. n - (j - 1) /\ i # n - j + 1
      BY <1>1, <2>1
    <3>2. stack[i] \in Blocks /\ Apart(stack[i], a)
      BY <1>4, <1>5, <2>1, <3>1
    <3>3. Apart(stack[i], b)
      BY <1>7, <3>1
    <3> HIDE DEF a, b
    <3> QED BY <2>3, <3>2, <3>3
  <2> QED BY <2>3, <2>4, <2>5, <2>6
<1>8. Merged(k)
  <2> HIDE DEF Merged
  <2>1. SUFFICES ASSUME Bad # {} PROVE FALSE
    BY <1>1, <1>3
  <2>2. PICK j \in Bad : \A i \in Bad : j <= i
    <3>1. Bad \in SUBSET Nat
      OBVIOUS
    <3> QED BY <2>1, <3>1, LeastElement
  <2>3. j # 0
    BY <1>6, <2>2
  <2>4. j \in 1 .. k /\ j - 1 \in 0 .. k /\ ~(j <= j - 1)
    <3>1. k \in Nat /\ j \in 0 .. k
      BY <1>1, <1>3, <2>2
    <3> QED BY <2>3, <3>1
  <2>5. Merged(j - 1)
    BY <2>2, <2>4
  <2> QED BY <1>7, <2>2, <2>4, <2>5
<1> DEFINE q == SubSeq(stack, 1, n - k)
           m == n - k
<1>9. m \in 0 .. n /\ m + k = n
  BY <1>1, <1>3
<1>10. /\ StackSound(q) /\ Len(q) = m
       /\ \A i \in 1 .. m : q[i] = stack[i]
  BY <1>9, PrefixSound DEF n
<1> HIDE DEF q
<1>11. /\ \A i \in 1 .. Len(q) : Apart(q[i], f[k])
       /\ q = <<>> \/ ~NextTo(q[Len(q)], f[k])
  <2>1. \A i \in 1 .. Len(q) : Apart(q[i], f[k])
    BY <1>8, <1>10
  <2>2. CASE m = 0
    <3>1. q \in Seq(Blocks) /\ Len(q) = 0
      BY <1>10, <2>2 DEF StackSound
    <3> HIDE DEF m
    <3>2. q = <<>>
      BY <3>1
    <3> QED BY <2>1, <3>2
  <2>3. CASE m # 0
    <3>1. m \in 1 .. m /\ k # n
      BY <1>1, <1>9, <2>3
    <3>2. ~NextTo(q[m], f[k])
      BY <1>3, <1>10, <3>1
    <3> QED BY <1>10, <2>1, <3>2
  <2> QED BY <2>2, <2>3
<1> DEFINE r == Append(q, f[k])
<1>12. /\ StackSound(r) /\ r # <<>> /\ r[Len(r)] = f[k]
       /\ \A p \in Positions : Covered(r, p) <=> Covered(q, p) \/ Covers(f[k], p)
  <2>1. f[k] \in Blocks
    BY <1>8
  <2> HIDE DEF Merged, m
  <2> QED BY <1>10, <1>11, <2>1, PushSound
<1>13. r = Reduce(stack, span)
  BY <1>3 DEF q
<1> HIDE DEF r
<1>14. ASSUME NEW p \in Positions
       PROVE  Covered(r, p) <=> Covered(stack, p) \/ Covers(span, p)
  <2>1. Covered(q, p) <=> \E i \in 1 .. m : Covers(stack[i], p)
    <3> HIDE DEF m
    <3> QED BY <1>10 DEF Covered, CoveredFrom
  <2>2. Covers(f[k], p) <=>
          (\E i \in n - k + 1 .. n : Covers(stack[i], p)) \/ Covers(span, p)
    BY <1>8 DEF CoveredFrom
  <2>3. \A i : i \in 1 .. n <=> i \in 1 .. m \/ i \in n - k + 1 .. n
    BY <1>1, <1>9
  <2>4. Covered(stack, p) <=> \E i \in 1 .. n : Covers(stack[i], p)
    BY DEF Covered, CoveredFrom, n
  <2> HIDE DEF m
  <2> QED BY <1>12, <2>1, <2>2, <2>3, <2>4
<1>15. Holds(r[Len(r)], span)
  BY <1>8, <1>12
<1> QED BY <1>12, <1>13, <1>14, <1>15

\* The span joins the block on top that it is next to, whichever side, and
\* Reduce joins the others: what ShiftReduce does at a distance of 1 or -1.
LEMMA JoinSound ==
  ASSUME NEW stack, StackSound(stack), stack # <<>>, NEW span \in Blocks,
         \A i \in 1 .. Len(stack) : Apart(stack[i], span),
         NEW joined, NextTo(span, Last(stack)), joined = Merge(Last(stack), span)
  PROVE  LET r == Reduce(Front(stack), joined)
         IN  /\ StackSound(r) /\ r # <<>> /\ Holds(r[Len(r)], span)
             /\ \A p \in Positions : Covered(r, p) <=> Covered(stack, p) \/ Covers(span, p)
<1> DEFINE n == Len(stack)
           q == Front(stack)
           a == stack[n]
<1>1. stack \in Seq(Blocks) /\ n \in Nat
  BY DEF StackSound
<1>2. n # 0
  BY <1>1
<1>3. n \in 1 .. n /\ n - 1 \in 0 .. n
  BY <1>1, <1>2
<1>4. Last(stack) = a /\ a \in Blocks
  BY <1>1, <1>3 DEF Last
<1>5. /\ StackSound(q) /\ Len(q) = n - 1
      /\ \A i \in 1 .. n - 1 : q[i] = stack[i]
  BY <1>3, PrefixSound DEF Front
<1>6. \A i \in 1 .. n - 1 : i \in 1 .. n /\ i # n
  BY <1>1
<1>7. \A i \in 1 .. n - 1 : q[i] \in Blocks /\ Apart(q[i], a) /\ Apart(q[i], span)
  <2>1. \A i \in 1 .. n - 1 : stack[i] \in Blocks /\ Apart(stack[i], a)
    BY <1>1, <1>3, <1>6 DEF StackSound
  <2> QED BY <1>5, <1>6, <2>1
<1> HIDE DEF a, q
<1>8. /\ joined \in Blocks /\ Holds(joined, span)
      /\ \A p \in Positions : Covers(joined, p) <=> Covers(a, p) \/ Covers(span, p)
      /\ \A x \in Blocks : Apart(x, a) /\ Apart(x, span) => Apart(x, joined)
  BY <1>4, MergedBlock
<1> DEFINE r == Reduce(q, joined)
<1>9. /\ StackSound(r) /\ r # <<>> /\ Holds(r[Len(r)], joined)
      /\ \A p \in Positions : Covered(r, p) <=> Covered(q, p) \/ Covers(joined, p)
  <2>1. \A i \in 1 .. Len(q) : Apart(q[i], joined)
    BY <1>5, <1>7, <1>8
  <2> QED BY <1>5, <1>8, <2>1, ReduceSound
<1> HIDE DEF r
<1>10. Holds(r[Len(r)], span)
  <2> DEFINE top == r[Len(r)]
  <2>1. r \in Seq(Blocks) /\ Len(r) \in Nat
    BY <1>9 DEF StackSound
  <2>2. Len(r) # 0
    BY <1>9, <2>1
  <2>3. top \in Blocks
    BY <2>1, <2>2
  <2> HIDE DEF top
  <2>4. /\ top.start \in Int /\ top.end \in Int /\ joined.start \in Int /\ joined.end \in Int
        /\ span.start \in Int /\ span.end \in Int
    BY <1>8, <2>3, BlockNumbers
  <2>5. Holds(top, joined)
    BY <1>9 DEF top
  <2>6. Holds(top, span)
    BY <1>8, <2>4, <2>5 DEF Holds
  <2> QED BY <2>6 DEF top
<1>11. ASSUME NEW p \in Positions
       PROVE  Covered(r, p) <=> Covered(stack, p) \/ Covers(span, p)
  <2>1. Covered(q, p) <=> \E i \in 1 .. n - 1 : Covers(stack[i], p)
    BY <1>5 DEF Covered, CoveredFrom
  <2>2. \A i : i \in 1 .. n <=> i \in 1 .. n - 1 \/ i = n
    BY <1>1, <1>2
  <2>3. Covered(stack, p) <=> Covered(q, p) \/ Covers(a, p)
    BY <2>1, <2>2 DEF Covered, CoveredFrom, a
  <2> QED BY <1>8, <1>9, <2>3
<1> QED BY <1>9, <1>10, <1>11 DEF r, q

\* Blocks that have no word in common are apart.
LEMMA StackApart ==
  ASSUME NEW stack, StackSound(stack), NEW span \in Blocks,
         \A p \in Positions : ~(Covered(stack, p) /\ Covers(span, p))
  PROVE  \A i \in 1 .. Len(stack) : Apart(stack[i], span)
<1>1. TAKE i \in 1 .. Len(stack)
<1> DEFINE b == stack[i]
<1>2. b \in Blocks
  BY DEF StackSound
<1>3. \A p : Covers(b, p) => Covered(stack, p)
  BY DEF Covered, CoveredFrom
<1> HIDE DEF b
<1>4. /\ b.start \in Int /\ b.end \in Int /\ b.start <= b.end
      /\ span.start \in Int /\ span.end \in Int /\ span.start <= span.end
  BY <1>2, BlockNumbers
<1>5. b.start \in Positions /\ span.start \in Positions
  BY <1>2 DEF Blocks, Spans
<1>6. Apart(b, span)
  <2>1. SUFFICES ASSUME ~(b.end < span.start), ~(span.end < b.start) PROVE FALSE
    BY DEF Apart
  <2>2. CASE b.start <= span.start
    <3>1. Covers(b, span.start) /\ Covers(span, span.start)
      BY <1>4, <2>1, <2>2 DEF Covers
    <3> QED BY <1>3, <1>5, <3>1
  <2>3. CASE ~(b.start <= span.start)
    <3>1. Covers(b, b.start) /\ Covers(span, b.start)
      BY <1>4, <2>1, <2>3 DEF Covers
    <3> QED BY <1>3, <1>5, <3>1
  <2> QED BY <2>2, <2>3
<1> QED BY <1>6 DEF b

\* ShiftReduce keeps the stack sound: the span that it is given is on it, in the
\* block on top.
LEMMA ShiftReduceSound ==
  ASSUME NEW stack, StackSound(stack), NEW span \in Blocks,
         \A p \in Positions : ~(Covered(stack, p) /\ Covers(span, p))
  PROVE  LET r == ShiftReduce(stack, span)
         IN  /\ StackSound(r) /\ r # <<>> /\ Holds(r[Len(r)], span)
             /\ \A p \in Positions : Covered(r, p) <=> Covered(stack, p) \/ Covers(span, p)
<1>1. stack \in Seq(Blocks) /\ Len(stack) \in Nat
  BY DEF StackSound
<1>2. span.start \in Int /\ span.end \in Int /\ span.start <= span.end
  BY BlockNumbers
<1>3. Holds(span, span)
  BY <1>2 DEF Holds
<1>4. \A i \in 1 .. Len(stack) : Apart(stack[i], span)
  BY StackApart
<1>5. CASE stack = <<>>
  <2> DEFINE r == Append(stack, span)
  <2>1. ShiftReduce(stack, span) = <<span>>
    BY <1>5 DEF ShiftReduce
  <2>2. <<span>> = r
    BY <1>5
  <2>3. /\ StackSound(r) /\ r # <<>> /\ r[Len(r)] = span
        /\ \A p \in Positions : Covered(r, p) <=> Covered(stack, p) \/ Covers(span, p)
    BY <1>4, <1>5, PushSound
  <2> HIDE DEF r
  <2> QED BY <1>3, <2>1, <2>2, <2>3
<1>6. CASE stack # <<>>
  <2> DEFINE t == Last(stack)
             d == ReoDistance(stack, span)
  <2>1. t \in Blocks /\ Apart(t, span) /\ t = stack[Len(stack)]
    <3>1. Len(stack) # 0
      BY <1>1, <1>6
    <3>2. Len(stack) \in 1 .. Len(stack)
      BY <1>1, <3>1
    <3> QED BY <1>1, <1>4, <3>2 DEF Last
  <2>2. d = IF span.start > t.start THEN span.start - t.end ELSE span.end - t.start
    BY <1>6 DEF ReoDistance
  <2>3. ShiftReduce(stack, span) =
          IF d = 1 THEN Reduce(Front(stack), Joined(t, span))
          ELSE IF d = -1 THEN Reduce(Front(stack), Joined(span, t))
          ELSE Append(stack, span)
    <3> HIDE DEF d
    <3>1. CASE d = 1
      BY <1>6, <3>1 DEF ShiftReduce, d
    <3>2. CASE d = -1
      <4>1. d # 1
        BY <3>2
      <4> QED BY <1>6, <3>2, <4>1 DEF ShiftReduce, d
    <3>3. CASE d # 1 /\ d # -1
      BY <1>6, <3>3 DEF ShiftReduce, d
    <3> QED BY <3>1, <3>2, <3>3
  <2> HIDE DEF t, d
  <2>4. t.start \in Int /\ t.end \in Int /\ t.start <= t.end
    BY <2>1, BlockNumbers
  <2>5. CASE d = 1
    <3>1. span.start - t.end = 1
      BY <1>2, <2>1, <2>2, <2>4, <2>5 DEF Apart
    <3>2. NextTo(span, t) /\ Joined(t, span) = Merge(t, span)
      BY <3>1 DEF NextTo, Merge
    <3> QED BY <1>4, <1>6, <2>3, <2>5, <3>2, JoinSound DEF t
  <2>6. CASE d = -1
    <3>1. t.start - span.end = 1 /\ span.start - t.end # 1
      BY <1>2, <2>1, <2>2, <2>4, <2>6 DEF Apart
    <3>2. NextTo(span, t) /\ Joined(span, t) = Merge(t, span)
      BY <3>1 DEF NextTo, Merge
    <3>3. ShiftReduce(stack, span) = Reduce(Front(stack), Joined(span, t))
      BY <2>3, <2>6
    <3> DEFINE joined == Joined(span, t)
               r == Reduce(Front(stack), joined)
    <3>4. NextTo(span, Last(stack)) /\ joined = Merge(Last(stack), span)
      BY <3>2 DEF t
    <3> HIDE DEF joined
    <3>5. /\ StackSound(r) /\ r # <<>> /\ Holds(r[Len(r)], span)
          /\ \A p \in Positions : Covered(r, p) <=> Covered(stack, p) \/ Covers(span, p)
      BY <1>4, <1>6, <3>4, JoinSound
    <3>6. ShiftReduce(stack, span) = r
      BY <3>3 DEF joined
    <3> HIDE DEF r
    <3> QED BY <3>5, <3>6
  <2>7. CASE d # 1 /\ d # -1
    <3>1. ~NextTo(stack[Len(stack)], span)
      <4>1. span.start - t.end # 1 /\ t.start - span.end # 1
        <5>1. CASE span.start > t.start
          <6>1. span.start - t.end # 1
            BY <2>2, <2>7, <5>1
          <6> QED BY <1>2, <2>4, <5>1, <6>1
        <5>2. CASE ~(span.start > t.start)
          <6>1. span.end - t.start # -1
            BY <2>2, <2>7, <5>2
          <6> QED BY <1>2, <2>4, <5>2, <6>1
        <5> QED BY <5>1, <5>2
      <4> QED BY <2>1, <4>1 DEF NextTo
    <3> DEFINE r == Append(stack, span)
    <3>2. /\ StackSound(r) /\ r # <<>> /\ r[Len(r)] = span
          /\ \A p \in Positions : Covered(r, p) <=> Covered(stack, p) \/ Covers(span, p)
      BY <1>4, <3>1, PushSound
    <3>3. ShiftReduce(stack, span) = r
      BY <2>3, <2>7
    <3> HIDE DEF r
    <3> QED BY <1>3, <3>2, <3>3
  <2> QED BY <2>5, <2>6, <2>7
<1> QED BY <1>5, <1>6

\* What LexicalReordering::Evaluate keeps true of its states: the blocks are the
\* words that were covered, which the hypothesis has translated, and the previous
\* phrase is in the block on top.
BlocksInv ==
  /\ StackSound(reoStack)
  /\ reoCoverage \in SUBSET Positions
  /\ reoCoverage \subseteq sourceCompleted
  /\ \A p \in Positions : Covered(reoStack, p) <=> p \in reoCoverage
  /\ ~FirstPhrase =>
       currRange \in Blocks /\ Holds(reoStack[Len(reoStack)], currRange)

\* A phrase that comes next is a block of words that are not covered.
LEMMA NextPhrase ==
  ASSUME BlocksInv, NEW s \in Positions, NEW e \in s .. SourceSize - 1,
         CanExpand(constraint, sourceCompleted, currRange, s, e)
  PROVE  /\ Span(s, e) \in Blocks
         /\ \A p \in Positions : Covers(Span(s, e), p) <=> p \in s .. e
         /\ \A p \in Positions : ~(Covered(reoStack, p) /\ Covers(Span(s, e), p))
<1>1. s \in Int /\ e \in Int /\ s <= e /\ e \in Positions
  BY SourceSizeAssumption DEF Positions
<1>2. Span(s, e) \in Blocks
  BY <1>1 DEF Span, Blocks, Spans
<1>3. Positions \subseteq Int
  BY SourceSizeAssumption DEF Positions
<1>4. \A p \in Positions : Covers(Span(s, e), p) <=> p \in s .. e
  BY <1>1, <1>3 DEF Covers, Span
<1>5. ~Overlap(sourceCompleted, s, e)
  BY DEF CanExpand, Translatable
<1>6. \A p \in Positions : ~(Covered(reoStack, p) /\ Covers(Span(s, e), p))
  BY <1>4, <1>5 DEF BlocksInv, Overlap
<1> QED BY <1>2, <1>4, <1>6

\* The block on top is on one side of a phrase that comes next.
LEMMA TopApart ==
  ASSUME BlocksInv, ~FirstPhrase, NEW span \in Blocks,
         \A p \in Positions : ~(Covered(reoStack, p) /\ Covers(span, p))
  PROVE  Last(reoStack) \in Blocks /\ Apart(Last(reoStack), span)
<1>1. reoStack \in Seq(Blocks) /\ Len(reoStack) \in Nat
  BY DEF BlocksInv, StackSound
<1>2. Len(reoStack) # 0
  BY <1>1 DEF FirstPhrase
<1>3. Len(reoStack) \in 1 .. Len(reoStack)
  BY <1>1, <1>2
<1>4. Apart(reoStack[Len(reoStack)], span)
  BY <1>3, StackApart DEF BlocksInv
<1> QED BY <1>1, <1>3, <1>4 DEF Last

\* Whatever phrase comes next, the models agree on it.
LEMMA NextModelsAgree ==
  ASSUME BlocksInv, NEW s \in Positions, NEW e \in s .. SourceSize - 1,
         CanExpand(constraint, sourceCompleted, currRange, s, e)
  PROVE  ModelsAgree(IF FirstPhrase THEN EmptyRange ELSE currRange, Span(s, e))
<1> DEFINE span == Span(s, e)
           d == ReoDistance(reoStack, span)
           cov == reoCoverage \cup (span.start .. span.end)
<1>1. s \in Nat /\ e \in Nat /\ s <= e /\ span.start = s /\ span.end = e
  BY SourceSizeAssumption DEF Positions, Span
<1>2. span \in Blocks /\ \A p \in Positions : ~(Covered(reoStack, p) /\ Covers(span, p))
  BY NextPhrase
<1> HIDE DEF span
<1>3. CASE FirstPhrase
  <2>1. d = s + 1
    BY <1>1, <1>3 DEF ReoDistance, FirstPhrase
  <2>2. PhraseOrientation(EmptyRange, span) = IF s = 0 THEN "M" ELSE "DR"
    BY <1>1 DEF PhraseOrientation
  <2>3. BackwardOrientation(d) = IF s = 0 THEN "M" ELSE "DR"
    <3> HIDE DEF d
    <3>1. CASE s = 0
      <4>1. d = 1
        BY <2>1, <3>1
      <4> QED BY <3>1, <4>1 DEF BackwardOrientation
    <3>2. CASE s # 0
      <4>1. d # 1 /\ d # -1 /\ d > 1
        BY <1>1, <2>1, <3>2
      <4> QED BY <3>2, <4>1 DEF BackwardOrientation
    <3> QED BY <3>1, <3>2
  <2> HIDE DEF d
  <2>4. PhraseOrientation(EmptyRange, span) = BackwardOrientation(d)
    BY <2>2, <2>3
  <2> QED BY <1>3, <2>4 DEF ModelsAgree, d, span
<1>4. CASE ~FirstPhrase
  <2> DEFINE t == Last(reoStack)
             c == currRange
             byPhrase == PhraseOrientation(c, span)
             backward == BackwardOrientation(d)
             forward == ForwardOrientation(c, span, cov)
  <2>1. t \in Blocks /\ Apart(t, span)
    BY <1>2, <1>4, TopApart
  <2>2. c \in Blocks /\ Holds(t, c)
    BY <1>4 DEF BlocksInv, Last
  <2>3. d = IF s > t.start THEN s - t.end ELSE e - t.start
    BY <1>1, <1>4 DEF ReoDistance, FirstPhrase
  <2> HIDE DEF t
  <2>4. /\ t.start \in Int /\ t.end \in Int /\ t.start <= t.end
        /\ c.start \in Int /\ c.end \in Int /\ c.start <= c.end
        /\ t.start <= c.start /\ c.end <= t.end
    BY <2>1, <2>2, BlockNumbers DEF Holds
  <2>5. c # EmptyRange
    <3>1. c.start \in Positions
      BY <2>2 DEF Blocks, Spans
    <3>2. c.start < NotFound /\ EmptyRange.start = NotFound
      BY <3>1, NotFoundBeyond DEF EmptyRange, Span
    <3> QED BY <2>4, <3>2, NotFoundBeyond
  <2>6. t.end < s \/ e < t.start
    BY <1>1, <2>1 DEF Apart
  \* The phrase comes after the block, and after the previous phrase.
  <2>7. CASE t.end < s
    <3>1. c.end < s /\ ~(e < c.start) /\ c.start # e + 1
      BY <1>1, <2>4, <2>7
    <3>2. d = s - t.end /\ d \in Int /\ d > 0
      <4>1. s > t.start
        BY <1>1, <2>4, <2>7
      <4>2. d = s - t.end
        BY <2>3, <4>1
      <4> HIDE DEF d
      <4> QED BY <1>1, <2>4, <2>7, <4>2
    <3>3. byPhrase = IF c.end = s - 1 THEN "M" ELSE "DR"
      <4>1. CASE c.end = s - 1
        BY <1>1, <2>5, <3>1, <4>1 DEF PhraseOrientation
      <4>2. CASE c.end # s - 1
        BY <1>1, <2>5, <3>1, <4>2 DEF PhraseOrientation
      <4> QED BY <4>1, <4>2
    <3>4. backward \in {"M", "DR"} /\ (c.end = s - 1 => backward = "M")
      <4> HIDE DEF d
      <4>1. CASE d = 1
        BY <4>1 DEF BackwardOrientation
      <4>2. CASE d # 1
        <5>1. d # -1 /\ d > 1
          BY <3>2, <4>2
        <5>2. c.end # s - 1
          BY <1>1, <2>4, <2>7, <3>2, <4>2
        <5> QED BY <4>2, <5>1, <5>2 DEF BackwardOrientation
      <4> QED BY <4>1, <4>2
    <3>5. forward \in {"M", "DR"} /\ (c.end = s - 1 => forward = "M")
      <4> HIDE DEF cov
      <4>0. s > c.end /\ (c.end = s - 1 => s = c.end + 1)
        BY <1>1, <2>4, <3>1
      <4>1. CASE c.end + 1 \notin cov \/ s = c.end + 1
        <5>1. forward = "M"
          BY <1>1, <3>1, <4>0, <4>1 DEF ForwardOrientation
        <5> QED BY <5>1
      <4>2. CASE ~(c.end + 1 \notin cov \/ s = c.end + 1)
        <5>1. forward = "DR"
          BY <1>1, <3>1, <4>0, <4>2 DEF ForwardOrientation
        <5> QED BY <4>0, <4>2, <5>1
      <4> QED BY <4>1, <4>2
    <3>6. /\ byPhrase \in {"M", "S"} => backward = byPhrase /\ forward = byPhrase
          /\ byPhrase \notin Left /\ backward \notin Left /\ forward \notin Left
      <4> HIDE DEF byPhrase, backward, forward
      <4> QED BY <3>3, <3>4, <3>5 DEF Left
    <3>7. ModelsAgree(c, span)
      BY <3>6 DEF ModelsAgree
    <3> QED BY <1>4, <3>7 DEF span
  \* The phrase comes before the block, and before the previous phrase.
  <2>8. CASE e < t.start
    <3>1. e < c.start /\ ~(s > c.end) /\ ~(c.end < s) /\ c.end # s - 1
      BY <1>1, <2>4, <2>8
    <3>2. d = e - t.start /\ d \in Int /\ d < 0
      <4>1. ~(s > t.start)
        BY <1>1, <2>4, <2>8
      <4>2. d = e - t.start
        BY <2>3, <4>1
      <4> HIDE DEF d
      <4> QED BY <1>1, <2>4, <2>8, <4>2
    <3>3. byPhrase = IF c.start = e + 1 THEN "S" ELSE "DL"
      <4>1. CASE c.start = e + 1
        BY <1>1, <2>5, <3>1, <4>1 DEF PhraseOrientation
      <4>2. CASE c.start # e + 1
        BY <1>1, <2>5, <3>1, <4>2 DEF PhraseOrientation
      <4> QED BY <4>1, <4>2
    <3>4. backward \in {"S", "DL"} /\ (c.start = e + 1 => backward = "S")
      <4> HIDE DEF d
      <4>1. CASE d = -1
        <5>1. d # 1
          BY <4>1
        <5> QED BY <4>1, <5>1 DEF BackwardOrientation
      <4>2. CASE d # -1
        <5>1. d # 1 /\ ~(d > 1)
          BY <3>2
        <5>2. c.start # e + 1
          BY <1>1, <2>4, <2>8, <3>2, <4>2
        <5> QED BY <4>2, <5>1, <5>2 DEF BackwardOrientation
      <4> QED BY <4>1, <4>2
    <3>5. forward \in {"S", "DL"} /\ (c.start = e + 1 => forward = "S")
      <4> HIDE DEF cov
      <4>0. c.start = e + 1 => e = c.start - 1
        BY <1>1, <2>4
      <4>1. CASE c.start - 1 \notin cov \/ e = c.start - 1
        <5>1. forward = "S"
          BY <1>1, <3>1, <4>1 DEF ForwardOrientation
        <5> QED BY <5>1
      <4>2. CASE ~(c.start - 1 \notin cov \/ e = c.start - 1)
        <5>1. forward = "DL"
          BY <1>1, <3>1, <4>2 DEF ForwardOrientation
        <5> QED BY <4>0, <4>2, <5>1
      <4> QED BY <4>1, <4>2
    <3>6. /\ byPhrase \in {"M", "S"} => backward = byPhrase /\ forward = byPhrase
          /\ byPhrase \in Left /\ backward \in Left /\ forward \in Left
      <4> HIDE DEF byPhrase, backward, forward
      <4> QED BY <3>3, <3>4, <3>5 DEF Left
    <3>7. ModelsAgree(c, span)
      BY <3>6 DEF ModelsAgree
    <3> QED BY <1>4, <3>7 DEF span
  <2> QED BY <2>6, <2>7, <2>8
<1> QED BY <1>3, <1>4

\* Every step keeps the blocks sound.
LEMMA BlocksNext ==
  ASSUME BlocksInv, [ReorderingNext]_reorderingVars
  PROVE  BlocksInv'
<1>1. CASE UNCHANGED reorderingVars
  BY <1>1 DEF reorderingVars, BlocksInv, FirstPhrase
<1>2. ASSUME NEW s \in Positions, NEW e \in s .. SourceSize - 1, ExpandReordering(s, e)
      PROVE  BlocksInv'
  <2> DEFINE span == Span(s, e)
             r == ShiftReduce(reoStack, span)
  <2>1. /\ CanExpand(constraint, sourceCompleted, currRange, s, e)
        /\ sourceCompleted' = sourceCompleted \cup (s .. e)
        /\ currRange' = span
        /\ reoStack' = r
        /\ reoCoverage' = reoCoverage \cup (s .. e)
    BY <1>2 DEF ExpandReordering, Expand
  <2>2. /\ span \in Blocks
        /\ \A p \in Positions : Covers(span, p) <=> p \in s .. e
        /\ \A p \in Positions : ~(Covered(reoStack, p) /\ Covers(span, p))
    BY <2>1, NextPhrase
  <2>3. s .. e \subseteq Positions
    BY SourceSizeAssumption DEF Positions
  <2> HIDE DEF span
  <2>4. /\ StackSound(r) /\ r # <<>> /\ Holds(r[Len(r)], span)
        /\ \A p \in Positions : Covered(r, p) <=> Covered(reoStack, p) \/ Covers(span, p)
    BY <2>2, ShiftReduceSound DEF BlocksInv
  <2> HIDE DEF r
  <2>5. /\ reoCoverage' \in SUBSET Positions
        /\ reoCoverage' \subseteq sourceCompleted'
    BY <2>1, <2>3 DEF BlocksInv
  <2>6. ASSUME NEW p \in Positions
        PROVE  Covered(reoStack', p) <=> p \in reoCoverage'
    BY <2>1, <2>2, <2>4 DEF BlocksInv
  <2>7. currRange' \in Blocks /\ Holds(reoStack'[Len(reoStack')], currRange')
    BY <2>1, <2>2, <2>4
  <2>8. StackSound(reoStack')
    BY <2>1, <2>4
  <2> QED BY <2>5, <2>6, <2>7, <2>8 DEF BlocksInv
<1> QED BY <1>1, <1>2 DEF ReorderingNext

\* What BlocksInv says of the states is what OrientationsAgree asks of them.
LEMMA BlocksAgree ==
  ASSUME BlocksInv PROVE OrientationsAgree
<1>1. reoStack \in Seq(Blocks) /\ Len(reoStack) \in Nat /\ DOMAIN reoStack = 1 .. Len(reoStack)
  BY DEF BlocksInv, StackSound
<1>2. ASSUME NEW i \in DOMAIN reoStack, NEW p
      PROVE  p \in reoStack[i].start .. reoStack[i].end <=>
               p \in Positions /\ Covers(reoStack[i], p)
  <2> DEFINE b == reoStack[i]
  <2>1. b \in Blocks
    BY <1>1
  <2> HIDE DEF b
  <2>2. b.start \in 0 .. SourceSize - 1 /\ b.end \in 0 .. SourceSize - 1
    BY <2>1 DEF Blocks, Spans, Positions
  <2>3. p \in b.start .. b.end <=> p \in Positions /\ Covers(b, p)
    BY <2>2, SourceSizeAssumption DEF Positions, Covers
  <2> QED BY <2>3 DEF b
<1>3. UNION {reoStack[i].start .. reoStack[i].end : i \in DOMAIN reoStack} = reoCoverage
  <2>1. ASSUME NEW p
        PROVE  p \in UNION {reoStack[i].start .. reoStack[i].end : i \in DOMAIN reoStack} <=>
                 p \in Positions /\ Covered(reoStack, p)
    <3>1. p \in UNION {reoStack[i].start .. reoStack[i].end : i \in DOMAIN reoStack} <=>
            \E i \in DOMAIN reoStack : p \in reoStack[i].start .. reoStack[i].end
      OBVIOUS
    <3>2. Covered(reoStack, p) <=> \E i \in DOMAIN reoStack : Covers(reoStack[i], p)
      BY <1>1 DEF Covered, CoveredFrom
    <3> QED BY <1>2, <3>1, <3>2
  <2> QED BY <2>1 DEF BlocksInv
<1>4. ASSUME NEW i \in DOMAIN reoStack, NEW j \in DOMAIN reoStack, i # j
      PROVE  Outside(reoStack[i].start, reoStack[i].end, reoStack[j])
  <2>1. Apart(reoStack[i], reoStack[j])
    BY <1>1, <1>4 DEF BlocksInv, StackSound
  <2>2. /\ reoStack[i].start \in Int /\ reoStack[i].end \in Int
        /\ reoStack[j].start \in Int /\ reoStack[j].end \in Int
    BY <1>1, BlockNumbers
  <2> QED BY <2>1, <2>2 DEF Apart, Outside
<1>5. \A i \in 2 .. Len(reoStack) : ~NextTo(reoStack[i], reoStack[i - 1])
  BY DEF BlocksInv, StackSound
<1>6. ASSUME NEW s \in Positions, NEW e \in s .. SourceSize - 1,
             CanExpand(constraint, sourceCompleted, currRange, s, e)
      PROVE  ModelsAgree(IF FirstPhrase THEN EmptyRange ELSE currRange, Span(s, e))
  BY <1>6, NextModelsAgree
<1> QED BY <1>3, <1>4, <1>5, <1>6 DEF OrientationsAgree

\* In every derivation, over any sentence and under any constraints, the three
\* models of GetOrientationTypeMSLR agree on whatever phrase comes next, and the
\* blocks of ReorderingStack are disjoint, maximal and the translated words.
THEOREM ReorderingModelsAgree == ReorderingSpec => []OrientationsAgree
<1>1. ReorderingInit => BlocksInv
  <2> SUFFICES ASSUME ReorderingInit PROVE BlocksInv
    OBVIOUS
  <2>1. reoStack = <<>> /\ reoCoverage = {}
    BY DEF ReorderingInit
  <2>2. reoStack \in Seq(Blocks) /\ Len(reoStack) = 0
    BY <2>1
  <2>3. 1 .. Len(reoStack) = {} /\ 2 .. Len(reoStack) = {}
    BY <2>2
  <2>4. StackSound(reoStack)
    BY <2>2, <2>3 DEF StackSound
  <2>5. \A p \in Positions : ~Covered(reoStack, p)
    BY <2>3 DEF Covered, CoveredFrom
  <2> QED BY <2>1, <2>4, <2>5 DEF BlocksInv, FirstPhrase
<1>2. BlocksInv /\ [ReorderingNext]_reorderingVars => BlocksInv'
  BY BlocksNext
<1>3. BlocksInv => OrientationsAgree
  BY BlocksAgree
<1> QED BY <1>1, <1>2, <1>3, PTL DEF ReorderingSpec
=============================================================================
