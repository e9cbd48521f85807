------------------------- MODULE HypothesisExpansion -------------------------
(***************************************************************************)
(* The reordering behaviour of the phrase-based decoder, for one           *)
(* hypothesis at a time: from the seed hypothesis, which spans of the      *)
(* source SearchNormal::ProcessOneHypothesis lets a hypothesis translate   *)
(* next.  A behaviour is one derivation, a chain of hypotheses; the        *)
(* decoder's search graph is the set of all of them (module SearchNormal   *)
(* adds scores, stacks and pruning).                                       *)
(***************************************************************************)
EXTENDS ExpansionRules

CONSTANTS SourceCompleted,  \* coverages the seed hypothesis may start from
          Constraints       \* reordering constraints the sentence may carry

\* A sentence that carries a wall or a zone has active constraints (SetWall and
\* SetZone set m_active).  A zone of the markup may reach beyond the sentence.
ASSUME ConstraintsAssumption ==
  \A c \in Constraints :
    /\ c.active \in BOOLEAN
    /\ c.wall \subseteq Positions
    /\ c.zones \in Seq([start : Nat, end : Nat])
    /\ c.localWall \in [Positions -> 0 .. Len(c.zones)]
    /\ c.wall # {} \/ c.zones # <<>> => c.active

ASSUME SeedAssumption == SourceCompleted \subseteq SUBSET Positions

VARIABLES sourceCompleted,  \* m_sourceCompleted of the hypothesis
          currRange,        \* m_currSourceWordsRange
          constraint        \* the sentence's m_reorderingConstraint

vars == <<sourceCompleted, currRange, constraint>>

Init ==
  /\ constraint \in Constraints
  /\ sourceCompleted \in SourceCompleted
  /\ currRange = SeedRange(sourceCompleted)

\* ExpandAllHypotheses for one option over s..e: the new hypothesis.
Expand(s, e) ==
  /\ CanExpand(constraint, sourceCompleted, currRange, s, e)
  /\ sourceCompleted' = sourceCompleted \cup (s .. e)
  /\ currRange' = Span(s, e)
  /\ UNCHANGED constraint

Next == \E s \in Positions : \E e \in s .. SourceSize - 1 : Expand(s, e)

Spec == Init /\ [][Next]_vars

-----------------------------------------------------------------------------
(* Properties *)

\* The values of a hypothesis; a seed that covers nothing has no range.
TypeOK ==
  /\ sourceCompleted \in SUBSET Positions
  /\ currRange \in [start : Positions, end : Nat] \cup {EmptyRange}
  /\ constraint.wall \subseteq Positions

\* ProcessOneHypothesis: no hypothesis is a dead end.  As long as a word of
\* the sentence is untranslated, some span can be translated next; otherwise
\* its extensions would be searched for nothing and, if all hypotheses of a
\* stack are dead ends, the sentence would get no translation at all.
NoDeadEnd ==
  sourceCompleted # Positions =>
    \E s \in Positions : \E e \in s .. SourceSize - 1 :
      CanExpand(constraint, sourceCompleted, currRange, s, e)

\* ProcessOneHypothesis' comment "will always be the value of the hypothesis
\* starting at the left-most edge": the jump back to the first gap never
\* exceeds the distortion limit, so the first gap can always be filled next.
FirstGapInReach ==
  MaxDistortion >= 0 /\ sourceCompleted # Positions =>
    DistortionDistance(currRange, Span(FirstGapPos(sourceCompleted),
                                       FirstGapPos(sourceCompleted)))
      <= MaxDistortion

\* The window of WordsBitmap::GetID: the translated words beyond the first gap
\* stay within the distortion limit of it.
WindowWithinLimit ==
  MaxDistortion >= 0 =>
    \A p \in sourceCompleted :
      p > FirstGapPos(sourceCompleted) =>
        p - FirstGapPos(sourceCompleted) + 1 <= MaxDistortion

\* A wall (ReorderingConstraint::SetWall): no word behind it is translated
\* while a word before it is not.
WallsHold ==
  \A w \in constraint.wall :
    (\E p \in sourceCompleted : p > w) => 0 .. w \subseteq sourceCompleted

\* Zones as opening and closing tags nest them.
Nested(a, b) ==
  \/ Outside(a.start, a.end, b)
  \/ a.start <= b.start /\ b.end <= a.end
  \/ b.start <= a.start /\ a.end <= b.end

Zones == {constraint.zones[z] : z \in 1 .. Len(constraint.zones)}

\* A local wall holds among the words of the innermost zone around it.
InnermostZone(w) ==
  LET around == {z \in Zones : z.start <= w /\ w < z.end}
  IN  CHOOSE z \in around : \A y \in around : y.start <= z.start /\ z.end <= y.end

LocalWallsHold ==
  \A w \in Positions :
    constraint.localWall[w] # NotAZone =>
      LET zone == InnermostZone(w)
      IN  (\E p \in sourceCompleted : w < p /\ p <= zone.end)
            => zone.start .. w \subseteq sourceCompleted

\* "once entered, need to finish" (ReorderingConstraint::SetZone): while a zone
\* is begun and not finished, every phrase translates at least one of its words,
\* and a phrase that reaches beyond the end of the zone finishes it.
Begun(zone) ==
  /\ (zone.start .. zone.end) \cap sourceCompleted # {}
  /\ ~ (zone.start .. zone.end \subseteq sourceCompleted)

ZonesFinishOnceEntered ==
  [][\A zone \in Zones :
       Begun(zone) =>
         /\ ~Outside(currRange'.start, currRange'.end, zone)
         /\ currRange'.end > zone.end =>
              zone.start .. zone.end \subseteq sourceCompleted']_vars
=============================================================================
