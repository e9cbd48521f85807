--------------------------- MODULE StackLifecycle ---------------------------
(***************************************************************************)
(* The life of one stack of the search: while shorter hypotheses are being *)
(* expanded, hypotheses of any score, coverage and state arrive            *)
(* (SearchNormal::ExpandHypothesis calls AddPrune); then the stack's own   *)
(* turn comes (ProcessSentence calls PruneToSize and CleanupArcList) and   *)
(* nothing arrives any more.                                               *)
(***************************************************************************)
EXTENDS HypothesisStack, Naturals

CONSTANTS MaxArrivals,  \* bound: hypotheses that arrive at the stack
          States,       \* values of the feature states
          Totals        \* scores

\* Scores are not below minus infinity.
ASSUME ArrivalsAssumption ==
  /\ MaxArrivals \in Nat
  /\ Totals \subseteq {t \in Int : t >= NegInf}

\* What the tolerated size is made for: no more coverages of a length are within
\* the distortion limit than it has room for (and shifting gives a number).
ASSUME DiversityAssumption ==
  /\ IsFiniteSet(Coverages)
  /\ 2 ^ StackDistortion \in Nat
  /\ \A settings \in Settings :
       settings.diversity * Cardinality(Coverages) <= ToleratedSize(settings)

VARIABLES stack, arcs,
          freed,        \* deleted hypotheses
          arrived,      \* the hypotheses that arrived, a history variable
          closed        \* the stack has had its turn

vars == <<stack, arcs, freed, arrived, closed>>

Init ==
  /\ \E settings \in Settings : stack = EmptyStack(settings)
  /\ arcs = [i \in 1 .. MaxArrivals |-> {}]
  /\ freed = {} /\ arrived = {}
  /\ closed = FALSE

Becomes(o) ==
  /\ stack' = o.stack
  /\ arcs' = o.arcs
  /\ freed' = freed \cup o.freed

\* AddPrune of a new hypothesis.
Arrive(c, s, total) ==
  LET h == [id |-> Cardinality(arrived) + 1, cov |-> c, state |-> s, total |-> total]
  IN  /\ ~closed
      /\ h.id <= MaxArrivals
      /\ \E o \in AddPrune(stack, arcs, h) : Becomes(o)
      /\ arrived' = arrived \cup {h}
      /\ UNCHANGED closed

\* The turn of the stack in ProcessSentence.
Turn ==
  /\ ~closed
  /\ closed' = TRUE
  /\ \E p \in PruneToSize(stack, arcs, stack.settings.maxSize) :
       \E q \in CleanupArcList(p.stack, p.arcs) :
         Becomes([q EXCEPT !.freed = @ \cup p.freed])
  /\ UNCHANGED arrived

Next ==
  \/ \E c \in Coverages, s \in States, total \in Totals : Arrive(c, s, total)
  \/ Turn

Spec == Init /\ [][Next]_vars

-----------------------------------------------------------------------------
(* Properties *)

MaxStackSize == stack.settings.maxSize
BeamWidth    == stack.settings.beam
MinDiversity == stack.settings.diversity

OnArcs == UNION {arcs[h.id] : h \in stack.hypos}

\* Ownership (AddArc, Remove, Detach, ~Hypothesis): a hypothesis is on the
\* stack, or in the arc list of one hypothesis on the stack, or deleted; never
\* in two of these places (it would be deleted twice) and never in none (it
\* would leak).  The arcs of a hypothesis on the stack are equivalent to it and
\* not better, and no two hypotheses on the stack are equivalent (Add).
OwnedOnce ==
  /\ arrived = stack.hypos \cup OnArcs \cup freed
  /\ stack.hypos \cap OnArcs = {} /\ (stack.hypos \cup OnArcs) \cap freed = {}
  /\ \A g, h \in stack.hypos : g # h => arcs[g.id] \cap arcs[h.id] = {}
  /\ \A h \in arrived \ stack.hypos : arcs[h.id] = {}
  /\ \A h \in stack.hypos : \A a \in arcs[h.id] : Equivalent(a, h) /\ a.total <= h.total
  /\ \A g, h \in stack.hypos : g # h => ~Equivalent(g, h)

\* GetBestHypothesis after any pruning and recombination: the best hypothesis
\* that ever arrived, or one just as good, is on the stack.
BestNeverLost ==
  arrived # {} =>
    \E h \in stack.hypos :
      /\ h.total = stack.best
      /\ \A g \in arrived : g.total <= h.total

\* Lazy pruning (Add's toleratedSize) and the final PruneToSize bound the size:
\* more than MaxStackSize hypotheses are left only for diversity.
SizeBounded ==
  /\ Cardinality(stack.hypos) <= ToleratedSize(stack.settings)
  /\ closed =>
       \/ Cardinality(stack.hypos) <= MaxStackSize
       \/ \A h \in stack.hypos : Cardinality({g \in stack.hypos : g.cov = h.cov}) <= MinDiversity

\* Less than MinDiversity hypotheses of its coverage are better.
KeptForDiversity(g) ==
  Cardinality({x \in stack.hypos : x.cov = g.cov /\ x.total > g.total}) < MinDiversity

\* A hypothesis that is not recombined is given up only when it is beyond the
\* beam or MaxStackSize others are on the stack that are at least as good or are
\* there for the diversity of their coverage.
LostToRecombination(h) == \E g \in arrived' : g # h /\ Equivalent(g, h) /\ g.total >= h.total

GivenUpForGoodReason ==
  [][\A h \in freed' \ freed :
       \/ LostToRecombination(h)
       \/ h.total <= stack'.best + BeamWidth
       \/ Cardinality({g \in stack'.hypos : g.total >= h.total \/ KeptForDiversity(g)'})
            >= MaxStackSize]_vars

\* -stack-diversity: MinDiversity hypotheses of a coverage that are at least as
\* good are on the stack whenever one of that coverage is given up.
DiversityRespected ==
  [][\A h \in freed' \ freed :
       \/ LostToRecombination(h)
       \/ Cardinality({g \in stack'.hypos : g.cov = h.cov /\ g.total >= h.total})
            >= MinDiversity]_vars
=============================================================================
