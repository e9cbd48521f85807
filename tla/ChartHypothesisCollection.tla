---------------------- MODULE ChartHypothesisCollection ----------------------
(***************************************************************************)
(* ChartHypothesisCollection: the hypotheses of one span and label in      *)
(* chart decoding.  It is the record of module HypothesisStack (its worst  *)
(* is not used), with settings of its own for pruning; the operations      *)
(* return sets of outcomes as there.  Of a hypothesis, cov is the span and *)
(* state what RecombineCompare looks at.                                   *)
(***************************************************************************)
EXTENDS HypothesisStackCubePruning

\* PruneToSize: "desperation pruning" when ties left too many.
Desperate(coll) == Cardinality(coll.hypos) > 2 * coll.settings.maxSize

\* PruneToSize, after the pruning by a threshold that PruneCubeToSize does too.
PruneChartToSize(coll, arcs) ==
  UNION {IF ~Desperate(o.stack) THEN {o}
         ELSE {[f EXCEPT !.freed = @ \cup o.freed] :
                 f \in {Freeing([o.stack EXCEPT !.hypos = best], o.arcs, o.stack.hypos) :
                          best \in TopSets(o.stack.hypos, 2 * coll.settings.maxSize)}} :
         o \in PruneCubeToSize(coll, arcs, coll.settings.maxSize)}

\* Add, for a hypothesis without an equivalent one in the collection.
AddChart(coll, arcs, h) ==
  UNION {IF Cardinality(added.hypos) > 2 * coll.settings.maxSize - 1
         THEN PruneChartToSize(added, arcs)
         ELSE {Outcome(added, arcs, {})} : added \in {Inserted(coll, h)}}

\* AddHypothesis's first test, "really bad score".
TooBadForChart(coll, h) == h.total < coll.best + coll.settings.beam

\* AddHypothesis, when g is equivalent to h and in the collection: "keep the best 1".
RecombineChart(coll, arcs, h, g) ==
  IF ~Beats(h, g)
  THEN {IF coll.settings.nBest THEN Outcome(coll, AddArc(arcs, g, h), {})
                               ELSE Outcome(coll, arcs, {h})}
  ELSE UNION {IF coll.settings.nBest
              THEN AddChart(without, AddArc(arcs, h, g), h)
              ELSE {[o EXCEPT !.freed = @ \cup {g}] : o \in AddChart(without, arcs, h)} :
              without \in {[coll EXCEPT !.hypos = @ \ {g}]}}

AddHypothesis(coll, arcs, h) ==
  LET equivalent == {g \in coll.hypos : Equivalent(g, h)}
  IN  IF TooBadForChart(coll, h) THEN {Outcome(coll, arcs, {h})}
      ELSE IF equivalent = {} THEN AddChart(coll, arcs, h)
      ELSE UNION {RecombineChart(coll, arcs, h, g) : g \in equivalent}

\* SortHypotheses: the members of H, best first, in every way to break ties.
SortedHypotheses(H) ==
  LET orders[G \in SUBSET H] ==
        IF G = {} THEN {<<>>}
        ELSE UNION {{<<h>> \o rest : rest \in orders[G \ {h}]} :
                    h \in {h \in G : \A g \in G : h.total >= g.total}}
  IN  orders[H]
=============================================================================
