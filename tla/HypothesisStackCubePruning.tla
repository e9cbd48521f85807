---------------------- MODULE HypothesisStackCubePruning ----------------------
(***************************************************************************)
(* HypothesisStackCubePruning: a stack of the cube pruning search.  It is  *)
(* the record of module HypothesisStack (without diversity) and shares     *)
(* recombination and arc lists with it; its pruning is by a threshold.     *)
(*                                                                         *)
(* The operations return sets of outcomes, here always of one; that of     *)
(* AddPruneCube says with "inserted" what the method returns.              *)
(***************************************************************************)
EXTENDS HypothesisStack, Sequences

\* PruneToSize pops from a heap of the scores within the beam until the one of
\* the last hypothesis that may stay is on top.
Thresholds(stack, newSize) ==
  {LeastScore(T) : T \in TopSets({h \in stack.hypos : h.total > stack.best + stack.settings.beam},
                                 newSize)}

\* PruneToSize: everything below the threshold goes, so that there may be more
\* than newSize left.
PruneCubeToSize(stack, arcs, newSize) ==
  IF Cardinality(stack.hypos) <= newSize THEN {Outcome(stack, arcs, {})}
  ELSE {Freeing([stack EXCEPT !.hypos = {h \in @ : h.total >= threshold}, !.worst = threshold],
                arcs, stack.hypos) : threshold \in Thresholds(stack, newSize)}

\* The stack after an insertion, before pruning.
Inserted(stack, h) ==
  [stack EXCEPT !.hypos = @ \cup {h},
                !.best  = IF h.total > @ THEN h.total ELSE @,
                !.worst = IF h.total > stack.best THEN RaisedWorst(stack, h.total) ELSE @]

\* Add, for a hypothesis without an equivalent one on the stack.
AddCube(stack, arcs, h) ==
  UNION {IF Cardinality(added.hypos) > 2 * stack.settings.maxSize - 1
         THEN PruneCubeToSize(added, arcs, stack.settings.maxSize)
         ELSE {Outcome(added, arcs, {})} : added \in {Inserted(stack, h)}}

\* AddPrune, when g is equivalent to h and on the stack: the better one stays.
RecombineCube(stack, arcs, h, g) ==
  IF Beats(h, g)
  THEN UNION {IF stack.settings.nBest
              THEN AddCube(without, AddArc(arcs, h, g), h)
              ELSE {[o EXCEPT !.freed = @ \cup {g}] : o \in AddCube(without, arcs, h)} :
              without \in {[stack EXCEPT !.hypos = @ \ {g}]}}
  ELSE IF stack.settings.nBest
       THEN {Outcome(stack, AddArc(arcs, g, h), {})}
       ELSE {Outcome(stack, arcs, {h})}

Returning(outcomes, inserted) ==
  {[stack |-> o.stack, arcs |-> o.arcs, freed |-> o.freed, inserted |-> inserted] : o \in outcomes}

\* AddPrune's first test; no exception for diversity or -disable-discarding here.
TooBadForCube(stack, h) == h.total < stack.worst

\* AddPrune; TRUE is returned for a new entry only.
AddPruneCube(stack, arcs, h) ==
  LET equivalent == {g \in stack.hypos : Equivalent(g, h)}
  IN  IF TooBadForCube(stack, h) THEN Returning({Outcome(stack, arcs, {h})}, FALSE)
      ELSE IF equivalent = {} THEN Returning(AddCube(stack, arcs, h), TRUE)
      ELSE UNION {Returning(RecombineCube(stack, arcs, h, g), FALSE) : g \in equivalent}
=============================================================================
