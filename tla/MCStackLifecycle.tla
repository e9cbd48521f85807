-------------------------- MODULE MCStackLifecycle --------------------------
(* Instances of StackLifecycle for TLC. *)
EXTENDS StackLifecycle

MCNegInf == -99
MCTotals == {-3, -1, 0}

Setting(maxSize, diversity, nBest) ==
  [maxSize |-> maxSize, beam |-> -2, diversity |-> diversity, nBest |-> nBest,
   nBestSize |-> 1, distinct |-> FALSE]

\* Room for two without n-best lists, and for one and another of each coverage
\* with them.
MCSettings == {Setting(2, 0, FALSE), Setting(1, 1, TRUE)}
=============================================================================
