---------------------------- MODULE MCCubePruning ----------------------------
(* Instances of SearchCubePruning for TLC. *)
EXTENDS SearchCubePruning, MCSentences

Setting(maxSize, beam, nBest, distinct) ==
  [maxSize |-> maxSize, beam |-> beam, diversity |-> 0, nBest |-> nBest,
   nBestSize |-> 1, distinct |-> distinct]

\* Small stacks and a narrow beam, with and without n-best lists; stacks that
\* never prune.
MCSettings == {Setting(1, -3, FALSE, FALSE), Setting(2, -3, TRUE, FALSE),
               Setting(200, NegInf, TRUE, TRUE)}

MCCubeSettings == {[popLimit |-> 1, diversity |-> 0], [popLimit |-> 2, diversity |-> 1],
                   [popLimit |-> 500, diversity |-> 0]}
=============================================================================
