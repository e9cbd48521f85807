------------------------------ MODULE MCSearch ------------------------------
(* Instances of NBestList, and with it of SearchNormal, for TLC. *)
EXTENDS NBestList, MCSentences

Setting(maxSize, beam, nBestSize, distinct) ==
  [maxSize |-> maxSize, beam |-> beam, diversity |-> 0, nBest |-> TRUE,
   nBestSize |-> nBestSize, distinct |-> distinct]

\* Small stacks and a narrow beam; stacks that never prune, with short and with
\* distinct n-best lists.
MCSettings == {Setting(1, -3, 1, FALSE), Setting(2, -3, 1, FALSE),
               Setting(200, NegInf, 5, FALSE), Setting(200, NegInf, 3, TRUE)}
=============================================================================
