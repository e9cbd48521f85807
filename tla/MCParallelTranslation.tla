------------------------ MODULE MCParallelTranslation ------------------------
(* Instances of ParallelTranslation for TLC. *)
EXTENDS ParallelTranslation

MCCollectors == <<"alignment", "output">>
MCOneBest == <<"output">>
=============================================================================
