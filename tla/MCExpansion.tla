----------------------------- MODULE MCExpansion -----------------------------
(* Instances of CoverageIDs and LexicalReordering for TLC. *)
EXTENDS CoverageIDs, LexicalReordering, MCHypothesisExpansion
=============================================================================
