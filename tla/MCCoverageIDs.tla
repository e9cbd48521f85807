---------------------------- MODULE MCCoverageIDs ----------------------------
(* Instances of CoverageIDs for TLC. *)
EXTENDS CoverageIDs, MCHypothesisExpansion
=============================================================================
