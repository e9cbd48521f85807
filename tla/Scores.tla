------------------------------- MODULE Scores -------------------------------
(***************************************************************************)
(* Scores: logarithms of probabilities, integers here, and minus infinity. *)
(***************************************************************************)
EXTENDS Integers

CONSTANT NegInf   \* -numeric_limits<float>::infinity()

ASSUME NegInfAssumption == NegInf \in Int /\ NegInf < 0

\* Addition of floats: -infinity absorbs.
Plus(a, b) == IF a = NegInf \/ b = NegInf THEN NegInf ELSE a + b
=============================================================================
