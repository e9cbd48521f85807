------------------------------ MODULE Coverage ------------------------------
(***************************************************************************)
(* Source positions, spans and coverage bitmaps: WordsRange, WordsBitmap   *)
(* and InputType::ComputeDistortionDistance.                               *)
(*                                                                         *)
(* A WordsBitmap (an array of bool) is the set of the positions whose flag *)
(* is true; a WordsRange is the record [start |-> s, end |-> e] with both  *)
(* ends inclusive.  NOT_FOUND, the largest size_t of the code, is the      *)
(* constant NotFound, larger than every position.                          *)
(***************************************************************************)
EXTENDS Integers, FiniteSets

CONSTANTS SourceSize,   \* number of words of the input sentence
          NotFound      \* NOT_FOUND

ASSUME SourceSizeAssumption == SourceSize \in Nat \ {0}
ASSUME NotFoundAssumption   == NotFound \in Nat /\ NotFound > SourceSize

Positions == 0 .. SourceSize - 1

\* WordsRange.  The seed hypothesis has the range NOT_FOUND..NOT_FOUND.
Span(s, e) == [start |-> s, end |-> e]
EmptyRange  == Span(NotFound, NotFound)

\* WordsRange::GetNumWordsCovered
NumWordsCovered(r) == IF r.start = NotFound THEN 0 ELSE r.end - r.start + 1

Least(S)    == CHOOSE p \in S : \A q \in S : p <= q
Greatest(S) == CHOOSE p \in S : \A q \in S : q <= p

\* WordsBitmap::GetFirstGapPos
FirstGapPos(cov) ==
  IF Positions \subseteq cov THEN NotFound ELSE Least(Positions \ cov)

\* WordsBitmap::GetLastPos
LastPos(cov) == IF cov = {} THEN NotFound ELSE Greatest(cov)

\* WordsBitmap::Overlap
Overlap(cov, s, e) == \E p \in s .. e : p \in cov

Abs(x) == IF x < 0 THEN -x ELSE x

\* InputType::ComputeDistortionDistance: how far the decoder jumps from the
\* phrase it translated last to the next one.
DistortionDistance(prev, cur) ==
  IF NumWordsCovered(prev) = 0 THEN Abs(cur.start)
                               ELSE Abs(prev.end - cur.start + 1)
=============================================================================
