------------------------------ MODULE BitmapID ------------------------------
(***************************************************************************)
(* WordsBitmap::GetID and GetIDPlus: a coverage as one number, the key of  *)
(* HypothesisStackNormal's map of worst scores and of its diversity count. *)
(* The number holds the position of the first gap and the pattern of the   *)
(* PatternBits positions behind it (16 in the code).                       *)
(***************************************************************************)
EXTENDS Coverage

CONSTANT PatternBits   \* the 16 of (1 << 16) and of the assertion

ASSUME PatternBitsAssumption == PatternBits \in Nat

FirstGapOrSize(cov) ==
  IF FirstGapPos(cov) = NotFound THEN SourceSize ELSE FirstGapPos(cov)

LastPosOrZero(cov) == IF LastPos(cov) = NotFound THEN 0 ELSE LastPos(cov)

\* The loop from end down to start + 1: position start + k is bit k - 1.
Pattern(cov, start, end) ==
  LET steps == IF end > start THEN end - start ELSE 0
      id[k \in 0 .. steps] ==
        IF k = 0 THEN 0 ELSE 2 * id[k - 1] + (IF end - k + 1 \in cov THEN 1 ELSE 0)
  IN  id[steps]

\* 1 << n
ShiftedOne(n) ==
  LET power[k \in 0 .. n] == IF k = 0 THEN 1 ELSE 2 * power[k - 1]
  IN  power[n]

\* Mutant: the pattern ends before the last translated word.
IDWithoutLastWord(cov) ==
  Pattern(cov, FirstGapOrSize(cov), LastPosOrZero(cov) - 1)
    + ShiftedOne(PatternBits) * FirstGapOrSize(cov)

GetID(cov) ==
  Pattern(cov, FirstGapOrSize(cov), LastPosOrZero(cov))
    + ShiftedOne(PatternBits) * FirstGapOrSize(cov)

\* The assertion of GetID.
PatternFits(cov) ==
  \/ LastPosOrZero(cov) < FirstGapOrSize(cov)
  \/ LastPosOrZero(cov) - FirstGapOrSize(cov) <= PatternBits

\* GetIDPlus: the ID of cov with s..e added, without building it.
GetIDPlus(cov, s, e) ==
  LET start == IF FirstGapOrSize(cov) = s THEN e + 1 ELSE FirstGapOrSize(cov)
      end   == IF LastPosOrZero(cov) < e THEN e ELSE LastPosOrZero(cov)
  IN  Pattern(cov \cup (s .. e), start, end) + ShiftedOne(PatternBits) * start
=============================================================================
