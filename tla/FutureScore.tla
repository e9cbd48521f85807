----------------------------- MODULE FutureScore -----------------------------
(***************************************************************************)
(* The future score of the phrase-based search: an estimate of what the    *)
(* untranslated words of a sentence will cost.                             *)
(*                                                                         *)
(* TranslationOptionCollection::CalcFutureScore fills a matrix with the    *)
(* best score of each span; SquareMatrix::CalcFutureScore adds it up over  *)
(* the gaps of a coverage bitmap.  A matrix is a function of the pairs     *)
(* <<s, e>> in UpperCells; optionScores[<<s, e>>] is the set of the        *)
(* GetFutureScore of the translation options over s..e.                    *)
(***************************************************************************)
EXTENDS Coverage, Scores, SequencesExt

UpperCells == {c \in Positions \X Positions : c[1] <= c[2]}

\* The numbers from a to b, as a loop visits them.
Upto(a, b) == [k \in 1 .. (IF b < a THEN 0 ELSE b - a + 1) |-> a + k - 1]

\* "record the cheapest option for each span"
BestOptions(optionScores) ==
  [c \in UpperCells |-> IF optionScores[c] = {} THEN NegInf ELSE Max(optionScores[c])]

\* "the highest score of the full-span trOpt or the sum of scores of joining two
\* smaller spans"
JoinAt(matrix, s, e) ==
  [matrix EXCEPT ![<<s, e>>] =
     Max({@} \cup {Plus(matrix[<<s, j>>], matrix[<<j + 1, e>>]) : j \in s .. e - 1})]

\* Mutant: the diagonals in the wrong order, long spans first.
FillLongSpansFirst(best) ==
  FoldLeft(LAMBDA m, colstart :
             FoldLeft(LAMBDA n, s : JoinAt(n, s, s + colstart),
                      m, Upto(0, SourceSize - colstart - 1)),
           best, Reverse(Upto(1, SourceSize - 1)))

\* The loops over colstart and diagshift: diagonal by diagonal, short spans first.
FillDiagonals(best) ==
  FoldLeft(LAMBDA m, colstart :
             FoldLeft(LAMBDA n, s : JoinAt(n, s, s + colstart),
                      m, Upto(0, SourceSize - colstart - 1)),
           best, Upto(1, SourceSize - 1))

\* TranslationOptionCollection::CalcFutureScore
FutureScoreMatrix(optionScores) == FillDiagonals(BestOptions(optionScores))

\* The gaps of a coverage: the longest spans without a translated word.
Gaps(cov) ==
  {c \in UpperCells :
     /\ (c[1] .. c[2]) \cap cov = {}
     /\ c[1] = 0 \/ c[1] - 1 \in cov
     /\ c[2] = SourceSize - 1 \/ c[2] + 1 \in cov}

\* SquareMatrix::CalcFutureScore of a coverage.
CalcFutureScore(matrix, cov) ==
  FoldSet(LAMBDA c, sum : Plus(matrix[c], sum), 0, Gaps(cov))

\* One pass of the loop below: scan is the start of the gap the loop is in, if
\* any, and the sum so far.
ScanPosition(matrix, covered, scan, pos) ==
  IF scan.gap = NotFound /\ pos \notin covered THEN [scan EXCEPT !.gap = pos]
  ELSE IF scan.gap # NotFound /\ pos \in covered
  THEN [gap |-> NotFound, sum |-> Plus(scan.sum, matrix[<<scan.gap, pos - 1>>])]
  ELSE scan

\* The scan begins in the first gap "unless covered by phrase".
GapAtStart(cov, s) == IF s = FirstGapPos(cov) THEN NotFound ELSE FirstGapPos(cov)

\* Where the scan begins: behind the phrase if it covers the first gap.
StartOfScan(cov, s, e) ==
  IF s = FirstGapPos(cov) THEN e + 1 ELSE FirstGapPos(cov) + 1

\* SquareMatrix::CalcFutureScore of a coverage with the span s..e added, one
\* scan over the coverage without building the extended one.
CalcFutureScoreWith(matrix, cov, s, e) ==
  LET first == FirstGapPos(cov)
      last  == IF LastPos(cov) = NotFound \/ e > LastPos(cov) THEN e ELSE LastPos(cov)
      scan  == FoldLeft(LAMBDA acc, pos : ScanPosition(matrix, cov \cup (s .. e), acc, pos),
                        [gap |-> GapAtStart(cov, s), sum |-> 0],
                        Upto(StartOfScan(cov, s, e), last))
  IN  IF first = NotFound THEN 0
      ELSE IF last = SourceSize - 1 THEN scan.sum
      ELSE Plus(scan.sum, matrix[<<last + 1, SourceSize - 1>>])
=============================================================================
