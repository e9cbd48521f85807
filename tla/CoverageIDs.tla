----------------------------- MODULE CoverageIDs -----------------------------
(***************************************************************************)
(* The bitmap IDs of the coverages that the search reaches: the keys of    *)
(* HypothesisStackNormal's diversity bookkeeping.                          *)
(***************************************************************************)
EXTENDS HypothesisExpansion, BitmapID

\* The coverages that the distortion limit allows.
WindowCoverages ==
  {cov \in SUBSET Positions :
     \A p \in cov : p > FirstGapPos(cov) => p - FirstGapPos(cov) + 1 <= MaxDistortion}

\* Two hypotheses with different coverages never share an ID: no coverage takes
\* over the worst score or the quota of another
\* (HypothesisStackNormal::PruneToSize, GetWorstScoreForBitmap).  The assertion
\* in GetID holds for every coverage the search builds, up to a distortion limit
\* of PatternBits + 1.
IDsDistinct ==
  /\ PatternFits(sourceCompleted)
  /\ \A cov \in WindowCoverages :
       GetID(cov) = GetID(sourceCompleted) => cov = sourceCompleted

\* GetIDPlus' comment, "converts bitmap into an integer ID, with an additional
\* span covered": the ID of the coverage of the extended hypothesis
\* (SearchNormal::ExpandHypothesis looks its worst score up under it).
IDPlusIsID ==
  \A s \in Positions : \A e \in s .. SourceSize - 1 :
    CanExpand(constraint, sourceCompleted, currRange, s, e) =>
      GetIDPlus(sourceCompleted, s, e) = GetID(sourceCompleted \cup (s .. e))
=============================================================================
