--------------------------- MODULE ExpansionRules ---------------------------
(***************************************************************************)
(* SearchNormal::ProcessOneHypothesis: which spans of the source a         *)
(* hypothesis may translate next.  A hypothesis is its coverage            *)
(* (m_sourceCompleted) and the range it translated last                    *)
(* (m_currSourceWordsRange).  The input is a sentence; for a word lattice  *)
(* the code also asks which nodes reach which.                             *)
(***************************************************************************)
EXTENDS ReorderingConstraint

CONSTANTS MaxDistortion,    \* StaticData::GetMaxDistortion, negative: no limit
          MaxPhraseLength,  \* StaticData::GetMaxPhraseLength
          OptionSpans       \* pairs <<s, e>> with translation options

ASSUME LimitsAssumption ==
  MaxDistortion \in Int /\ MaxPhraseLength \in Nat \ {0}

\* TranslationOptionCollection::ProcessUnknownWord leaves no word of the
\* sentence without a translation option of its own.
EveryWordHasOption == \A p \in Positions : <<p, p>> \in OptionSpans

\* Mutant: a seed that covers nothing gets a range too.
SeedRangeOfNothing(cov) == Span(0, FirstGapPos(cov) - 1)

\* The range of the seed hypothesis: the words a partial translation already
\* covers from the start of the sentence, if any.
SeedRange(cov) ==
  IF FirstGapPos(cov) > 0 THEN Span(0, FirstGapPos(cov) - 1) ELSE EmptyRange

\* A span of the right length, with translation options, over words that are
\* not translated yet, within the reordering constraints.
Translatable(c, cov, s, e) ==
  /\ s >= FirstGapPos(cov)
  /\ e < SourceSize
  /\ e - s < MaxPhraseLength
  /\ <<s, e>> \in OptionSpans
  /\ ~Overlap(cov, s, e)
  /\ Check(c, cov, s, e, MaxDistortion)

\* Mutant: no look at the jump back.
JumpWithinLimit(cov, prev, s, e) ==
  MaxDistortion < 0 \/ DistortionDistance(prev, Span(s, s)) <= MaxDistortion

\* Mutant: the jump back starts at the beginning of the phrase.
WithinLimitFromStart(cov, prev, s, e) ==
  \/ MaxDistortion < 0
  \/ /\ DistortionDistance(prev, Span(s, s)) <= MaxDistortion
     /\ \/ s = FirstGapPos(cov)
        \/ DistortionDistance(Span(s, s), Span(FirstGapPos(cov), FirstGapPos(cov)))
             <= MaxDistortion

\* The jump to s..e, and the jump back to the first gap that it makes
\* unavoidable, are within the distortion limit.
WithinDistortionLimit(cov, prev, s, e) ==
  \/ MaxDistortion < 0
  \/ /\ DistortionDistance(prev, Span(s, s)) <= MaxDistortion
     /\ \/ s = FirstGapPos(cov)
        \/ DistortionDistance(Span(s, e), Span(FirstGapPos(cov), FirstGapPos(cov)))
             <= MaxDistortion

\* The conditions of ProcessOneHypothesis under which s..e is translated next.
CanExpand(c, cov, prev, s, e) ==
  /\ Translatable(c, cov, s, e)
  /\ WithinDistortionLimit(cov, prev, s, e)
=============================================================================
