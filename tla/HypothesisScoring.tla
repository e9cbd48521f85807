-------------------------- MODULE HypothesisScoring --------------------------
(***************************************************************************)
(* Hypothesis: how a search makes a hypothesis from another one and a      *)
(* translation option, and how it is scored: with the scores of the        *)
(* option, the distortion, a bigram language model and the future score    *)
(* (module FutureScore).  Both search algorithms use it.                   *)
(*                                                                         *)
(* A translation option is [s, e, word, score]: the span, the target word  *)
(* and the weighted scores that do not depend on the context.              *)
(***************************************************************************)
EXTENDS ExpansionRules, FutureScore, SequencesExt

CONSTANTS OptionLists,  \* sentences: sequences of options in the order of the search
          ConstraintOf, \* the reordering constraint of each sentence
          Bigram,       \* Bigram[w, v]: language model score of v after w
          StartWord,    \* the context of the seed hypothesis
          DistortionWeight

\* A translation option is for a span of the sentence; scores are integers here.
ASSUME OptionsAssumption ==
  /\ OptionSpans \subseteq UpperCells
  /\ \A options \in OptionLists :
       /\ DOMAIN options = 1 .. Len(options) /\ Len(options) \in Nat
       /\ {<<options[i].s, options[i].e>> : i \in DOMAIN options} = OptionSpans
       /\ \A i \in DOMAIN options : options[i].score \in Int

OptionScoresOf(options) ==
  [c \in UpperCells |-> {options[i].score : i \in {i \in DOMAIN options :
                                                     <<options[i].s, options[i].e>> = c}}]

\* m_ffStates of the distortion and language model features: what of the past
\* the scores of a continuation depend on.
FeatureStates(range, word) == <<range.end, word>>

\* Hypothesis::Create: nothing translated, no words produced.
Seed == [id |-> 1, prev |-> 0, option |-> 0, cov |-> {}, range |-> EmptyRange,
         word |-> StartWord, score |-> 0, total |-> 0,
         state |-> FeatureStates(EmptyRange, StartWord)]

DistortionScore(range, span) == - DistortionWeight * DistortionDistance(range, span)

\* The scores added by the option o: its own, the language model's and the
\* distortion's.
StepScore(word, range, o) ==
  o.score + Bigram[<<word, o.word>>] + DistortionScore(range, Span(o.s, o.e))

\* What a step may come after: the start, or an option.
Contexts(options) ==
  {<<StartWord, EmptyRange>>}
    \cup {<<options[i].word, Span(options[i].s, options[i].e)>> : i \in DOMAIN options}

\* No step of a derivation costs more than cost, and no derivation with the
\* estimate of what is left falls below minus infinity.
CostsBounded(cost) ==
  \A options \in OptionLists :
    LET matrix == FutureScoreMatrix(OptionScoresOf(options))
    IN  /\ \A i \in DOMAIN options, past \in Contexts(options) :
             LET score == StepScore(past[1], past[2], options[i])
             IN  score \in Int /\ score >= -cost
        /\ \A cov \in SUBSET Positions :
             LET estimate == CalcFutureScore(matrix, cov)
             IN  /\ estimate \in Int
                 /\ estimate # NegInf => estimate - cost * Cardinality(cov) >= NegInf

\* Scores are finite: minus infinity, an integer here, is below all sums of them.
ASSUME CostsAssumption == \E cost \in 0 .. -NegInf : CostsBounded(cost)

\* Hypothesis::CreateNext and CalcScore: h is extended by options[i].
NextHypothesis(options, futureScore, id, h, i) ==
  LET o     == options[i]
      cov   == h.cov \cup (o.s .. o.e)
      score == h.score + StepScore(h.word, h.range, o)
  IN  [id |-> id, prev |-> h.id, option |-> i, cov |-> cov,
       range |-> Span(o.s, o.e), word |-> o.word, score |-> score,
       total |-> Plus(score, CalcFutureScore(futureScore, cov)),
       state |-> FeatureStates(Span(o.s, o.e), o.word)]

-----------------------------------------------------------------------------
(* What the searches are compared with. *)

\* Every derivation of the sentence: [path, range, cov, word, score], by the
\* number of words translated.
DerivationsOf(options) ==
  LET seed == [path |-> <<>>, cov |-> {}, range |-> EmptyRange, word |-> StartWord, score |-> 0]
      Extend(d, i) ==
        [path |-> Append(d.path, i), cov |-> d.cov \cup (options[i].s .. options[i].e),
         range |-> Span(options[i].s, options[i].e), word |-> options[i].word,
         score |-> d.score + StepScore(d.word, d.range, options[i])]
      Longer(shorter, k) ==   \* shorter[j + 1]: those that translate j < k words
        UNION {{Extend(d, i) : d \in
                  {d \in shorter[k - (options[i].e - options[i].s)] :
                     CanExpand(ConstraintOf[options], d.cov, d.range, options[i].s, options[i].e)}} :
                 i \in {i \in DOMAIN options : options[i].e - options[i].s + 1 <= k}}
  IN  Last(FoldLeft(LAMBDA shorter, k : Append(shorter, Longer(shorter, k)),
                    <<{seed}>>, Upto(1, SourceSize)))
=============================================================================
