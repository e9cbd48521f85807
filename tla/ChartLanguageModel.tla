------------------------- MODULE ChartLanguageModel -------------------------
(***************************************************************************)
(* LanguageModelImplementation in chart decoding: the language model score *)
(* of a hypothesis, computed from the words of its rule and from what is   *)
(* remembered of the hypotheses below it, and the state that decides which *)
(* hypotheses can be recombined.                                           *)
(*                                                                         *)
(* The target side of a rule is a sequence of symbols [word, nt]: a word,  *)
(* with nt = 0, or the nt-th non-terminal of the source side.  What is     *)
(* remembered of a hypothesis (LanguageModelChartState) is the record      *)
(*   prefix, suffix  its first and last words, up to Order - 1             *)
(*   length          m_numTargetTerminals                                  *)
(*   right           m_lmRightContext, the context of the next word        *)
(*   prefixScore     the score of words that lack context                  *)
(*   score           the score of all words                                *)
(***************************************************************************)
EXTENDS Integers, SequencesExt

CONSTANTS Order,          \* GetNGramOrder
          NGram(_, _),    \* NGram(context, word): the score of a word after others
          SentenceStart,  \* <s>
          SentenceEnd     \* </s>

ASSUME OrderAssumption == Order \in Nat \ {0, 1}

IsNonTerminal(symbol) == symbol.nt # 0

FirstWords(words) == SubSeq(words, 1, IF Len(words) < Order THEN Len(words) ELSE Order - 1)

LastWords(words) ==
  SubSeq(words, IF Len(words) < Order THEN 1 ELSE Len(words) - Order + 2, Len(words))

\* The words of a target side, with Of(sub) for the non-terminals.
Words(target, subs, Of(_)) ==
  FlattenSeq([i \in DOMAIN target |-> IF IsNonTerminal(target[i]) THEN Of(subs[target[i].nt])
                                                                  ELSE <<target[i].word>>])

CalcPrefix(target, subs) == FirstWords(Words(target, subs, LAMBDA sub : sub.prefix))

NumTargetTerminals(target, subs) ==
  FoldLeft(LAMBDA n, symbol : n + IF IsNonTerminal(symbol) THEN subs[symbol.nt].length ELSE 1,
           0, target)

\* "does the prefix match the entire hypothesis string? -> just copy prefix"
CalcSuffix(target, subs) ==
  LET prefix == CalcPrefix(target, subs)
  IN  IF Len(prefix) = NumTargetTerminals(target, subs) THEN prefix
      ELSE LastWords(Words(target, subs, LAMBDA sub : sub.suffix))

-----------------------------------------------------------------------------
(* EvaluateChart goes over the target side with the record [context,       *)
(* wordPos, prefix, final]: the last words, their number, and the scores   *)
(* of those that lack context and of those that do not.                    *)

\* Mutant: one word more counts as lacking context.
LacksContextTooLong(wordPos) == wordPos <= Order

\* updateChartScore: is the score of this word not yet final?
LacksContext(wordPos) == wordPos < Order

\* A word is scored.
Scored(progress, word) ==
  LET score   == NGram(progress.context, word)
      lacking == LacksContext(progress.wordPos + 1)
  IN  [context |-> LastWords(Append(progress.context, word)),
       wordPos |-> progress.wordPos + 1,
       prefix  |-> progress.prefix + IF lacking THEN score ELSE 0,
       final   |-> progress.final + IF lacking THEN 0 ELSE score]

\* "beginning of sentence symbol <s>? -> just update state"
AddTerminal(progress, word) ==
  IF word = SentenceStart THEN [progress EXCEPT !.context = <<word>>] ELSE Scored(progress, word)

\* "special case: rule starts with non-terminal -> copy everything"
CopySubPhrase(sub) ==
  [context |-> sub.right, wordPos |-> Len(sub.suffix),
   prefix |-> sub.prefixScore, final |-> sub.score - sub.prefixScore]

\* "internal non-terminal": its first words are scored again; of a large
\* sub-phrase the rest is final.
AddSubPhrase(progress, sub) ==
  LET scored == FoldLeft(Scored, progress, sub.prefix)
  IN  IF sub.length <= Order - 1 THEN scored
      ELSE [context |-> sub.right, wordPos |-> scored.wordPos + sub.length,
            prefix |-> scored.prefix, final |-> scored.final + sub.score - sub.prefixScore]

\* LanguageModelImplementation::EvaluateChart
EvaluateChart(target, subs) ==
  LET Step(progress, i) ==
        IF ~IsNonTerminal(target[i]) THEN AddTerminal(progress, target[i].word)
        ELSE IF i = 1 THEN CopySubPhrase(subs[target[i].nt])
        ELSE AddSubPhrase(progress, subs[target[i].nt])
      result == FoldLeft(Step, [context |-> <<>>, wordPos |-> 0, prefix |-> 0, final |-> 0],
                         [i \in DOMAIN target |-> i])
  IN  [prefix |-> CalcPrefix(target, subs), suffix |-> CalcSuffix(target, subs),
       length |-> NumTargetTerminals(target, subs), right |-> result.context,
       prefixScore |-> result.prefix, score |-> result.prefix + result.final]

\* Mutant: only what follows matters.
ComparedRight(lm, range, size) == [right |-> IF range[2] < size - 1 THEN lm.right ELSE <<>>]

\* LanguageModelChartState::Compare looks at these parts of the state; the range
\* is <<first, last>>.  Nothing can come before "<s> ..." or after "... </s>".
Compared(lm, range, size) ==
  [prefix |-> IF range[1] > 0 THEN lm.prefix ELSE <<>>,
   right  |-> IF range[2] < size - 1 THEN lm.right ELSE <<>>]

\* CalcScore, the full score of a target phrase by itself: the context is
\* forgotten at every non-terminal.
FullScore(target) ==
  FoldLeft(LAMBDA progress, symbol :
             IF IsNonTerminal(symbol) THEN [progress EXCEPT !.context = <<>>]
                                      ELSE AddTerminal(progress, symbol.word),
           [context |-> <<>>, wordPos |-> Order, prefix |-> 0, final |-> 0], target).final

\* What it must be: the score of a sequence of words.
SentenceScore(words) ==
  FoldLeft(LAMBDA score, i :
             IF words[i] = SentenceStart THEN score
             ELSE score + NGram(LastWords(SubSeq(words, 1, i - 1)), words[i]),
           0, [i \in DOMAIN words |-> i])
=============================================================================
