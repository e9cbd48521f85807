----------------------------- MODULE MCSentences -----------------------------
(* Sentences and scores for the instances of the two searches. *)
EXTENDS HypothesisScoring

MCNegInf == -1000
MCCoverages == SUBSET Positions

MCOptionSpans ==
  {se \in Positions \X Positions : se[1] <= se[2] /\ se[2] - se[1] < MaxPhraseLength}

Option(s, e, w, score) == [s |-> s, e |-> e, word |-> w, score |-> score]

\* Four words, the spans in the order of the search, two options for some words.
MCSentences ==
  {<<Option(0, 0, "a", x), Option(0, 0, "b", -5), Option(0, 1, "b", y),
     Option(1, 1, "a", -2), Option(1, 2, "a", x), Option(2, 2, "a", y),
     Option(2, 2, "b", -1), Option(2, 3, "a", -4), Option(3, 3, "b", x)>> :
       x \in {-1, -2}, y \in {-1, -3}}

\* One option per word and per pair of neighbours, pairs good, fair or bad.
MCPairSentences ==
  {[i \in 1 .. 2 * SourceSize - 1 |->
      LET s == (i - 1) \div 2
      IN  IF i % 2 = 1 THEN Option(s, s, IF s % 2 = 0 THEN "a" ELSE "b", -2)
                       ELSE Option(s, s + 1, "a", good[s])] :
     good \in [0 .. SourceSize - 2 -> {-1, -3, -6}]}

\* Good phrases at the end tempt the search to begin there, out of reach of
\* the first word.
MCTemptations ==
  {<<Option(0, 0, "a", -2), Option(0, 1, "a", x), Option(1, 1, "b", -2), Option(1, 2, "a", y),
     Option(2, 2, "a", -2), Option(2, 3, "b", -1), Option(3, 3, "b", -2), Option(3, 3, "a", -2)>> :
       x \in {-1, -6}, y \in {-1, -3}}

\* Sentences best begun with their second word, were it not for a wall behind the
\* first, or for a zone of two words with a wall inside it.
ConstrainedSentence(x) ==
  <<Option(0, 0, "a", -2), Option(0, 1, "a", x), Option(1, 1, "b", -2), Option(1, 2, "b", -8),
    Option(2, 2, "b", -2), Option(2, 3, "b", -7), Option(3, 3, "a", -2)>>

MCWalledSentences == {ConstrainedSentence(-8)}
MCZonedSentences == {ConstrainedSentence(-9)}

MCAllSentences == MCSentences \cup MCPairSentences \cup MCWalledSentences \cup MCZonedSentences
MCCubeSentences == MCAllSentences \cup MCTemptations

MCConstraintOf ==
  [options \in OptionLists |->
     CASE options \in MCWalledSentences -> SentenceConstraint({}, {0, 2}, <<>>)
       [] options \in MCZonedSentences -> SentenceConstraint({}, {1}, <<Span(1, 2)>>)
       [] OTHER -> NoConstraint]

\* Every pair of words has a different score.
MCBigram == [p \in {"<s>", "a", "b"} \X {"a", "b"} |->
               CASE p = <<"<s>", "a">> -> -4 [] p = <<"<s>", "b">> -> 0
                 [] p = <<"a", "a">> -> -3 [] p = <<"a", "b">> -> -1
                 [] p = <<"b", "a">> -> 0 [] p = <<"b", "b">> -> -2]
=============================================================================
