------------------------------- MODULE MCChart -------------------------------
(* Instances of ChartNBestList (and ChartDecoding) for TLC. *)
EXTENDS ChartNBestList

MCNegInf == -1000
MCLabels == {"Q", "X", "Y"}

\* Scores that tell almost all sequences of words from each other; "t" is as good
\* as "u" everywhere.
MCNGram(context, word) ==
  LET code == [w \in {"<s>", "</s>", "t", "u", "v", "w", "a", "b", "c"} |->
                 CASE w = "<s>" -> 1 [] w \in {"t", "u"} -> 2 [] w = "v" -> 3 [] w = "w" -> 5
                   [] w = "a" -> 12 [] w = "b" -> 7 [] w = "c" -> 8 [] w = "</s>" -> 11]
  IN  - 1 - FoldLeft(LAMBDA sum, w : (sum * sum + 5 * code[w]) % 97, 0, Append(context, word))

Terminal(w) == [word |-> w, nt |-> 0]
NonTerminal(n) == [word |-> "", nt |-> n]

MCLexicon ==
  {Rule(<<"a">>, "X", <<Terminal("u"), Terminal("v")>>, -7),
   Rule(<<"a">>, "Y", <<Terminal("v")>>, -3),
   Rule(<<"c">>, "X", <<Terminal("v"), Terminal("u")>>, -9),
   Rule(<<"c">>, "X", <<Terminal("w"), Terminal("v"), Terminal("u")>>, -4)}

\* "b" has no translation of its own, unless those of the first set are there.
MCOptional ==
  {{Rule(<<"b">>, "X", <<Terminal("w")>>, -6), Rule(<<"b">>, "X", <<Terminal("u")>>, -11)},
   {Rule(<<"b", "X">>, "Y", <<NonTerminal(1), Terminal("w")>>, -1)},
   {Rule(<<"X", "X">>, "Y", <<NonTerminal(2), NonTerminal(1)>>, -1)},
   {Rule(<<"X", "b", "X">>, "X", <<NonTerminal(1), Terminal("u"), NonTerminal(2)>>, -3)},
   {Rule(<<"a", "Y">>, "X", <<Terminal("w"), NonTerminal(1), Terminal("v")>>, -2)}}

\* Many hypotheses with the same score.
MCSynonyms ==
  {Rule(<<"a", "b">>, "X", <<Terminal(v), Terminal(w)>>, -2) : v, w \in {"t", "u"}}

MCGlue ==
  {Rule(<<"<s>">>, "Q", <<Terminal("<s>")>>, 0),
   Rule(<<"Q", "</s>">>, "Q", <<NonTerminal(1), Terminal("</s>")>>, 0),
   Rule(<<"Q", "X">>, "Q", <<NonTerminal(1), NonTerminal(2)>>, -1),
   Rule(<<"Q", "Y">>, "Q", <<NonTerminal(1), NonTerminal(2)>>, -1)}

MCUnknownLHS == <<[lhs |-> "X", score |-> -3], [lhs |-> "Y", score |-> -4]>>

Setting(maxSize, beam, nBest, nBestSize, distinct) ==
  [maxSize |-> maxSize, beam |-> beam, diversity |-> 0, nBest |-> nBest,
   nBestSize |-> nBestSize, distinct |-> distinct]

Unlimited == Setting(300, NegInf, TRUE, 8, TRUE)

MCSettings == {Setting(1, -50, FALSE, 1, FALSE), Setting(2, -200, TRUE, 2, FALSE), Unlimited}

Setup(popLimit, lazy, ruleLimit, direct, threshold) ==
  [popLimit |-> popLimit, lazy |-> lazy, ruleLimit |-> ruleLimit, direct |-> direct,
   threshold |-> threshold]

Input(rules, how, stack) ==
  [tables |-> <<[rules |-> rules, maxSpan |-> 3], [rules |-> MCGlue, maxSpan |-> 0]>>,
   source |-> <<"<s>", "a", "b", "c", "</s>">>, setup |-> how, settings |-> stack]

MCLimitedInputs ==
  {Input(MCLexicon \cup UNION optional, how, stack) :
     optional \in SUBSET MCOptional,
     how \in {Setup(1, FALSE, 1, TRUE, -30), Setup(3, TRUE, 2, FALSE, NegInf),
             Setup(10, FALSE, 3, TRUE, NegInf)},
     stack \in MCSettings \ {Unlimited}}

MCUnlimitedInputs ==
  {Input(MCLexicon \cup UNION optional, Setup(300, lazy, 300, FALSE, NegInf), Unlimited) :
     optional \in SUBSET MCOptional, lazy \in BOOLEAN}

MCSynonymInputs ==
  {Input(MCSynonyms, how, stack) :
     how \in {Setup(3, FALSE, 300, FALSE, NegInf)}, stack \in MCSettings \ {Unlimited}}

MCInputs == MCLimitedInputs \cup MCUnlimitedInputs \cup MCSynonymInputs
=============================================================================
