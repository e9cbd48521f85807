------------------------ MODULE MCTranslationOptions ------------------------
(* Instances of TranslationOptions for TLC. *)
EXTENDS TranslationOptions

MCNegInf == -1000
MCUnknownScore == -20
MCFactors == {"w", "t"}
MCFluency == [w \in {"x", "y", "z", "a", "b", "c", "d"} |->
                CASE w = "x" -> -1 [] w = "y" -> 0 [] w = "z" -> -4 [] OTHER -> -3]

Word(w, t) == [w |-> w, t |-> t]

\* Rows of a translation step's table: words of the surface ws with the tag t.
Row(ws, t, score) == [target |-> [i \in DOMAIN ws |-> Word(ws[i], t)], score |-> score]

Translation(out, limit, table) ==
  [kind |-> "translation", out |-> out, limit |-> limit, table |-> table]
Generation(table) == [kind |-> "generation", out |-> {"t"}, in |-> "w", table |-> table]

\* A graph of one step, in which "c" is unknown.
PhraseTable ==
  (<<"a">>      :> <<Row(<<"x">>, "n", -2), Row(<<"y">>, "n", -3), Row(<<"z">>, "v", -5)>>) @@
  (<<"b">>      :> <<Row(<<"y">>, "v", -1), Row(<<>>, "v", -6)>>) @@
  (<<"a", "b">> :> <<Row(<<"x", "y">>, "n", -3), Row(<<"z">>, "n", -2)>>)
Phrases(limit) == <<Translation({"w", "t"}, limit, PhraseTable)>>

\* A graph in which the surface is translated, tags are generated for it, and the
\* tags are translated and must agree.  With a limit of 1, "a" gets a word whose
\* tags do not agree with the last table.
SurfaceTable ==
  (<<"a">>      :> <<Row(<<"z">>, "", -1), Row(<<"x">>, "", -2), Row(<<"y">>, "", -2)>>) @@
  (<<"c">>      :> <<Row(<<"y">>, "", -2), Row(<<>>, "", -1)>>) @@
  (<<"b", "a">> :> <<Row(<<"y", "x">>, "", -2)>>)
TagTable ==
  (<<"a">>      :> <<Row(<<"">>, "n", -1), Row(<<"">>, "v", -2)>>) @@
  (<<"c">>      :> <<Row(<<"">>, "v", -1)>>) @@
  (<<"b", "a">> :> <<Row(<<"", "">>, "n", -1)>>)
TagsOfWords ==
  ("x" :> <<[word |-> Word("", "n"), score |-> -1], [word |-> Word("", "v"), score |-> 0]>>) @@
  ("y" :> <<[word |-> Word("", "v"), score |-> -1], [word |-> Word("", "n"), score |-> -3]>>) @@
  ("z" :> <<[word |-> Word("", "p"), score |-> 0]>>)
Factored(limit) ==
  <<Translation({"w"}, limit, SurfaceTable), Generation(TagsOfWords),
    Translation({"t"}, 0, TagTable)>>

Plainly(words) == [words |-> words, xml |-> <<>>]
Markup(s, e, ws, score) == [span |-> <<s, e>>, target |-> Row(ws, "n", 0).target, score |-> score]

Default ==
  [threads |-> 1,
   sentences |-> <<Plainly(<<"a", "b", "c", "a">>), Plainly(<<"b", "a", "a", "b">>)>>,
   graphs |-> <<Phrases(0)>>, backoff |-> <<0>>, xmlInput |-> "exclusive", cacheSize |-> 0,
   maxPartial |-> 100, maxOptions |-> 0, threshold |-> NegInf, direct |-> FALSE, dropped |-> {}]

One(sentence) == <<sentence>>
Marked ==
  [words |-> <<"a", "b", "c", "a">>,
   xml |-> <<Markup(0, 1, <<"y">>, -1), Markup(0, 1, <<"x", "z">>, -9), Markup(3, 3, <<"y">>, 0)>>]
TooLong ==
  [words |-> <<"a", "b", "c", "a">>, xml |-> <<Markup(0, 2, <<"y">>, -1)>>]

\* The graphs, their backoff and their limits, with and without the cache.
MCGraphScenarios ==
  {[Default EXCEPT !.graphs = graphs, !.backoff = backoff, !.cacheSize = size] :
     graphs  \in {<<Phrases(0), Factored(0)>>, <<Phrases(1), Factored(1)>>, <<Factored(1), Phrases(1)>>},
     backoff \in {<<0, 0>>, <<0, 2>>, <<0, 3>>},
     size    \in {0, 10}}
  \cup
  {[Default EXCEPT !.graphs = graphs, !.backoff = <<0, 0>>, !.cacheSize = 10,
                   !.sentences = One(Plainly(<<"a", "b", "a", "b">>))] :
     graphs \in {<<Phrases(0), Factored(0)>>, <<Factored(0), Phrases(0)>>}}
  \cup
  {[Default EXCEPT !.graphs = <<graph>>, !.cacheSize = size] :
     graph \in {Phrases(1), Factored(0), Factored(1)}, size \in {0, 1, 2, 10}}

\* Two threads that share the cache.
MCThreadScenarios ==
  {[Default EXCEPT !.graphs = <<Phrases(1)>>, !.cacheSize = 2, !.threads = 2],
   [Default EXCEPT !.graphs = <<Factored(1)>>, !.cacheSize = 4, !.threads = 2]}

\* Limits of the lists.
MCLimitScenarios ==
  {[Default EXCEPT !.graphs = <<graph>>, !.cacheSize = size, !.maxPartial = partial,
                   !.maxOptions = max, !.threshold = threshold, !.direct = direct,
                   !.dropped = dropped, !.sentences = One(Plainly(<<"a", "b", "c", "a">>))] :
     graph \in {Phrases(0), Factored(1), Factored(0)}, size \in {0, 10}, partial \in {1, 2, 100},
     max \in {0, 1, 2}, threshold \in {NegInf, -2}, direct \in BOOLEAN, dropped \in {{}, {"c"}}}

\* Markup.
MCMarkupScenarios ==
  {[Default EXCEPT !.graphs = graphs, !.backoff = [i \in DOMAIN graphs |-> IF i = 1 THEN 0 ELSE 3],
                   !.xmlInput = input, !.cacheSize = size,
                   !.sentences = <<sentence, Plainly(<<"a", "b", "a", "a">>)>>] :
     graphs \in {<<Phrases(0)>>, <<Phrases(0), Factored(1)>>},
     input \in {"pass-through", "exclusive", "inclusive"}, size \in {0, 2},
     sentence \in {Marked, TooLong}}

\* All scores of the options of a sentence of four words.
MCScoreScenarios ==
  {[Default EXCEPT
      !.sentences = One(Plainly(<<"a", "b", "c", "d">>)),
      !.graphs = <<<<Translation({"w", "t"}, 0,
                    [p \in DOMAIN f |-> [i \in DOMAIN f[p] |-> Row(<<"y">>, "n", f[p][i])]])>>>>] :
     f \in {g \in [{<<"a">>, <<"b">>, <<"c">>, <<"d">>, <<"a", "b">>, <<"b", "c">>, <<"c", "d">>}
                     -> {<<>>, <<-2>>, <<-5>>, <<-2, -9>>}] :
              \A p \in DOMAIN g : g[p] \in IF Len(p) = 1 THEN {<<-2>>, <<-5>>}
                                            ELSE {<<>>, <<-5>>, <<-2, -9>>}}}

MCScenarios == MCGraphScenarios \cup MCThreadScenarios \cup MCLimitScenarios \cup MCMarkupScenarios \cup MCScoreScenarios

\* A cache of two phrases and three words to translate.
MCSmallCache ==
  {[Default EXCEPT !.graphs = <<Phrases(0)>>, !.cacheSize = 2, !.threads = 2,
                   !.sentences = <<Plainly(<<"a", "b">>), Plainly(<<"b", "a">>)>>]}
=============================================================================
