--------------------------- MODULE ChartRuleLookup ---------------------------
(***************************************************************************)
(* ChartRuleLookupManagerMemory and ChartTranslationOptionList: which      *)
(* rules apply to a span of the sentence.                                  *)
(*                                                                         *)
(* A rule is the record [src, lhs, target, score, future]; src is a        *)
(* sequence of words and labels of non-terminals, score is what does not   *)
(* depend on the context and future the GetFutureScore of the target side. *)
(* The rules of a table are a prefix tree; the source sides read from its  *)
(* root, the path, name its nodes.                                         *)
(* A dotted rule [path, spans] is a node together with the span that each  *)
(* symbol of the path was matched with.  They are kept from span to span,  *)
(* by their start, and made longer when the chart has grown.               *)
(*                                                                         *)
(* A span is a pair <<first, last>>; in the chart all narrower spans are   *)
(* finished when one is looked up, and labels[span] are the labels of the  *)
(* hypotheses found there.                                                 *)
(***************************************************************************)
EXTENDS ChartHypothesisCollection, ChartLanguageModel

CONSTANTS SourceSize,  \* number of words, with <s> and </s>
          Labels       \* labels of non-terminals

ASSUME SourceSizeAssumption == SourceSize \in Nat \ {0, 1}

Spans == {<<s, e>> \in (0 .. SourceSize - 1) \X (0 .. SourceSize - 1) : s <= e}

Width(span) == span[2] - span[1] + 1

Nodes(rules) == UNION {{SubSeq(r.src, 1, k) : k \in 0 .. Len(r.src)} : r \in rules}

IsLeaf(rules, path) == \A r \in rules : ~IsStrictPrefix(path, r.src)

\* TargetPhrase::SetScoreChart, when the rule is loaded.
Rule(src, lhs, target, score) ==
  [src |-> src, lhs |-> lhs, target |-> target, score |-> score,
   future |-> score + FullScore(target)]

Root == [path |-> <<>>, spans |-> <<>>]

-----------------------------------------------------------------------------
(* GetChartRuleCollection *)

\* Mutant: a non-terminal that begins a rule may cover the whole span.
EndOfSpan(dotted, span) == span[2]

\* The last position a non-terminal may cover: "(i.e. we don't allow non-lexical
\* unary rules)".
EndOfNonTerminal(dotted, span) ==
  IF dotted = Root /\ Width(span) > 1 THEN span[2] - 1 ELSE span[2]

\* One iteration of the main loop: a dotted rule is made longer by the last
\* word of the span, or by a non-terminal up to there.
Extensions(rules, source, labels, dotted, span) ==
  LET start == IF dotted = Root THEN span[1] ELSE Last(dotted.spans)[2] + 1
      rest  == <<start, EndOfNonTerminal(dotted, span)>>
      Longer(symbol, part) == [path  |-> Append(dotted.path, symbol),
                               spans |-> Append(dotted.spans, part)]
      terminals    == IF start = span[2] THEN {Longer(source[start], <<start, start>>)} ELSE {}
      nonTerminals == IF start > span[2] THEN {} ELSE {Longer(l, rest) : l \in labels[rest]}
  IN  {d \in terminals \cup nonTerminals : d.path \in Nodes(rules)}

\* The loop over the expandable dotted rules, which also reaches those it adds:
\* what begins with a non-terminal is made longer in the same loop.
NewDottedRules(rules, source, labels, expandable, span) ==
  LET Extend(list) ==
        FlattenSeq([i \in DOMAIN list |->
                      SetToSeq(Extensions(rules, source, labels, list[i], span))])
      first == Extend(expandable)
  IN  first \o Extend(first)

Expandable(rules, list) == SelectSeq(list, LAMBDA d : ~IsLeaf(rules, d.path))

\* The target sides of a node, the best first.
TargetPhraseCollection(rules, path) ==
  SortSeq(SetToSeq({r \in rules : r.src = path}),
          LAMBDA q, r : q.future > r.future)

-----------------------------------------------------------------------------
(* ChartTranslationOptionList: the options of a span, records              *)
(* [dotted, targets, estimate].  A list is [options, threshold].           *)

NoOptions == [options |-> <<>>, threshold |-> -NegInf]

\* ChartTranslationOption: the estimate is that of the best target side with
\* the best hypotheses below; best[span, label] is the score of the best one.
NewOption(targets, dotted, best) ==
  [dotted   |-> dotted, targets |-> targets,
   estimate |-> FoldLeft(LAMBDA sum, i : IF dotted.path[i] \in Labels
                                         THEN sum + best[dotted.spans[i], dotted.path[i]]
                                         ELSE sum,
                         targets[1].future,
                         [i \in DOMAIN dotted.path |-> i])]

\* The members of a sequence at some of its places, in order.
Keep(seq, places) ==
  LET order == SetToSortSeq(places, <) IN [n \in DOMAIN order |-> seq[order[n]]]

\* nth_element: the places of the k best options, in every way to break ties.
BestPlaces(options, k) ==
  FirstSets(DOMAIN options, k, LAMBDA i, j : options[i].estimate > options[j].estimate)

\* Add: "make the best score of bottom half the score threshold".
RaisedThreshold(list, kept) ==
  Max({list.threshold} \cup {list.options[i].estimate : i \in DOMAIN list.options \ kept})

\* Add, when the list has grown to twice the limit: "prune if bursting".
PruneBursting(list, ruleLimit) ==
  IF Len(list.options) <= 2 * ruleLimit THEN {list}
  ELSE {[options |-> Keep(list.options, kept), threshold |-> RaisedThreshold(list, kept)] :
          kept \in BestPlaces(list.options, ruleLimit)}

\* Mutant: only if it is the best so far.
BestSoFar(list, option) == \A i \in DOMAIN list.options : option.estimate > list.options[i].estimate

\* Add: "full but not bursting. add if better than worst score"
BetterThanWorst(list, option) == option.estimate > list.threshold

AddOption(list, option, ruleLimit) ==
  LET added == Append(list.options, option)
  IN  IF Len(list.options) < ruleLimit
      THEN PruneBursting([options |-> added, threshold |-> Min({list.threshold, option.estimate})],
                         ruleLimit)
      ELSE PruneBursting(IF BetterThanWorst(list, option)
                         THEN [list EXCEPT !.options = added] ELSE list, ruleLimit)

\* CreateChartRules: the limit is enforced.
CreateChartRules(list, ruleLimit) ==
  IF Len(list.options) <= ruleLimit THEN {list}
  ELSE {[list EXCEPT !.options = Keep(@, kept)] : kept \in BestPlaces(list.options, ruleLimit)}

\* The end of GetChartRuleCollection: "look up target sides for the rules" that
\* cover the span.
AddCovering(rules, list, dottedRules, best, span, ruleLimit) ==
  LET covering == SelectSeq(dottedRules, LAMBDA d : /\ Last(d.spans)[2] = span[2]
                                                    /\ \E r \in rules : r.src = d.path)
      Add1(lists, d) ==
        UNION {AddOption(l, NewOption(TargetPhraseCollection(rules, d.path), d, best), ruleLimit) :
                 l \in lists}
  IN  UNION {CreateChartRules(l, ruleLimit) : l \in FoldLeft(Add1, {list}, covering)}

\* Sort: "keep only those over best + threshold".
WithinThreshold(options, threshold) ==
  LET best == Max({options[i].estimate : i \in DOMAIN options})
  IN  SelectSeq(options, LAMBDA o : o.estimate >= best + threshold)
=============================================================================
