---------------------------- MODULE ChartDecoding ----------------------------
(***************************************************************************)
(* ChartManager::ProcessSentence: the translation of one sentence by chart *)
(* decoding.                                                               *)
(*                                                                         *)
(* Each span of the sentence has a ChartCell, with a collection of         *)
(* hypotheses for every label found; the cells are filled from the         *)
(* narrowest to the widest.  Of every rule that applies to a span a        *)
(* RuleCube is made: a grid of its target sides and, for each non-terminal, *)
(* the hypotheses of the span it stands for, best first.  The best         *)
(* hypothesis of all cubes is taken, added to the cell, and those next to  *)
(* it in its cube are made, until the pop limit is reached.                *)
(***************************************************************************)
EXTENDS ChartRuleLookup

CONSTANTS Inputs,      \* what is decoded, and how: records of
                       \*   tables    the rule tables, a sequence of [rules, maxSpan],
                       \*             one element for each decode graph
                       \*   source    a sequence of SourceSize words
                       \*   setup     the options of chart decoding, see below
                       \*   settings  the options of its collections
          UnknownLHS,  \* GetUnknownLHS: a sequence of [lhs, score]
          MaxHypos     \* bound: hypotheses created, beyond what any instance needs

\* popLimit    -cube-pruning-pop-limit       lazy   -cube-pruning-lazy-scoring
\* ruleLimit   -rule-limit                   direct -always-create-direct-transopt
\* threshold   -translation-option-threshold, a logarithm
ASSUME ChartAssumption ==
  /\ \A i \in Inputs :
       /\ i.setup \in [popLimit : Nat \ {0}, lazy : BOOLEAN, ruleLimit : Nat \ {0},
                       direct : BOOLEAN, threshold : Int]
       /\ i.setup.threshold <= 0
       /\ i.settings \in Settings
  /\ ArcFactor = 1   \* ChartHypothesis::CleanupArcList has no factor

VARIABLES tables,   \* the rule tables
          source,   \* m_source
          setup,    \* the chart settings of this run
          settings, \* and those of its collections
          dotted,   \* dotted[t][start]: m_expandableDottedRuleList of the table t
          span,     \* the span whose turn it is
          phase,    \* of that: "lookup", "cubes", "pop"; then "done" (and more in
                    \* module ChartNBestList)
          options,  \* its ChartTranslationOptionList
          retried,  \* positions whose options were looked up twice
          cubes,    \* its RuleCubes, in the order of the options
          numPops,  \* numPops, those done
          hypos,    \* all hypotheses created; hypos[i].id = i
          cells,    \* cells[span]: label -> collection
          sorted,   \* sorted[span]: label -> m_hyposOrdered
          arcs,     \* arcs[i]: m_arcList of hypos[i]
          freed     \* deleted hypotheses

vars == <<tables, source, setup, settings, dotted, span, phase, options, retried, cubes, numPops,
          hypos, cells, sorted, arcs, freed>>

input == <<tables, source, setup, settings>>

Init ==
  /\ \E i \in Inputs : /\ tables = i.tables /\ source = i.source
                       /\ setup = i.setup /\ settings = i.settings
  /\ dotted = [t \in DOMAIN tables |-> [start \in 0 .. SourceSize - 1 |-> <<Root>>]]
  /\ span = <<0, 0>> /\ phase = "lookup"
  /\ options = <<>> /\ retried = {} /\ cubes = <<>> /\ numPops = 0
  /\ hypos = <<>>
  /\ cells = [s \in Spans |-> <<>>]
  /\ sorted = [s \in Spans |-> <<>>]
  /\ arcs = [i \in 1 .. MaxHypos |-> {}]
  /\ freed = {}

-----------------------------------------------------------------------------
(* ChartTranslationOptionCollection *)

Word(i) == source[i + 1]
WordAt == [i \in 0 .. SourceSize - 1 |-> Word(i)]
LabelsOf == [s \in Spans |-> DOMAIN cells[s]]

BestScores ==
  [sl \in {sl \in Spans \X Labels : sl[2] \in DOMAIN cells[sl[1]]} |-> cells[sl[1]][sl[2]].best]

\* GetChartRuleCollection of the table t, on [list, dotted].
LookUp(t, state) ==
  LET rules == tables[t].rules
      new   == NewDottedRules(rules, WordAt, LabelsOf, state.dotted[t][span[1]], span)
  IN  {[list   |-> list,
        dotted |-> [state.dotted EXCEPT ![t][span[1]] = @ \o Expandable(rules, new)]] :
         list \in AddCovering(rules, state.list, new, BestScores, span, setup.ruleLimit)}

\* Look up the tables that satisfy a condition, one after the other.
LookUpWhere(states, Wanted(_, _)) ==
  FoldLeft(LAMBDA some, t : UNION {IF Wanted(t, s) THEN LookUp(t, s) ELSE {s} : s \in some},
           states, [t \in DOMAIN tables |-> t])

\* "don't create unknown words for <S> or </S> tags"
MayBeUnknown == span[1] = span[2] /\ span[1] # 0 /\ span[1] # SourceSize - 1

\* ProcessOneUnknownWord: the word is copied, once for every label.
UnknownOptions ==
  [i \in DOMAIN UnknownLHS |->
     LET rule == [src |-> <<Word(span[1])>>, lhs |-> UnknownLHS[i].lhs,
                  target |-> <<[word |-> Word(span[1]), nt |-> 0]>>,
                  score |-> UnknownLHS[i].score, future |-> UnknownLHS[i].score]
     IN  NewOption(<<rule>>, [path |-> rule.src, spans |-> <<span>>], BestScores)]

\* ProcessUnknownWord(startPos): these options are added without looking at the limit.
AddUnknown(state) ==
  IF state.list.options = <<>> \/ setup.direct
  THEN [state EXCEPT !.list.options = @ \o UnknownOptions] ELSE state

\* ProcessUnknownWord(startPos, endPos)
ProcessUnknownWord(states) ==
  IF ~MayBeUnknown THEN states
  ELSE {AddUnknown(s) : s \in LookUpWhere(states, LAMBDA t, s : s.list.options = <<>>)}

\* ProcessUnknownWord(startPos, endPos) looks at all tables a second time.
Retried(states) == MayBeUnknown /\ \A s \in states : s.list.options = <<>>

WithinSpan(t) == tables[t].maxSpan = 0 \/ Width(span) <= tables[t].maxSpan

\* CreateTranslationOptionsForRange
CreateTranslationOptions ==
  /\ phase = "lookup"
  /\ \E first \in {LookUpWhere({[list |-> NoOptions, dotted |-> dotted]},
                               LAMBDA t, s : WithinSpan(t))} :
       /\ retried' = IF Retried(first) THEN retried \cup {span[1]} ELSE retried
       /\ \E s \in ProcessUnknownWord(first) :
            /\ dotted' = s.dotted
            /\ options' = WithinThreshold(s.list.options, setup.threshold)
  /\ phase' = "cubes"
  /\ UNCHANGED <<input, span, cubes, numPops, hypos, cells, sorted, arcs, freed>>

-----------------------------------------------------------------------------
(* RuleCube.  An item is [pos, score, id]: pos[1] is the place among the    *)
(* target sides, pos[j + 1] that among the hypotheses for the j-th          *)
(* non-terminal; id is 0 before the hypothesis is created.                  *)

\* CreateHypothesisDimensions: the sorted hypotheses for each non-terminal.
HypothesisDimensions(option) ==
  LET places == SelectSeq([i \in DOMAIN option.dotted.path |-> i],
                          LAMBDA i : option.dotted.path[i] \in Labels)
  IN  [j \in DOMAIN places |->
         sorted[option.dotted.spans[places[j]]][option.dotted.path[places[j]]]]

Corner(option) == [d \in 1 .. 1 + Len(HypothesisDimensions(option)) |-> 1]

PrevHypos(option, pos) ==
  LET dimensions == HypothesisDimensions(option)
  IN  [j \in DOMAIN dimensions |-> dimensions[j][pos[j + 1]]]

Total(seq, Of(_)) == FoldLeft(LAMBDA sum, x : sum + Of(x), 0, seq)

\* EstimateScore
EstimateScore(option, pos) ==
  option.targets[pos[1]].future + Total(PrevHypos(option, pos), LAMBDA h : h.total)

\* The constructor of ChartHypothesis, CalcScore and GetOutputPhrase.
NewHypothesis(option, pos, id) ==
  LET rule  == option.targets[pos[1]]
      prev  == PrevHypos(option, pos)
      lm    == EvaluateChart(rule.target, [j \in DOMAIN prev |-> prev[j].lm])
      score == rule.score + Total(prev, LAMBDA h : h.rules)
  IN  [id |-> id, lhs |-> rule.lhs, rule |-> rule, prev |-> [j \in DOMAIN prev |-> prev[j].id],
       words |-> Words(rule.target, prev, LAMBDA h : h.words),
       lm |-> lm, rules |-> score, total |-> score + lm.score,
       cov |-> span, state |-> Compared(lm, span, SourceSize)]

\* The items at some positions, with their hypotheses unless these are made later.
Items(option, positions) ==
  [n \in DOMAIN positions |->
     IF setup.lazy
     THEN [pos |-> positions[n], id |-> 0, score |-> EstimateScore(option, positions[n])]
     ELSE [pos |-> positions[n], id |-> Len(hypos) + n,
           score |-> NewHypothesis(option, positions[n], Len(hypos) + n).total]]

\* The hypotheses created for positions[n], n = 1, 2, ...
Created(option, positions) ==
  IF setup.lazy THEN <<>>
  ELSE [n \in DOMAIN positions |-> NewHypothesis(option, positions[n], Len(hypos) + n)]

\* ChartCell::ProcessSentence up to its loop: "add all trans opt into queue",
\* the cube of one option after the other.
CreateCube ==
  /\ phase = "cubes" /\ Len(cubes) < Len(options)
  /\ Len(hypos) < MaxHypos
  /\ \E option \in {options[Len(cubes) + 1]} : \E corner \in {<<Corner(option)>>} :
       /\ hypos' = hypos \o Created(option, corner)
       /\ cubes' = Append(cubes, [queue |-> ToSet(Items(option, corner)), covered |-> ToSet(corner)])
  /\ UNCHANGED <<input, dotted, span, phase, options, retried, numPops, cells, sorted, arcs, freed>>

StartPopping ==
  /\ phase = "cubes" /\ Len(cubes) = Len(options)
  /\ phase' = "pop" /\ numPops' = 0
  /\ UNCHANGED <<input, dotted, span, options, retried, cubes, hypos, cells, sorted, arcs, freed>>

Best(items) == {item \in items : \A other \in items : item.score >= other.score}

\* CreateNeighbor: "already seen it"
NotSeen(cube, pos) == pos \notin cube.covered

\* CreateNeighbors: a step along every dimension that has more.
Neighbors(option, cube, pos) ==
  LET dimensions == HypothesisDimensions(option)
      Limit(d)   == IF d = 1 THEN Len(option.targets) ELSE Len(dimensions[d - 1])
      steps      == [d \in DOMAIN pos |-> [pos EXCEPT ![d] = @ + 1]]
  IN  SelectSeq(steps, LAMBDA p : /\ \A d \in DOMAIN p : p[d] <= Limit(d)
                                  /\ NotSeen(cube, p))

WantsPop == numPops < setup.popLimit /\ \E i \in DOMAIN cubes : cubes[i].queue # {}

\* RuleCubeQueue::Pop: the best item of the best cube; with lazy scoring its
\* hypothesis is created now.
PopItem(i, item, next) ==
  LET option == options[i]
      made   == hypos \o Created(option, next)
  IN  /\ cubes' = [cubes EXCEPT ![i].queue = (@ \ {item}) \cup ToSet(Items(option, next)),
                                ![i].covered = @ \cup ToSet(next)]
      /\ hypos' = IF setup.lazy THEN Append(made, NewHypothesis(option, item.pos, Len(made) + 1))
                                ELSE made

\* ChartCell::AddHypothesis
AddToCell(h) ==
  \E collection \in {IF h.lhs \in DOMAIN cells[span] THEN cells[span][h.lhs]
                     ELSE EmptyStack(settings)} :
    \E o \in AddHypothesis(collection, arcs, h) :
      /\ cells' = [cells EXCEPT ![span] = (h.lhs :> o.stack) @@ @]
      /\ arcs' = o.arcs
      /\ freed' = freed \cup o.freed

\* One iteration of the loop of ChartCell::ProcessSentence.
Pop ==
  /\ phase = "pop" /\ WantsPop
  /\ \E i \in DOMAIN cubes : \E item \in Best(cubes[i].queue) :
       /\ \A j \in DOMAIN cubes : \A other \in cubes[j].queue : item.score >= other.score
       /\ \E next \in {Neighbors(options[i], cubes[i], item.pos)} :
            /\ Len(hypos) + Len(item.pos) + 1 <= MaxHypos
            /\ PopItem(i, item, next)
       /\ AddToCell(hypos'[IF setup.lazy THEN Len(hypos') ELSE item.id])
  /\ numPops' = numPops + 1
  /\ UNCHANGED <<input, dotted, span, phase, options, retried, sorted>>

\* ~RuleCubeQueue: hypotheses that were not released are deleted.
Unreleased ==
  UNION {{hypos[item.id] : item \in {item \in cubes[i].queue : item.id # 0}} : i \in DOMAIN cubes}

\* ChartCell::PruneToSize and CleanupArcList, label by label.
FinishedCells ==
  FoldSet(LAMBDA label, outcomes :
            UNION {UNION {{[cell |-> [o.cell EXCEPT ![label] = q.stack], arcs |-> q.arcs,
                            freed |-> o.freed \cup p.freed \cup q.freed] :
                             q \in CleanupArcList(p.stack, p.arcs)} :
                          p \in PruneChartToSize(o.cell[label], o.arcs)} : o \in outcomes},
          {[cell |-> cells[span], arcs |-> arcs, freed |-> Unreleased]}, DOMAIN cells[span])

\* Mutant: the hypotheses are sorted before the cell is pruned.
SortedBeforePruning(finished) == cells[span]

\* SortHypotheses sorts what is left.
ToSort(finished) == finished

\* ChartCell::SortHypotheses: label -> sequence.
SortedCells(cell) ==
  {order \in [DOMAIN cell -> UNION {SortedHypotheses(cell[label].hypos) : label \in DOMAIN cell}] :
     \A label \in DOMAIN cell : order[label] \in SortedHypotheses(cell[label].hypos)}

NextSpan ==
  IF span[2] < SourceSize - 1 THEN <<span[1] + 1, span[2] + 1>> ELSE <<0, Width(span)>>

\* The rest of the span's turn, and on to the next one.
FinishCell ==
  /\ phase = "pop" /\ ~WantsPop
  /\ \E o \in FinishedCells :
       /\ cells' = [cells EXCEPT ![span] = o.cell]
       /\ arcs' = o.arcs
       /\ freed' = freed \cup o.freed
       /\ \E order \in SortedCells(ToSort(o.cell)) : sorted' = [sorted EXCEPT ![span] = order]
  /\ IF Width(span) = SourceSize THEN phase' = "done" /\ UNCHANGED span
                                 ELSE phase' = "lookup" /\ span' = NextSpan
  /\ options' = <<>> /\ cubes' = <<>> /\ numPops' = 0
  /\ UNCHANGED <<input, dotted, retried, hypos>>

Next ==
  \/ CreateTranslationOptions
  \/ CreateCube
  \/ StartPopping
  \/ Pop
  \/ FinishCell

\* One thread runs ProcessSentence to its end.
Spec == Init /\ [][Next]_vars

-----------------------------------------------------------------------------
(* What the decoder is compared with *)

\* The ways to divide a span into n parts.
Divisions(s, n) ==
  {[i \in 1 .. n |-> <<IF i = 1 THEN s[1] ELSE cut[i], IF i = n THEN s[2] ELSE cut[i + 1] - 1>>] :
     cut \in {cut \in [2 .. n -> s[1] + 1 .. s[2]] : \A i \in 3 .. n : cut[i - 1] < cut[i]}}

\* The ways to match the source side of a rule with a span, labels[s] being the
\* labels of the span s.  A rule X -> Y of one non-terminal is never used.
Matches(src, s, labels) ==
  {parts \in Divisions(s, Len(src)) :
     \A i \in DOMAIN src : IF src[i] \in Labels THEN Len(src) > 1 /\ src[i] \in labels[parts[i]]
                           ELSE parts[i] = <<parts[i][1], parts[i][1]>> /\ Word(parts[i][1]) = src[i]}

TablesFor(s) == {t \in DOMAIN tables : tables[t].maxSpan = 0 \/ Width(s) <= tables[t].maxSpan}

\* The options there are for the current span, from the rules themselves.
AllOptions ==
  UNION {UNION {{NewOption(TargetPhraseCollection(tables[t].rules, src),
                           [path |-> src, spans |-> parts], BestScores) :
                   parts \in Matches(src, span, LabelsOf)} :
                src \in {r.src : r \in tables[t].rules}} : t \in TablesFor(span)}

UnknownLabels(i) ==
  IF /\ i # 0 /\ i # SourceSize - 1
     /\ setup.direct \/ \A t \in DOMAIN tables : \A r \in tables[t].rules : r.src # <<Word(i)>>
  THEN ToSet(UnknownLHS) ELSE {}

\* The members of the product of a sequence of sets.
Product(sets) == {f \in [DOMAIN sets -> UNION Range(sets)] : \A i \in DOMAIN sets : f[i] \in sets[i]}

\* A derivation: a rule, and the derivations of its non-terminals.
Derivation(src, lhs, target, score, subs) ==
  [rule |-> <<src, lhs, target>>, lhs |-> lhs, subs |-> subs,
   rules |-> score + Total(subs, LAMBDA d : d.rules),
   words |-> Words(target, subs, LAMBDA d : d.words)]

\* The derivations of a span, by(s) being those of the narrower spans.
DerivationsOver(s, by) ==
  LET of(part, label) == {d \in by[part] : d.lhs = label}
      Using(r) ==
        UNION {LET places == SelectSeq([i \in DOMAIN parts |-> i], LAMBDA i : r.src[i] \in Labels)
               IN  {Derivation(r.src, r.lhs, r.target, r.score, subs) :
                      subs \in Product([j \in DOMAIN places |->
                                          of(parts[places[j]], r.src[places[j]])])} :
               parts \in Matches(r.src, s, [part \in Spans |-> Labels])}
  IN  UNION {UNION {Using(r) : r \in tables[t].rules} : t \in TablesFor(s)}
      \cup IF Width(s) > 1 THEN {}
           ELSE {Derivation(<<Word(s[1])>>, u.lhs, <<[word |-> Word(s[1]), nt |-> 0]>>, u.score, <<>>) :
                   u \in UnknownLabels(s[1])}

\* All derivations of the sentence.
Derivations ==
  FoldLeft(LAMBDA by, width : [s \in Spans |-> IF Width(s) = width THEN DerivationsOver(s, by)
                                                                   ELSE by[s]],
           [s \in Spans |-> {}], [n \in 1 .. SourceSize |-> n])[<<0, SourceSize - 1>>]

\* Their scores.
TrueScore(d) == d.rules + SentenceScore(d.words)

-----------------------------------------------------------------------------
(* Properties *)

InCells == UNION {UNION {cells[s][label].hypos : label \in DOMAIN cells[s]} : s \in Spans}

LastCell == cells[<<0, SourceSize - 1>>]
LastHypos == UNION {LastCell[label].hypos : label \in DOMAIN LastCell}

OptionsUnlimited == setup.threshold <= NegInf

\* Limits that never leave anything out.
Exhaustive ==
  /\ phase = "done"
  /\ setup.popLimit >= MaxHypos /\ setup.ruleLimit >= MaxHypos /\ OptionsUnlimited
  /\ settings.maxSize >= MaxHypos /\ settings.beam <= NegInf

\* GetChartRuleCollection, which makes rules longer from span to span, in two
\* steps where they begin with a non-terminal, finds exactly the rules that
\* match the span, each once, and the limit drops none that is better than one
\* it keeps.  Where a word had no option the tables are looked up twice, and
\* what begins there is found twice (ProcessUnknownWord).
OptionsComplete ==
  phase = "cubes" /\ cubes = <<>> =>
    LET all   == AllOptions
        known == SelectSeq(options, LAMBDA o : \E t \in DOMAIN tables : o.targets[1] \in tables[t].rules)
        found == ToSet(known)
    IN  /\ found \subseteq all
        /\ span[1] \notin retried =>
             /\ Cardinality(found) = Len(known)
             /\ OptionsUnlimited =>
                  \A missed \in all \ found :
                    /\ Len(known) = setup.ruleLimit
                    /\ \A kept \in found : kept.estimate >= missed.estimate

\* EvaluateChart: whatever the rules, the language model score of a hypothesis
\* is that of its words, although of a hypothesis below it only the first and
\* the last words are looked at.
ScoresAreTrue ==
  phase = "done" => \A i \in DOMAIN hypos : hypos[i].lm.score = SentenceScore(hypos[i].words)

\* Without limits the best hypothesis is the best of all derivations: what
\* recombination compares (LanguageModelChartState::Compare) is enough, at the
\* edges of the sentence too.
OptimumFound ==
  Exhaustive /\ Derivations # {} =>
    Max({h.total : h \in LastHypos}) = Max({TrueScore(d) : d \in Derivations})

\* The derivations that the predecessors and the arcs of the hypotheses stand for.
Forest ==
  LET Of(h, by) == {Derivation(h.rule.src, h.lhs, h.rule.target, h.rule.score, subs) :
                      subs \in Product([j \in DOMAIN h.prev |-> by[h.prev[j]]])}
      by == FoldLeft(LAMBDA some, h : Append(some, UNION {Of(g, some) : g \in {h} \cup arcs[h.id]}),
                     <<>>, hypos)
  IN  UNION {by[h.id] : h \in LastHypos}

\* Without limits, and with n-best lists enabled, they are all derivations of
\* the sentence and no others (RuleCube::CreateNeighbors, ChartHypothesis::AddArc).
GraphComplete ==
  Exhaustive /\ settings.nBest /\ settings.distinct => Forest = Derivations

Queued == UNION {{item.id : item \in cubes[i].queue} : i \in DOMAIN cubes}

\* Every hypothesis is made once, up to words looked up twice (RuleCube,
\* IsCovered), and has exactly one owner that will delete it: the item of a cube,
\* a collection, the arc list of one hypothesis, or it is deleted.  What the
\* sorted lists, the cells and the items point to was not deleted.
OwnedOnce ==
  LET onItems  == {hypos[id] : id \in Queued \ {0}}
      onArcs   == UNION {{<<i, h>> : h \in arcs[i]} : i \in DOMAIN hypos}
      made     == {i \in DOMAIN hypos : hypos[i].cov[1] \notin retried}
      freedIds == {h.id : h \in freed}
  IN  /\ Cardinality({<<hypos[i].cov, hypos[i].rule, hypos[i].prev>> : i \in made})
           = Cardinality(made)
      /\ onItems \cup InCells \cup {ih[2] : ih \in onArcs} \cup freed = ToSet(hypos)
      /\ Cardinality(onItems) + Cardinality(InCells) + Cardinality(onArcs) + Cardinality(freed)
           = Len(hypos)
      /\ \A s \in Spans : \A label \in DOMAIN sorted[s] : ToSet(sorted[s][label]) \cap freed = {}
      /\ \A h \in InCells : ToSet(h.prev) \cap freedIds = {}
      /\ \A id \in Queued \ {0} : id \notin freedIds /\ ToSet(hypos[id].prev) \cap freedIds = {}

\* The rules that make any sequence of constituents a sentence.
GlueRules ==
  \E top \in Labels : \E t \in DOMAIN tables :
    /\ tables[t].maxSpan = 0
    /\ {<<SentenceStart>>, <<top, SentenceEnd>>} \cup {<<top, u.lhs>> : u \in ToSet(UnknownLHS)}
       \cup {<<top, l>> : l \in {r.lhs : r \in UNION {tables[v].rules : v \in DOMAIN tables \ {t}}}}
       \subseteq {r.src : r \in {r \in tables[t].rules : r.lhs = top}}

\* However few hypotheses the limits leave, with glue rules decoding ends with a
\* translation.
TranslationFound == phase = "done" /\ GlueRules => LastHypos # {}
=============================================================================
