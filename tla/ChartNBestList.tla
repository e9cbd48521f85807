---------------------------- MODULE ChartNBestList ----------------------------
(***************************************************************************)
(* ChartManager::CalcNBest: the best derivations in the chart, taken when  *)
(* the sentence is decoded (module ChartDecoding).                         *)
(*                                                                         *)
(* The first contender is the derivation of the best hypothesis.  Again    *)
(* and again the best contender is moved to the list, and the derivations  *)
(* that have an arc in the place of one of its hypotheses become           *)
(* contenders.                                                             *)
(*                                                                         *)
(* The nodes of a derivation (ChartTrellisNode) cover different spans; it  *)
(* is the record                                                           *)
(*   nodes    the ids of its hypotheses, their spans tell which is where   *)
(*   changed  m_prevNodeChanged: the hypothesis put in last, or 0          *)
(*   total    m_totalScore                                                 *)
(***************************************************************************)
EXTENDS ChartDecoding

CONSTANT NBestFactor   \* GetNBestFactor, 0: no limit

ASSUME NBestFactorAssumption == NBestFactor \in Nat

VARIABLES contenders, \* contenders
          nBestList,  \* ret
          iteration

\* When decoding is "done", phase becomes "list" and then "returned".
listVars  == <<contenders, nBestList, iteration>>
decoded   == <<tables, source, setup, settings, dotted, span, options, retried, cubes, numPops,
               hypos, cells, sorted, arcs, freed>>
nBestVars == <<tables, source, setup, settings, dotted, span, phase, options, retried, cubes,
               numPops, hypos, cells, sorted, arcs, freed, contenders, nBestList, iteration>>

Within(s, t) == t[1] <= s[1] /\ s[2] <= t[2]

\* Constructor of ChartTrellisNode: a hypothesis and all below it.
NodesBelow(id) ==
  LET below[i \in DOMAIN hypos] == {i} \cup UNION {below[j] : j \in ToSet(hypos[i].prev)}
  IN  below[id]

PurePath(h) == [nodes |-> NodesBelow(h.id), changed |-> 0, total |-> h.total]

\* The copying constructor: the arc takes the place of the node and all below it.
Replaced(path, node, arc) ==
  [nodes   |-> {i \in path.nodes : ~Within(hypos[i].cov, hypos[node].cov)} \cup NodesBelow(arc.id),
   changed |-> arc.id,
   total   |-> path.total + arc.total - hypos[node].total]

\* "don't change m_prevNodeChanged, just it's children"
NodesToChange(path) ==
  IF path.changed = 0 THEN path.nodes
  ELSE {i \in path.nodes \ {path.changed} : Within(hypos[i].cov, hypos[path.changed].cov)}

\* ChartTrellisPath::CreateDeviantPaths
DeviantPaths(path) ==
  UNION {{Replaced(path, node, arc) : arc \in arcs[node]} : node \in NodesToChange(path)}

\* ChartTrellisNode::GetOutputPhrase of the topmost node.
OutputPhrase(nodes) ==
  LET phrase[s \in Spans] ==
        LET h == hypos[CHOOSE i \in nodes : hypos[i].cov = s]
        IN  Words(h.rule.target, h.prev, LAMBDA id : phrase[hypos[id].cov])
  IN  phrase[<<0, SourceSize - 1>>]

OnList(path) ==
  \E i \in DOMAIN nBestList : OutputPhrase(nBestList[i].nodes) = OutputPhrase(path.nodes)

\* ChartTrellisPathCollection::Prune, as CalcNBest calls it.
PrunedContenders(paths) ==
  IF settings.distinct
  THEN IF NBestFactor = 0 THEN {paths} ELSE TopSets(paths, settings.nBestSize * NBestFactor)
  ELSE TopSets(paths, settings.nBestSize)

ListInit == Init /\ contenders = {} /\ nBestList = <<>> /\ iteration = 0

Decode == Next /\ UNCHANGED listVars

\* ChartCell::GetBestHypothesis: of the best of every label, the best one.
BestHypotheses ==
  {h \in {sorted[<<0, SourceSize - 1>>][label][1] : label \in DOMAIN LastCell} :
     \A g \in LastHypos : h.total >= g.total}

\* CalcNBest up to the main loop; without a hypothesis it returns.
StartList ==
  /\ phase = "done" /\ settings.nBest
  /\ IF LastHypos = {} THEN phase' = "returned" /\ UNCHANGED contenders
     ELSE \E h \in BestHypotheses : contenders' = {PurePath(h)} /\ phase' = "list"
  /\ UNCHANGED decoded /\ UNCHANGED <<nBestList, iteration>>

\* "factor defines stopping point for distinct n-best list if too many
\* candidates identical"; 1000 when there is no limit.
MaxIterations == settings.nBestSize * (IF NBestFactor = 0 THEN 1000 ELSE NBestFactor)

WantsMore ==
  Len(nBestList) < settings.nBestSize /\ contenders # {} /\ iteration < MaxIterations

\* The body of the main loop: "get next best from list of contenders".
Loop ==
  /\ phase = "list" /\ WantsMore
  /\ \E path \in contenders :
       /\ \A p \in contenders : p.total <= path.total
       /\ contenders' \in PrunedContenders((contenders \ {path}) \cup DeviantPaths(path))
       /\ nBestList' = IF settings.distinct /\ OnList(path) THEN nBestList
                       ELSE Append(nBestList, path)
  /\ iteration' = iteration + 1
  /\ UNCHANGED vars

EndList ==
  /\ phase = "list" /\ ~WantsMore
  /\ phase' = "returned"
  /\ UNCHANGED decoded /\ UNCHANGED listVars

\* The sentence is translated.
Returned ==
  /\ phase = IF settings.nBest THEN "returned" ELSE "done"
  /\ UNCHANGED nBestVars

ListNext ==
  \/ Decode
  \/ StartList
  \/ Loop
  \/ EndList
  \/ Returned

\* One thread decodes the sentence and calculates its list.
ListSpec == ListInit /\ [][ListNext]_nBestVars

-----------------------------------------------------------------------------
(* Properties *)

RulesOf(path) == FoldSet(LAMBDA i, sum : sum + hypos[i].rule.score, 0, path.nodes)

\* What is listed is no better than what was listed before (the asserted
\* "deltaScore <= 0.005"), and its score, though only the differences made by
\* its arcs are added up, is that of its rules and its words.  A hypothesis is
\* only replaced by one that scores the words around it in the same way
\* (LanguageModelChartState::Compare).  No derivation is a contender or on the
\* list twice (CreateDeviantPaths), and the list of distinct translations has none
\* twice.
NBestScoresAreTrue ==
  /\ phase = "returned" =>
       \A i \in DOMAIN nBestList :
         /\ nBestList[i].total
              = RulesOf(nBestList[i]) + SentenceScore(OutputPhrase(nBestList[i].nodes))
         /\ i > 1 => nBestList[i].total <= nBestList[i - 1].total
  /\ \A p, q \in contenders : p # q => p.nodes # q.nodes
  /\ \A i \in DOMAIN nBestList :
       /\ \A p \in contenders : p.nodes # nBestList[i].nodes
       /\ \A j \in DOMAIN nBestList \ {i} :
            /\ nBestList[i].nodes # nBestList[j].nodes
            /\ settings.distinct =>
                 OutputPhrase(nBestList[i].nodes) # OutputPhrase(nBestList[j].nodes)
=============================================================================
