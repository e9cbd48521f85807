------------------------------ MODULE NBestList ------------------------------
(***************************************************************************)
(* Manager::CalcNBest: the best paths of the search graph.                 *)
(*                                                                         *)
(* When the search (module SearchNormal) has returned, the hypotheses on   *)
(* the last stack, followed back to the seed, are the first contenders.    *)
(* Again and again the best contender is moved to the list, and the paths  *)
(* that deviate from it by one arc become contenders.                      *)
(*                                                                         *)
(* A TrellisPath is the record                                             *)
(*   nodes   m_path: the ids of its hypotheses, the last one first         *)
(*   edge    m_prevEdgeChanged: where it deviates, or NotFound             *)
(*   total   m_totalScore                                                  *)
(***************************************************************************)
EXTENDS SearchNormal

CONSTANT NBestFactor   \* GetNBestFactor, 0: no limit

ASSUME NBestFactorAssumption == NBestFactor \in Nat

VARIABLES winner,     \* winner[i]: m_winningHypo of hypos[i], or NotSet
          contenders, \* contenders
          nBestList,  \* ret
          iteration,
          listed,     \* "no": not called yet, "loop": in the main loop, "yes": returned
          undefined   \* m_winningHypo was read without having been set

NotSet == 0   \* the constructors leave m_winningHypo as it is

listVars  == <<contenders, nBestList, iteration, listed, undefined>>
nBestVars == <<options, futureScore, hypos, stacks, arcs, freed, current, expanding,
               todo, base, toTry, actual, interrupted, done, winner,
               contenders, nBestList, iteration, listed, undefined>>

\* The hypotheses from id back to the seed.
BackPath(id) ==
  LET back[i \in 1 .. Len(hypos)] ==
        IF hypos[i].prev = 0 THEN <<i>> ELSE <<i>> \o back[hypos[i].prev]
  IN  back[id]

\* Mutant: the arc's score is added to the winner's.
SumOfScores(nodes) ==
  FoldLeft(LAMBDA total, id : IF winner[id] = id THEN total ELSE total + hypos[id].total,
           hypos[winner[Head(nodes)]].total, nodes)

\* TrellisPath::InitScore: the score of the winner of the last hypothesis, with
\* the difference that every arc on the path makes.
InitScore(nodes) ==
  FoldLeft(LAMBDA total, id : total - hypos[winner[id]].total + hypos[id].total,
           hypos[winner[Head(nodes)]].total, nodes)

PurePath(h) == [nodes |-> BackPath(h.id), edge |-> NotFound, total |-> h.total]

DeviationNodes(path, edge, arc) == SubSeq(path.nodes, 1, edge - 1) \o BackPath(arc.id)

\* The paths that replace one hypothesis by one of its arcs, and what is before
\* it by the predecessors of the arc.
Deviations(path, edge) == {DeviationNodes(path, edge, arc) : arc \in arcs[path.nodes[edge]]}

\* Only edges behind the one changed last, so that no path is built twice.
EdgesToChange(path) ==
  IF path.edge = NotFound THEN DOMAIN path.nodes ELSE path.edge + 1 .. Len(path.nodes)

\* TrellisPath::CreateDeviantPaths: pairs of nodes and the edge changed.
DeviantNodes(path) ==
  UNION {{<<nodes, edge>> : nodes \in Deviations(path, edge)} : edge \in EdgesToChange(path)}

DeviantPaths(deviants) ==
  {[nodes |-> d[1], edge |-> d[2], total |-> InitScore(d[1])] : d \in deviants}

\* TrellisPath::GetSurfacePhrase: the seed has no words.
SurfacePhrase(path) ==
  [i \in 1 .. Len(path.nodes) - 1 |-> hypos[path.nodes[Len(path.nodes) - i]].word]

\* "factor defines stopping point for distinct n-best list if too many
\* candidates identical"; 1000 when there is no limit.
MaxIterations == settings.nBestSize * (IF NBestFactor = 0 THEN 1000 ELSE NBestFactor)

\* TrellisPathCollection::Prune, as CalcNBest calls it.
PrunedContenders(paths) ==
  IF settings.distinct
  THEN IF NBestFactor = 0 THEN {paths} ELSE TopSets(paths, settings.nBestSize * NBestFactor)
  ELSE TopSets(paths, settings.nBestSize)

ListInit ==
  /\ Init
  /\ winner = [i \in 1 .. MaxHypos |-> NotSet]
  /\ contenders = {} /\ nBestList = <<>> /\ iteration = 0
  /\ listed = "no" /\ undefined = FALSE

\* Hypothesis::CleanupArcList of the stack whose turn begins: every hypothesis
\* is its own winner and that of its arcs.
SetWinningHypo(stack, lists) ==
  [i \in 1 .. MaxHypos |->
     IF \E h \in stack.hypos : h.id = i THEN i
     ELSE IF \E h \in stack.hypos : \E a \in lists[h.id] : a.id = i
     THEN (CHOOSE h \in stack.hypos : \E a \in lists[h.id] : a.id = i).id
     ELSE winner[i]]

\* A step of the search.
Search ==
  /\ Next
  /\ winner' = IF expanding' /\ ~expanding /\ settings.nBest
               THEN SetWinningHypo(stacks'[current], arcs') ELSE winner
  /\ UNCHANGED listVars

\* CalcNBest up to the main loop: "add all pure paths".
StartList ==
  /\ done /\ listed = "no" /\ settings.nBest
  /\ listed' = "loop"
  /\ contenders' = {PurePath(h) : h \in stacks[SourceSize].hypos}
  /\ UNCHANGED vars /\ UNCHANGED <<winner, nBestList, iteration, undefined>>

WantsMore ==
  /\ Len(nBestList) < settings.nBestSize
  /\ contenders # {}
  /\ iteration < MaxIterations

\* InitScore reads the winner of every hypothesis of a path.
WinnersSet(deviants) ==
  \A d \in deviants : \A i \in DOMAIN d[1] : winner[d[1][i]] # NotSet

OnList(path) ==
  \E i \in DOMAIN nBestList : SurfacePhrase(nBestList[i]) = SurfacePhrase(path)

\* The body of the main loop: "get next best from list of contenders".
NextBest(path, deviants) ==
  /\ WinnersSet(deviants)
  /\ \E kept \in PrunedContenders((contenders \ {path}) \cup DeviantPaths(deviants)) :
       contenders' = kept
  /\ nBestList' = IF settings.distinct /\ OnList(path) THEN nBestList ELSE Append(nBestList, path)
  /\ iteration' = iteration + 1
  /\ UNCHANGED <<listed, undefined>>

\* The score of a deviation is computed through a pointer that was never set:
\* what follows is undefined.
ReadUnset(deviants) ==
  /\ ~WinnersSet(deviants)
  /\ undefined' = TRUE /\ listed' = "yes"
  /\ UNCHANGED <<contenders, nBestList, iteration>>

Loop ==
  /\ listed = "loop" /\ WantsMore
  /\ \E path \in contenders :
       /\ \A p \in contenders : p.total <= path.total
       /\ \E deviants \in {DeviantNodes(path)} : NextBest(path, deviants) \/ ReadUnset(deviants)
  /\ UNCHANGED vars /\ UNCHANGED winner

EndList ==
  /\ listed = "loop" /\ ~WantsMore
  /\ listed' = "yes"
  /\ UNCHANGED vars /\ UNCHANGED <<winner, contenders, nBestList, iteration, undefined>>

ListNext ==
  \/ Search
  \/ StartList
  \/ Loop
  \/ EndList

\* One thread decodes the sentence and calculates its list.
ListSpec == ListInit /\ [][ListNext]_nBestVars /\ WF_nBestVars(ListNext)

-----------------------------------------------------------------------------
(* Properties *)

Listed == listed = "yes" /\ ~undefined

Derivations == DerivationsOf(options)

\* Stacks and beam too large to prune anything.
NeverPrunes == settings.maxSize >= MaxHypos /\ settings.beam <= NegInf

\* Stacks and beam too large to prune anything: recombination alone loses
\* nothing, the best hypothesis is the best of all derivations
\* (Hypothesis::RecombineCompare, HypothesisStackNormal::AddPrune).
OptimumFound ==
  Listed /\ ~interrupted /\ NeverPrunes =>
    Max({h.total : h \in stacks[SourceSize].hypos}) = Max({d.score : d \in Derivations})

\* The paths that the predecessors and the arc lists of a hypothesis lead back
\* along, the search graph that Manager::CalcNBest walks.
Paths ==
  LET of[id \in 1 .. Len(hypos)] ==
        IF hypos[id].prev = 0 THEN {<<>>}
        ELSE UNION {{Append(p, h.option) : p \in of[h.prev]} : h \in {hypos[id]} \cup arcs[id]}
  IN  UNION {of[h.id] : h \in stacks[SourceSize].hypos}

\* With n-best lists enabled and nothing pruned, recombination keeps every
\* derivation in the search graph, and invents none (Hypothesis::AddArc).
GraphComplete ==
  Listed /\ ~interrupted /\ NeverPrunes /\ settings.distinct => Paths = {d.path : d \in Derivations}

\* The options along a path, from the start of the translation.
OptionsOf(path) ==
  [i \in 1 .. Len(path.nodes) - 1 |-> hypos[path.nodes[Len(path.nodes) - i]].option]

\* The words of a derivation.
WordsOf(d) == [i \in DOMAIN d.path |-> options[d.path[i]].word]

\* CalcNBest, from end to end: when nothing was pruned, the list holds the best
\* derivations of the sentence, with their scores, best first; recombination,
\* the cleaning of arc lists and the pruning of contenders lose none that
\* belongs on it.  A list of distinct translations may end early when too many
\* paths have the same words.  Whatever was pruned, no path is a contender or on
\* the list twice (CreateDeviantPaths).
NBestIsBest ==
  /\ Listed /\ ~interrupted /\ NeverPrunes =>
       LET all    == Derivations
           list   == [i \in DOMAIN nBestList |->
                        CHOOSE d \in all : d.path = OptionsOf(nBestList[i])]
           Key(d) == IF settings.distinct THEN WordsOf(d) ELSE d.path
           keys   == {Key(list[i]) : i \in DOMAIN list}
       IN  /\ \A i \in DOMAIN list : list[i].score = nBestList[i].total
           /\ \A i \in 2 .. Len(list) : list[i].score <= list[i - 1].score
           /\ iteration < MaxIterations =>
                \A d \in {d \in all : Key(d) \notin keys} :
                  Len(list) = settings.nBestSize /\ d.score <= list[Len(list)].score
  /\ \A p, q \in contenders : p # q => p.nodes # q.nodes
  /\ \A i \in DOMAIN nBestList :
       /\ \A p \in contenders : p.nodes # nBestList[i].nodes
       /\ \A j \in DOMAIN nBestList : i # j => nBestList[i].nodes # nBestList[j].nodes

\* The search ends, and then the list does.
ListReturned == <>(done /\ (settings.nBest => listed = "yes"))
=============================================================================
