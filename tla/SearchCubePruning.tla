-------------------------- MODULE SearchCubePruning --------------------------
(***************************************************************************)
(* SearchCubePruning::ProcessSentence: the cube pruning search of one      *)
(* sentence.                                                               *)
(*                                                                         *)
(* The hypotheses of a stack are grouped by coverage in BitmapContainers.  *)
(* A BackwardsEdge leads from the container of a coverage to the one that  *)
(* has a span more translated; it is a grid of the hypotheses of the       *)
(* former, best first, and the translation options of the span, best       *)
(* first.  Each container has a priority queue of hypotheses made from     *)
(* positions of its edges' grids.  The best one of all queues of the stack *)
(* is popped, goes on the stack, and the hypotheses next to it in the grid *)
(* are made and queued, until the pop limit is reached.                    *)
(*                                                                         *)
(* An edge is named by the triple <<cov, s, e>>: coverage before, span.    *)
(***************************************************************************)
EXTENDS HypothesisScoring, HypothesisStackCubePruning

CONSTANTS CubeSettings,  \* records of popLimit and diversity, the options
                         \* -cube-pruning-pop-limit and -cube-pruning-diversity
          PositionBits,  \* 16 in the code
          TimeLimit,     \* option -time-out is set
          MaxHypos       \* bound: hypotheses created, beyond what any instance needs

ASSUME CubeAssumption ==
  /\ CubeSettings \subseteq [popLimit : Nat, diversity : Nat]
  /\ PositionBits \in Nat \ {0}

\* There is room for the seed.
ASSUME BoundAssumption == MaxHypos \in Nat \ {0}

\* A stack may see any coverage.
ASSUME CoveragesAssumption == SUBSET Positions \subseteq Coverages

VARIABLES options,      \* m_transOptColl
          futureScore,  \* its future score matrix
          cube,         \* the settings of this search
          hypos,        \* all hypotheses created; hypos[i].id = i
          stacks,       \* m_hypoStackColl
          arcs,         \* arcs[i]: m_arcList of hypos[i]
          freed,        \* deleted hypotheses
          containers,   \* m_bitmapAccessor of all stacks: coverage -> container
          edges,        \* the BackwardsEdges: name -> edge
          current,      \* the stack whose turn it is
          popping,      \* InitializeEdges is done for it
          bcQueue,      \* BCQueue: coverages of the containers in it
          numPops,      \* numpops, those done
          result        \* "running", "done" or "timeout"

vars == <<options, futureScore, cube, hypos, stacks, arcs, freed, containers, edges,
          current, popping, bcQueue, numPops, result>>

sentence == <<options, futureScore, cube>>

NewContainer == [queue |-> {}, hypotheses |-> {}, insertions |-> 0]

Target(edge) == edge[1] \cup (edge[2] .. edge[3])

\* The translation options of an edge's span.
OptionsOf(edge) ==
  {i \in 1 .. Len(options) : options[i].s = edge[2] /\ options[i].e = edge[3]}

\* TranslationOptionCollection::Sort compares the scores; the order of options with
\* the same score, which std::sort leaves open, is that of their numbers.
Precedes(i, j) ==
  \/ options[i].score > options[j].score
  \/ options[i].score = options[j].score /\ i < j

\* The options of a span, best first.
Translations(edge) ==
  [n \in 1 .. Cardinality(OptionsOf(edge)) |->
     CHOOSE i \in OptionsOf(edge) : Cardinality({j \in OptionsOf(edge) : Precedes(j, i)}) = n - 1]

-----------------------------------------------------------------------------
(* Which edges there are *)

\* Mutant: only the jump to the phrase is limited.
AnyJumpBack(cov, s, e) == Check(ConstraintOf[options], cov, s, e, MaxDistortion)

\* SearchCubePruning::CheckDistortion, which begins with the reordering constraint
\* of the sentence.
CheckDistortion(cov, s, e) ==
  /\ Check(ConstraintOf[options], cov, s, e, MaxDistortion)
  /\ \/ MaxDistortion < 0
     \/ s = FirstGapPos(cov)
     \/ DistortionDistance(Span(s, e), Span(FirstGapPos(cov), FirstGapPos(cov))) <= MaxDistortion

\* The spans CreateForwardTodos tries for a container with hypotheses.
ForwardEdges(cov) ==
  {<<cov, span[1], span[2]>> : span \in {span \in OptionSpans :
                                            /\ span[2] - span[1] < MaxPhraseLength
                                            /\ ~Overlap(cov, span[1], span[2])
                                            /\ CheckDistortion(cov, span[1], span[2])}}

\* Constructor of BackwardsEdge: the hypotheses that may jump to the span.
InReach(h, s) ==
  \/ MaxDistortion = -1
  \/ IF h.cov = {} THEN s <= MaxDistortion
                   ELSE DistortionDistance(h.range, Span(s, s)) <= MaxDistortion

\* CreateForwardTodos of a finished stack, from its hypotheses H: containers
\* get their hypotheses, and their edges and the containers at the end of these
\* are made.
ForwardTodos(H) ==
  \E newEdges \in {UNION {ForwardEdges(cov) : cov \in {h.cov : h \in H}}} :
    /\ containers' =
         [cov \in DOMAIN containers \cup {Target(edge) : edge \in newEdges} |->
            IF cov \in DOMAIN containers
            THEN [containers[cov] EXCEPT !.hypotheses = @ \cup {h \in H : h.cov = cov}]
            ELSE NewContainer]
    /\ edges' =
         [edge \in DOMAIN edges \cup newEdges |->
            IF edge \in DOMAIN edges THEN edges[edge]
            ELSE [candidates |-> {h \in H : h.cov = edge[1] /\ InReach(h, edge[2])},
                  hypotheses |-> <<>>, seen |-> {}, initialized |-> FALSE]]

\* HypothesisScoreOrdererWithDistortion; without a distortion limit the edge
\* keeps the order of the container.
EdgeScore(h, edge) ==
  IF MaxDistortion = -1 THEN h.total
  ELSE h.score + DistortionScore(h.range, Span(edge[2], edge[3]))

\* The candidates of an edge in order; ties are in the order of the addresses.
Orders(edge) ==
  {order \in SetToSeqs(edges[edge].candidates) :
     \A i, j \in DOMAIN order : i < j => EdgeScore(order[i], edge) >= EdgeScore(order[j], edge)}

-----------------------------------------------------------------------------
(* The search *)

Init ==
  /\ options \in OptionLists
  /\ futureScore = FutureScoreMatrix(OptionScoresOf(options))
  /\ cube \in CubeSettings
  /\ hypos = <<Seed>>
  /\ arcs = [i \in 1 .. MaxHypos |-> {}]
  /\ \E option \in Settings :
       stacks = [k \in 0 .. SourceSize |->
                   IF k = 0 THEN Inserted(EmptyStack(option), Seed) ELSE EmptyStack(option)]
  /\ freed = {}
  /\ containers = [cov \in {{}} |-> NewContainer]
  /\ edges = <<>>
  /\ current = 0 /\ popping = TRUE /\ bcQueue = {} /\ numPops = 0
  /\ result = "running"

settings == stacks[SourceSize].settings

Accessor(k) == {cov \in DOMAIN containers : Cardinality(cov) = k}

\* The edges into the containers of the current stack.
EdgesHere == {edge \in DOMAIN edges : Cardinality(Target(edge)) = current}

\* The head of the loop over the stacks: the time is up.
TimeOut ==
  /\ TimeLimit /\ result = "running"
  /\ current > 0 /\ ~popping
  /\ \A edge \in EdgesHere : ~edges[edge].initialized
  /\ result' = "timeout"
  /\ UNCHANGED <<sentence, hypos, stacks, arcs, freed, containers, edges, current, popping,
                 bcQueue, numPops>>

\* Mutant: the coordinates run into each other.
SumOfPosition(x, y) == x + y

\* SeenPosition's key: (x<<16) + y in an int of 32 bits.
PositionKey(x, y) == (x * 2 ^ PositionBits + y) % 2 ^ (2 * PositionBits)

\* The hypotheses made from positions of a grid, in order, as queue items.
Items(edge, order, positions) ==
  [n \in DOMAIN positions |->
    [edge |-> edge, x |-> positions[n][1], y |-> positions[n][2],
     hypo |-> NextHypothesis(options, futureScore, Len(hypos) + n, order[positions[n][1] + 1],
                             Translations(edge)[positions[n][2] + 1])]]

\* CreateHypothesis: hypotheses have their numbers in the order of their creation.
Created(items) == hypos' = hypos \o [n \in DOMAIN items |-> items[n].hypo]

Keys(positions) == {PositionKey(p[1], p[2]) : p \in ToSet(positions)}

\* CreateHypothesis and Enqueue.
Enqueue(cov, items, queue) ==
  /\ Created(items)
  /\ containers' = [containers EXCEPT ![cov].queue = queue \cup ToSet(items)]

\* BackwardsEdge::Initialize, called by InitializeEdges for the next edge; the
\* order of the edges gives the hypotheses their numbers and no more.
InitializeEdge ==
  /\ result = "running" /\ ~popping
  /\ \E pending \in {{edge \in EdgesHere : ~edges[edge].initialized}} :
       /\ pending # {}
       /\ \E edge \in {CHOOSE edge \in pending : TRUE} :
            \E order \in Orders(edge) :
              \E start \in {IF order = <<>> THEN <<>> ELSE <<<<0, 0>>>>} :
                /\ Len(hypos) < MaxHypos
                /\ Enqueue(Target(edge), Items(edge, order, start), containers[Target(edge)].queue)
                /\ edges' = [edges EXCEPT ![edge].hypotheses = order, ![edge].initialized = TRUE,
                                          ![edge].seen = Keys(start)]
  /\ UNCHANGED <<sentence, stacks, arcs, freed, current, popping, bcQueue, numPops, result>>

\* All containers of the stack go on BCQueue, empty ones too.
StartPopping ==
  /\ result = "running" /\ ~popping
  /\ \A edge \in EdgesHere : edges[edge].initialized
  /\ popping' = TRUE
  /\ bcQueue' = Accessor(current)
  /\ numPops' = 0
  /\ UNCHANGED <<sentence, hypos, stacks, arcs, freed, containers, edges, current, result>>

\* The best hypotheses of a container's queue.
Tops(cov) ==
  LET queue == containers[cov].queue
  IN  {item \in queue : \A other \in queue : item.hypo.total >= other.hypo.total}

\* PushSuccessors: the positions next to the item's that are queued with it.
Successors(edge, item) ==
  LET Visited(x, y) ==
        IF /\ x < Len(edges[edge].hypotheses) /\ y < Len(Translations(edge))
           /\ PositionKey(x, y) \notin edges[edge].seen
        THEN <<<<x, y>>>> ELSE <<>>
  IN  Visited(item.x, item.y + 1) \o Visited(item.x + 1, item.y)

\* BitmapContainer::ProcessBestHypothesis of a container with a queue.
ProcessBestHypothesis(cov) ==
  \E item \in Tops(cov) :
    \E next \in {Successors(item.edge, item)} :
      \E items \in {Items(item.edge, edges[item.edge].hypotheses, next)} :
        \E o \in UNION {AddPruneCube(stack, arcs, item.hypo) : stack \in {stacks[current]}} :
          /\ Len(hypos) + 2 <= MaxHypos
          /\ stacks' = [stacks EXCEPT ![current] = o.stack]
          /\ arcs' = o.arcs
          /\ freed' = freed \cup o.freed
          /\ Created(items)
          /\ containers' = [containers EXCEPT
               ![cov].queue = (@ \ {item}) \cup ToSet(items),
               ![cov].insertions = IF o.inserted THEN @ + 1 ELSE @]
          /\ edges' = [edges EXCEPT
               ![item.edge].seen = @ \cup Keys(next)]

\* BitmapContainerOrderer: by the best hypothesis, empty containers last.
NotWorse(cov, other) ==
  \/ containers[other].queue = {}
  \/ \E a \in Tops(cov), b \in Tops(other) : a.hypo.total >= b.hypo.total

WantsPop == numPops < cube.popLimit /\ bcQueue # {}

\* One iteration of the main search loop.
Pop ==
  /\ result = "running" /\ popping /\ WantsPop
  /\ \E cov \in bcQueue :
       /\ \A other \in bcQueue : NotWorse(cov, other)
       /\ IF containers[cov].queue = {}
          THEN UNCHANGED <<hypos, stacks, arcs, freed, containers, edges>>
          ELSE ProcessBestHypothesis(cov)
       /\ bcQueue' = IF containers'[cov].queue = {} THEN bcQueue \ {cov} ELSE bcQueue
  /\ numPops' = numPops + 1
  /\ UNCHANGED <<sentence, current, popping, result>>

\* Mutant: empty queues are not left out.
TooFewInserted ==
  {cov \in Accessor(current) : containers[cov].insertions < cube.diversity}

\* EnsureMinStackHyps: containers that have put too few hypotheses on the stack.
TooFew ==
  {cov \in Accessor(current) :
     containers[cov].queue # {} /\ containers[cov].insertions < cube.diversity}

\* The order of m_bitmapAccessor, WordsBitmap::Compare.
BitmapBefore(a, b) ==
  LET differ == (a \ b) \cup (b \ a) IN differ # {} /\ Least(differ) \in b

\* EnsureMinStackHyps, container by container.
EnsureDiversity ==
  /\ result = "running" /\ popping /\ ~WantsPop
  /\ \E cov \in TooFew :
       /\ \A other \in TooFew \ {cov} : BitmapBefore(cov, other)
       /\ ProcessBestHypothesis(cov)
  /\ UNCHANGED <<sentence, current, popping, bcQueue, numPops, result>>

\* Mutant: the stack before it is pruned.
ForwardedBeforePruning(before, finished) == before.hypos

\* AddHypothesesToBitmapContainers: what the containers get of a stack.
Forwarded(before, finished) == finished.hypos

\* The rest of the stack's turn: PruneToSize, CleanupArcList,
\* CreateForwardTodos, and on to the next one.
FinishStack ==
  /\ result = "running" /\ popping /\ ~WantsPop /\ TooFew = {}
  /\ \E p \in PruneCubeToSize(stacks[current], arcs, settings.maxSize) :
       \E q \in CleanupArcList(p.stack, p.arcs) :
         /\ stacks' = [stacks EXCEPT ![current] = q.stack]
         /\ arcs' = q.arcs
         /\ freed' = freed \cup p.freed \cup q.freed
         /\ ForwardTodos(Forwarded(stacks[current], q.stack))
  /\ IF current = SourceSize THEN result' = "done" /\ UNCHANGED current
                             ELSE current' = current + 1 /\ UNCHANGED result
  /\ popping' = FALSE /\ bcQueue' = {} /\ numPops' = 0
  /\ UNCHANGED <<sentence, hypos>>

Next ==
  \/ TimeOut
  \/ InitializeEdge
  \/ StartPopping
  \/ Pop
  \/ EnsureDiversity
  \/ FinishStack

\* One thread runs ProcessSentence to its end.
Spec == Init /\ [][Next]_vars /\ WF_vars(Next)

-----------------------------------------------------------------------------
(* Properties *)

Live    == UNION {stacks[k].hypos : k \in 0 .. SourceSize}
Queued  == UNION {{item.hypo : item \in containers[cov].queue} : cov \in DOMAIN containers}
OnEdges == UNION {edges[edge].candidates : edge \in DOMAIN edges}
LastStack == stacks[SourceSize].hypos

\* Whatever the pop limit, the stack size and the beam: a search that is not
\* interrupted ends with a translation.  The containers, which know coverages
\* only, and the edges, which know the last phrases, together leave every
\* hypothesis a way to go on (CheckDistortion, BackwardsEdge's constructor).
TranslationFound == result = "done" /\ cube.popLimit > 0 => LastStack # {}

\* Neither the pop limit nor the stacks leave anything out.
Exhaustive ==
  /\ result = "done" /\ cube.popLimit >= MaxHypos
  /\ settings.maxSize >= MaxHypos /\ settings.beam <= NegInf

\* Without limits, cube pruning is as good as the search of SearchNormal: the
\* grids are walked completely, and the best hypothesis is the best of all
\* derivations (PushSuccessors, HypothesisStackCubePruning::AddPrune).
OptimumFound ==
  Exhaustive => Max({h.total : h \in LastStack}) = Max({d.score : d \in DerivationsOf(options)})

\* The search graph: the options along predecessors and arcs.
Paths ==
  LET of[id \in 1 .. Len(hypos)] ==
        IF hypos[id].prev = 0 THEN {<<>>}
        ELSE UNION {{Append(p, h.option) : p \in of[h.prev]} : h \in {hypos[id]} \cup arcs[id]}
  IN  UNION {of[h.id] : h \in LastStack}

\* Without limits the search graph holds every derivation, and no other; and
\* whatever the limits, no position of a grid is visited twice and no two edges
\* lead to the same hypothesis: nothing is made of the same predecessor and option
\* twice (BackwardsEdge::SeenPosition).
GraphComplete ==
  /\ Exhaustive /\ settings.nBest /\ settings.distinct =>
       Paths = {d.path : d \in DerivationsOf(options)}
  /\ \A i, j \in DOMAIN hypos :
       i # j => <<hypos[i].prev, hypos[i].option>> # <<hypos[j].prev, hypos[j].option>>

\* Whatever a step deletes, keeps or forgets: every hypothesis has exactly one
\* owner that will delete it, a queue (~BitmapContainer), a stack, the arc list of
\* one hypothesis, or it is deleted; and the edges and the predecessors of what
\* is in use point to nothing that was deleted.
OwnedOnce ==
  LET owners(h) == {<<"queue", cov>> : cov \in {cov \in DOMAIN containers :
                                          \E item \in containers[cov].queue : item.hypo = h}}
                   \cup {<<"stack", k>> : k \in {k \in 0 .. SourceSize : h \in stacks[k].hypos}}
                   \cup {<<"arc", i>> : i \in {i \in DOMAIN arcs : h \in arcs[i]}}
                   \cup (IF h \in freed THEN {<<"freed">>} ELSE {})
  IN  /\ \A h \in ToSet(hypos) : Cardinality(owners(h)) = 1
      /\ OnEdges \cap freed = {}
      /\ \A h \in Live \cup Queued : h.prev # 0 => hypos[h.prev] \notin freed

\* The search ends.
SearchReturns == <>(result # "running")
=============================================================================
