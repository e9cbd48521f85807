--------------------------- MODULE HypothesisStack ---------------------------
(***************************************************************************)
(* HypothesisStackNormal: one stack of the phrase-based search, with its   *)
(* pruning, recombination and ownership of hypotheses.                     *)
(*                                                                         *)
(* A stack is the record                                                   *)
(*   hypos        m_hypos, the hypotheses on the stack                     *)
(*   best, worst  m_bestScore, m_worstScore                                *)
(*   covWorst     m_diversityWorstScore; NegInf where the map has no entry *)
(*   settings     the options it was built with: maxSize and diversity (its *)
(*                m_maxHypoStackSize and m_minHypoStackDiversity), beam (a  *)
(*                logarithm), nBest (m_nBestIsEnabled), nBestSize, distinct *)
(*                (more than nBestSize paths may be needed)                 *)
(* A hypothesis is a record; what the stack reads of it is                 *)
(*   total        GetTotalScore, an integer                                *)
(*   cov          m_sourceCompleted                                        *)
(*   state        m_ffStates, what the stateful features remember          *)
(*   id           m_id                                                     *)
(* (module SearchNormal adds more fields).                                 *)
(*                                                                         *)
(* Every operation returns the set of its possible outcomes, records with  *)
(*   stack        the stack afterwards                                     *)
(*   arcs         arcs[i]: the m_arcList of the hypothesis with id i       *)
(*   freed        the hypotheses deleted by FREEHYPO                       *)
(* Several outcomes differ only in which of several hypotheses with the    *)
(* same score is pruned: sort and nth_element leave that open.             *)
(***************************************************************************)
EXTENDS Scores, FiniteSets, FiniteSetsExt

CONSTANTS Coverages,         \* coverage bitmaps
          Settings,          \* the settings the decoder is run with
          StackDistortion,   \* GetMaxDistortion, as far as diversity is used
          ArcFactor,         \* 5 in the code, smaller in the instances checked
          DisableDiscarding  \* option -disable-discarding

\* A stack of size 0 makes the tolerated size of Add wrap around, a beam ratio
\* of 1 prunes the best hypothesis too, diversity shifts by the distortion
\* limit, and arcs are cleaned up for a list of at least one path: none of the
\* other values is a setting the search is meant for.
ASSUME StackAssumption ==
  /\ Settings \subseteq [maxSize : Nat \ {0}, beam : Int, diversity : Nat, nBest : BOOLEAN,
                         nBestSize : Nat, distinct : BOOLEAN]
  /\ \A o \in Settings : /\ o.beam < 0
                         /\ o.nBest /\ ~o.distinct => o.nBestSize > 0
  /\ StackDistortion \in Nat
  /\ DisableDiscarding \in BOOLEAN
  /\ ArcFactor \in Nat \ {0}

\* Mutant: the feature states are not compared.
EquivalentCoverage(g, h) == g.cov = h.cov

\* RecombineCompare = 0.
Equivalent(g, h) == g.cov = h.cov /\ g.state = h.state

EmptyStack(settings) ==
  [hypos |-> {}, best |-> NegInf, worst |-> NegInf,
   covWorst |-> [c \in Coverages |-> NegInf], settings |-> settings]

Outcome(stack, arcs, freed) == [stack |-> stack, arcs |-> arcs, freed |-> freed]

\* FREEHYPO of the hypotheses H: ~Hypothesis deletes the arcs too.
WithArcs(arcs, H) == H \cup UNION {arcs[h.id] : h \in H}

\* Prune the stack's hypotheses from old to stack.hypos.
Freeing(stack, arcs, old) ==
  LET freed == WithArcs(arcs, old \ stack.hypos)
  IN  Outcome(stack, [i \in DOMAIN arcs |->
                        IF i \in {h.id : h \in freed} THEN {} ELSE arcs[i]], freed)

\* The k first elements of H in an order, in every way to break ties; Better(g, h)
\* is strict.
FirstSets(H, k, Better(_, _)) ==
  LET sure == {h \in H : Cardinality({g \in H : ~Better(h, g)}) <= k}
      tied == {h \in H \ sure : Cardinality({g \in H : Better(g, h)}) < k}
  IN  {sure \cup T : T \in kSubset(IF k < Cardinality(H) THEN k - Cardinality(sure) ELSE 0, tied)}

\* Mutant: sorted the other way round.
WorstSets(H, k) == FirstSets(H, k, LAMBDA g, h : g.total < h.total)

\* The k hypotheses of H with the best scores, in every way to break ties.
TopSets(H, k) == FirstSets(H, k, LAMBDA g, h : g.total > h.total)

LeastScore(H) == Min({h.total : h \in H})

\* PruneToSize: "add best hyps for each coverage according to minStackDiversity"
DiverseSets(H, diversity) ==
  {D \in SUBSET H : \A c \in {h.cov : h \in H} :
     {h \in D : h.cov = c}
       \in TopSets({h \in H : h.cov = c}, diversity)}

\* SetWorstScoreForBitmap for the coverages whose quota is used up by D.
QuotaScores(stack, D) ==
  [c \in Coverages |->
     LET ofCov == {h \in D : h.cov = c}
     IN  IF stack.settings.diversity > 0 /\ Cardinality(ofCov) = stack.settings.diversity
         THEN LeastScore(ofCov) ELSE stack.covWorst[c]]

\* Mutant: the diverse hypotheses do not count.
RoomForgetsDiverse(newSize, D) == newSize

\* PruneToSize: "only add more if stack not full after satisfying minStackDiversity".
Room(newSize, D) == IF Cardinality(D) < newSize THEN newSize - Cardinality(D) ELSE 0

\* PruneToSize: the best hypotheses of each coverage stay; then, while the
\* stack is not full, the best of the others within the beam.
PruneToSize(stack, arcs, newSize) ==
  IF Cardinality(stack.hypos) <= newSize THEN {Outcome(stack, arcs, {})}
  ELSE
    LET InBeam(D) == {h \in stack.hypos \ D : h.total > stack.best + stack.settings.beam}
        Pruned(D, F) ==
          [stack EXCEPT
             !.hypos    = D \cup F,
             !.worst    = IF F # {} /\ Cardinality(D \cup F) = newSize
                          THEN LeastScore(F) ELSE stack.worst,
             !.covWorst = QuotaScores(stack, D)]
    IN  UNION {{Freeing(Pruned(D, F), arcs, stack.hypos) : F \in TopSets(InBeam(D), Room(newSize, D))} :
               D \in DiverseSets(stack.hypos, stack.settings.diversity)}

\* Add: the size that makes the lazy pruning start.
ToleratedSize(settings) ==
  2 * settings.maxSize - 1 + settings.diversity * 2 ^ StackDistortion

\* Add: "this may also affect the worst score".
RaisedWorst(stack, best) ==
  IF best + stack.settings.beam > stack.worst THEN best + stack.settings.beam ELSE stack.worst

\* Add, for a hypothesis without an equivalent one on the stack.
Add(stack, arcs, h) ==
  LET isBest  == h.total > stack.best
      best    == IF isBest THEN h.total ELSE stack.best
      c       == h.cov
      added   == [stack EXCEPT
                    !.hypos = @ \cup {h},
                    !.best  = best,
                    !.worst = IF isBest THEN RaisedWorst(stack, best) ELSE @,
                    !.covWorst[c] = IF stack.settings.diversity = 1 /\ h.total > @
                                    THEN h.total ELSE @]
  IN  IF Cardinality(added.hypos) > ToleratedSize(stack.settings)
      THEN PruneToSize(added, arcs, stack.settings.maxSize)
      ELSE {Outcome(added, arcs, {})}

\* Mutant: no exception for a coverage with room left.
TooBadForStackOnly(stack, h) == ~DisableDiscarding /\ h.total < stack.worst

\* Mutant: compared with the best score.
NotBest(stack, h) == ~DisableDiscarding /\ h.total < stack.best

\* AddPrune's first test: too bad for the stack and for its coverage.
TooBad(stack, h) ==
  /\ ~DisableDiscarding
  /\ h.total < stack.worst
  /\ ~ (stack.settings.diversity > 0 /\ h.total >= stack.covWorst[h.cov])

\* Mutant: the loser's own arcs stay with the loser.
AddLoserOnly(arcs, winner, loser) == [arcs EXCEPT ![winner.id] = @ \cup {loser}]

\* AddArc: the winner takes over the arcs of the loser, then the loser.
AddArc(arcs, winner, loser) ==
  [arcs EXCEPT ![winner.id] = @ \cup arcs[loser.id] \cup {loser}, ![loser.id] = {}]

Beats(h, g) == h.total > g.total

\* AddPrune, when g is equivalent to h and on the stack: the better one stays.
Recombine(stack, arcs, h, g) ==
  IF Beats(h, g)
  THEN LET without == [stack EXCEPT !.hypos = @ \ {g}]
       IN  IF stack.settings.nBest
           THEN Add(without, AddArc(arcs, h, g), h)
           ELSE {[o EXCEPT !.freed = @ \cup {g}] : o \in Add(without, arcs, h)}
  ELSE IF stack.settings.nBest
       THEN {Outcome(stack, AddArc(arcs, g, h), {})}
       ELSE {Outcome(stack, arcs, {h})}

AddPrune(stack, arcs, h) ==
  LET equivalent == {g \in stack.hypos : Equivalent(g, h)}
  IN  IF TooBad(stack, h) THEN {Outcome(stack, arcs, {h})}
      ELSE IF equivalent = {} THEN Add(stack, arcs, h)
      ELSE UNION {Recombine(stack, arcs, h, g) : g \in equivalent}

\* Hypothesis::CleanupArcList: the test for too many arcs; more than nBestSize
\* may be needed when the paths to be printed are to be distinct.
TooManyArcs(settings, list) ==
  settings.nBest /\ ~settings.distinct /\ Cardinality(list) > settings.nBestSize * ArcFactor

\* CleanupArcList of every hypothesis on the stack: of too many arcs, only the
\* best nBestSize are kept.
CleanupArcList(stack, arcs) ==
  LET crowded == {i \in {h.id : h \in stack.hypos} : TooManyArcs(stack.settings, arcs[i])}
      Best(i) == TopSets(arcs[i], stack.settings.nBestSize)
      choices == {kept \in [crowded -> UNION {Best(i) : i \in crowded}] :
                    \A i \in crowded : kept[i] \in Best(i)}
  IN  {Outcome(stack, [i \in DOMAIN arcs |-> IF i \in crowded THEN kept[i] ELSE arcs[i]],
               UNION {arcs[i] \ kept[i] : i \in crowded}) : kept \in choices}
=============================================================================
