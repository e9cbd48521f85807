---------------------------- MODULE SearchNormal ----------------------------
(***************************************************************************)
(* SearchNormal::ProcessSentence: the stack decoding of one sentence.      *)
(*                                                                         *)
(* Stack k holds the hypotheses that translate k words.  Stack after stack *)
(* is pruned and its hypotheses are expanded with the translation options  *)
(* that module ExpansionRules allows; every new hypothesis is scored       *)
(* (module HypothesisScoring) and goes to its stack, which prunes and      *)
(* recombines (module HypothesisStack).                                    *)
(***************************************************************************)
EXTENDS HypothesisScoring, HypothesisStack

CONSTANTS TimeLimit,    \* option -time-out is set
          MaxHypos      \* bound: hypotheses created, beyond what any instance needs

ASSUME BoundAssumption == MaxHypos \in Nat \ {0}

\* A stack may see any coverage.
ASSUME CoveragesAssumption == SUBSET Positions \subseteq Coverages

NoStack == NotFound   \* actual_hypoStack before the first assignment

VARIABLES options,      \* m_transOptColl
          futureScore,  \* its future score matrix
          hypos,        \* all hypotheses created; hypos[i].id = i
          stacks,       \* m_hypoStackColl
          arcs,         \* arcs[i]: m_arcList of hypos[i]
          freed,        \* deleted hypotheses
          current,      \* iterStack: the stack whose turn it is
          expanding,    \* the loop over the current stack is under way
          todo,         \* hypotheses of the current stack not expanded yet
          base,         \* the hypothesis ProcessOneHypothesis expands
          toTry,        \* the options it goes on to expand it with, in their order
          actual,       \* actual_hypoStack
          interrupted,  \* interrupted_flag
          done          \* ProcessSentence has returned

vars == <<options, futureScore, hypos, stacks, arcs, freed, current, expanding,
          todo, base, toTry, actual, interrupted, done>>

Init ==
  /\ options \in OptionLists
  /\ futureScore = FutureScoreMatrix(OptionScoresOf(options))
  /\ hypos = <<Seed>>
  /\ arcs = [i \in 1 .. MaxHypos |-> {}]
  /\ \E settings \in Settings :
       stacks = [k \in 0 .. SourceSize |->
                   IF k = 0 THEN (CHOOSE o \in AddPrune(EmptyStack(settings), arcs, Seed) : TRUE).stack
                            ELSE EmptyStack(settings)]
  /\ freed = {} /\ current = 0 /\ expanding = FALSE /\ todo = {} /\ base = Seed /\ toTry = {}
  /\ actual = NoStack
  /\ interrupted = FALSE /\ done = FALSE

\* The head of the loop over the stacks: the time is up.
TimeOut ==
  /\ TimeLimit
  /\ ~done /\ ~expanding /\ current <= SourceSize
  /\ interrupted' = TRUE /\ done' = TRUE
  /\ UNCHANGED <<options, futureScore, hypos, stacks, arcs, freed, current, expanding,
                 todo, base, toTry, actual>>

\* PruneToSize and CleanupArcList of the stack whose turn it is.
PrunedStack(stack, lists) ==
  UNION {{[q EXCEPT !.freed = @ \cup p.freed] : q \in CleanupArcList(p.stack, p.arcs)} :
           p \in PruneToSize(stack, lists, stack.settings.maxSize)}

\* Mutant: the hypotheses are listed before the stack is pruned.
ListedBeforePruning(before, after) == before.hypos

\* The loop over the stack's hypotheses begins after the pruning.
ToExpand(before, after) == after.hypos

StartStack ==
  /\ ~done /\ ~expanding /\ current <= SourceSize
  /\ expanding' = TRUE
  /\ \E o \in PrunedStack(stacks[current], arcs) :
       /\ stacks' = [stacks EXCEPT ![current] = o.stack]
       /\ arcs' = o.arcs
       /\ freed' = freed \cup o.freed
       /\ todo' = ToExpand(stacks[current], o.stack)
  /\ UNCHANGED <<options, futureScore, hypos, current, base, toTry, actual, interrupted, done>>

\* HypothesisRecombinationOrderer, the order of the set m_hypos: by coverage
\* (WordsBitmap::Compare), then by the end of the last range (the distortion's
\* state); how the language model orders its states is left open.
Before(g, h) ==
  LET differ == (g.cov \ h.cov) \cup (h.cov \ g.cov)
  IN  \/ differ # {} /\ Least(differ) \in h.cov
      \/ differ = {} /\ g.range.end < h.range.end

\* ProcessOneHypothesis: the options that may extend h, the next hypothesis of
\* the stack.
ProcessOneHypothesis(h) ==
  /\ expanding /\ toTry = {} /\ h \in todo
  /\ \A g \in todo : ~Before(g, h)
  /\ todo' = todo \ {h}
  /\ base' = h
  /\ toTry' = {i \in 1 .. Len(options) :
                 CanExpand(ConstraintOf[options], h.cov, h.range, options[i].s, options[i].e)}
  /\ UNCHANGED <<options, futureScore, hypos, stacks, arcs, freed, current, expanding,
                 actual, interrupted, done>>

\* WordsBitmap::GetNumWordsCovered
WordsTranslated(cov) == Cardinality(cov)

\* ExpandHypothesis without early discarding (whose second stage asserts that
\* it is unfinished): the new hypothesis goes to the stack of its coverage.
ExpandHypothesis ==
  /\ toTry # {} /\ Len(hypos) < MaxHypos
  /\ \E h \in {NextHypothesis(options, futureScore, Len(hypos) + 1, base, Least(toTry))} :
       \E k \in {WordsTranslated(h.cov)} :
         /\ hypos' = Append(hypos, h)
         /\ \E o \in AddPrune(stacks[k], arcs, h) :
              /\ stacks' = [stacks EXCEPT ![k] = o.stack]
              /\ arcs' = o.arcs
              /\ freed' = freed \cup o.freed
  /\ toTry' = toTry \ {Least(toTry)}
  /\ UNCHANGED <<options, futureScore, current, expanding, todo, base, actual,
                 interrupted, done>>

\* "this stack is fully expanded"
FinishStack ==
  /\ expanding /\ todo = {} /\ toTry = {}
  /\ expanding' = FALSE
  /\ actual' = current
  /\ current' = current + 1
  /\ UNCHANGED <<options, futureScore, hypos, stacks, arcs, freed, todo, base, toTry,
                 interrupted, done>>

\* Mutant: the loop goes on behind the last stack.
ReturnLate ==
  /\ ~done /\ current > SourceSize + 1
  /\ done' = TRUE
  /\ UNCHANGED <<options, futureScore, hypos, stacks, arcs, freed, current, expanding,
                 todo, base, toTry, actual, interrupted>>

\* All stacks have had their turn.
Return ==
  /\ ~done /\ current > SourceSize
  /\ done' = TRUE
  /\ UNCHANGED <<options, futureScore, hypos, stacks, arcs, freed, current, expanding,
                 todo, base, toTry, actual, interrupted>>

Next ==
  \/ TimeOut
  \/ StartStack
  \/ \E h \in todo : ProcessOneHypothesis(h)
  \/ ExpandHypothesis
  \/ FinishStack
  \/ Return

\* One thread runs ProcessSentence to its end.
Spec == Init /\ [][Next]_vars /\ WF_vars(Next)

-----------------------------------------------------------------------------
(* Properties *)

settings == stacks[SourceSize].settings

Live == UNION {stacks[k].hypos : k \in 0 .. SourceSize}
OnArcLists == UNION {arcs[h.id] : h \in Live}

\* GetBestHypothesis: the stack the result is taken from.
ResultStack == IF interrupted THEN actual ELSE SourceSize

\* A search ends with a translation of the whole sentence, or of as many words
\* as it had finished when the time was up, however small the stacks are: no
\* pruning ever leaves only hypotheses that the distortion limit lets nobody
\* continue.
TranslationFound ==
  done /\ ResultStack # NoStack =>
    /\ stacks[ResultStack].hypos # {}
    /\ \A h \in stacks[ResultStack].hypos : Cardinality(h.cov) = ResultStack

\* SearchNormal.h's comment on actual_hypoStack, "actual (full expanded) stack
\* of hypotheses": GetBestHypothesis of an interrupted search reads it.
ResultStackExpanded == done => ResultStack \in 0 .. SourceSize

\* No hypothesis that is still in use has a deleted predecessor: hypotheses are
\* deleted only before the turn of their stack ("the stack is pruned before
\* processing"), and FREEHYPO never reaches one that has been extended.
PredecessorsAlive ==
  \A h \in Live \cup OnArcLists : h.prev # 0 => hypos[h.prev] \notin freed
=============================================================================
