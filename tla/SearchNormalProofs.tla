-------------------------- MODULE SearchNormalProofs --------------------------
(***************************************************************************)
(* The search of one sentence, for every length, every set of translation  *)
(* options, every stack size and beam: each hypothesis is owned once, by   *)
(* the stack for its number of translated words, what has been extended is *)
(* never deleted, and a translation is found.                              *)
(***************************************************************************)
EXTENDS NBestList, HypothesisStackProofs, HypothesisScoringProofs

-----------------------------------------------------------------------------
(* The inductive invariant *)

\* The hypotheses created, those that translate k words, and those of them that
\* were deleted.
AllHypos == {hypos[i] : i \in 1 .. Len(hypos)}
Of(k)      == {h \in AllHypos : Cardinality(h.cov) = k}
FreedOf(k) == {h \in freed : Cardinality(h.cov) = k}

\* Hypotheses are numbered in the order of their creation; those to come have no
\* arcs yet.
NumberedInOrder ==
  /\ hypos \in Seq(AllHypos) /\ Len(hypos) \in 1 .. MaxHypos
  /\ \A i \in 1 .. Len(hypos) : hypos[i].id = i
  /\ DOMAIN arcs = 1 .. MaxHypos
  /\ \A i \in 1 .. MaxHypos : i > Len(hypos) => arcs[i] = {}
  /\ \A h \in AllHypos : h.cov \in SUBSET Positions

\* The sentence stays, and all hypotheses are for it.
SentenceKept ==
  /\ options \in OptionLists
  /\ futureScore = FutureScoreMatrix(OptionScoresOf(options))
  /\ \A h \in AllHypos : WellMade(options, h)

\* Stack k is consistent with the hypotheses that translate k words.
StacksOwn ==
  /\ stacks = [k \in 0 .. SourceSize |-> stacks[k]]
  /\ \A k \in 0 .. SourceSize : /\ Consistent(stacks[k], arcs, FreedOf(k), Of(k))
                                /\ stacks[k].settings = settings
  /\ freed \subseteq AllHypos

\* What the loops are working on is on the current stack.
LoopsOnStack ==
  /\ current \in 0 .. SourceSize + 1 /\ expanding \in BOOLEAN
  /\ expanding => current <= SourceSize /\ todo \subseteq stacks[current].hypos
  /\ toTry # {} => expanding /\ base \in stacks[current].hypos
  /\ toTry \subseteq {i \in 1 .. Len(options) :
                        CanExpand(ConstraintOf[options], base.cov, base.range, options[i].s, options[i].e)}

\* The turn of stack k has begun: it has been pruned for the last time.
Begun(k) == k < current \/ (k = current /\ expanding)

\* Predecessors are on stacks whose turn has begun.
ExtendedInTurn ==
  \A h \in AllHypos :
    /\ h.prev \in 0 .. Len(hypos)
    /\ h.prev # 0 => \E k \in 0 .. SourceSize : hypos[h.prev] \in stacks[k].hypos /\ Begun(k)

IInv == NumberedInOrder /\ SentenceKept /\ StacksOwn /\ LoopsOnStack /\ ExtendedInTurn

\* The option for a single word is still to be tried.
WordToTry == \E i \in toTry : options[i].s = options[i].e

\* The stacks up to the current one have had hypotheses.  Each hypothesis of the
\* current stack that has had its turn has reached the next stack, or is about to.
StacksReached ==
  /\ \A k \in 0 .. SourceSize : k <= current => Of(k) # {}
  /\ expanding /\ current < SourceSize =>
       \A h \in stacks[current].hypos \ todo : Of(current + 1) # {} \/ (h = base /\ WordToTry)

\* ProcessSentence returns from the last stack, or when the time is up.
ReturnsDuly ==
  /\ done => ~expanding /\ (interrupted \/ current = SourceSize + 1)
  /\ actual # NoStack => actual \in 0 .. SourceSize /\ actual < current

Progress == StacksReached /\ ReturnsDuly

-----------------------------------------------------------------------------
(* The sentence *)

\* The sentence stays, and so do the hypotheses.
LEMMA SentenceStays ==
  ASSUME SentenceKept, options' = options, futureScore' = futureScore, AllHypos' = AllHypos
  PROVE  SentenceKept'
BY DEF SentenceKept, WellMade

\* The sentence stays, and there is one more hypothesis.
LEMMA SentenceGrows ==
  ASSUME SentenceKept, options' = options, futureScore' = futureScore,
         NEW h, AllHypos' = AllHypos \cup {h}, WellMade(options, h)
  PROVE  SentenceKept'
BY DEF SentenceKept, WellMade

-----------------------------------------------------------------------------
(* The stacks *)

\* What a step does to the stacks: stack k and arc lists of its hypotheses
\* change, and possibly hypotheses of k words come into being.
StackStep(k, o) ==
  /\ Leaves(stacks[k], arcs, FreedOf(k), Of(k)', o)
  /\ stacks' = [stacks EXCEPT ![k] = o.stack] /\ arcs' = o.arcs /\ freed' = freed \cup o.freed
  /\ AllHypos \subseteq AllHypos' /\ \A h \in AllHypos' \ AllHypos : Cardinality(h.cov) = k
  /\ \A g, h \in AllHypos' : g.id = h.id => g = h

\* The other stacks still own their hypotheses.
LEMMA StepStacksOwn ==
  ASSUME StacksOwn, NEW k \in 0 .. SourceSize, NEW o, StackStep(k, o)
  PROVE  StacksOwn'
<1>1. /\ stacks' = [j \in 0 .. SourceSize |-> stacks'[j]]
      /\ stacks'[k] = o.stack /\ \A j \in 0 .. SourceSize \ {k} : stacks'[j] = stacks[j]
  BY DEF StackStep, StacksOwn
<1>2. /\ Consistent(o.stack, arcs', FreedOf(k) \cup o.freed, Of(k)')
      /\ Elsewhere(arcs, arcs', Of(k)') /\ o.stack.settings = stacks[k].settings
  BY DEF StackStep, Leaves
<1>3. o.freed \subseteq Of(k)'
  BY <1>2 DEF Consistent, Owned
<1>4. \A h \in o.freed : h \in AllHypos' /\ Cardinality(h.cov) = k
  BY <1>3 DEF Of
<1>5. FreedOf(k)' = FreedOf(k) \cup o.freed
  BY <1>4 DEF FreedOf, StackStep
<1>6. ASSUME NEW j \in 0 .. SourceSize, j # k
      PROVE  FreedOf(j)' = FreedOf(j) /\ Of(j)' = Of(j)
  BY <1>4, <1>6 DEF FreedOf, Of, StackStep
<1>7. settings' = settings /\ \A j \in 0 .. SourceSize : stacks'[j].settings = settings
  <2>1. SourceSize \in 0 .. SourceSize
    BY SourceSizeAssumption
  <2> QED BY <1>1, <1>2, <2>1 DEF settings, StacksOwn
<1>8. ASSUME NEW j \in 0 .. SourceSize, j # k
      PROVE  Consistent(stacks'[j], arcs', FreedOf(j)', Of(j)')
  <2>1. Consistent(stacks[j], arcs, FreedOf(j), Of(j))
    BY DEF StacksOwn
  <2>2. \A g \in Of(j), h \in Of(k)' : g.id # h.id
    <3>1. \A g \in Of(j) : g \in AllHypos' /\ Cardinality(g.cov) = j
      BY DEF Of, StackStep
    <3>2. \A h \in Of(k)' : h \in AllHypos' /\ Cardinality(h.cov) = k
      BY DEF Of
    <3> QED BY <1>8, <3>1, <3>2 DEF StackStep
  <2>3. arcs' = [i \in DOMAIN arcs' |-> arcs'[i]]
    BY <1>2 DEF Consistent, Numbered
  <2>4. ~stacks[j].settings.nBest => \A i \in DOMAIN arcs' : arcs'[i] = {}
    <3>1. stacks[j].settings = o.stack.settings
      BY <1>2 DEF StacksOwn
    <3> QED BY <1>2, <3>1 DEF Consistent
  <2>5. Consistent(stacks[j], arcs', FreedOf(j), Of(j))
    BY <1>2, <2>1, <2>2, <2>3, <2>4, OthersConsistent
  <2> QED BY <1>1, <1>6, <1>8, <2>5
<1>9. Consistent(stacks'[k], arcs', FreedOf(k)', Of(k)')
  BY <1>1, <1>2, <1>5
<1>10. freed' \subseteq AllHypos'
  BY <1>4 DEF StackStep, StacksOwn
<1> QED BY <1>1, <1>7, <1>8, <1>9, <1>10 DEF StacksOwn

\* A hypothesis on a stack has been created.
LEMMA StackedCreated ==
  ASSUME StacksOwn, NEW k \in 0 .. SourceSize, NEW h \in stacks[k].hypos \cup ArcsOf(stacks[k].hypos, arcs)
  PROVE  h \in AllHypos /\ Cardinality(h.cov) = k /\ h \notin freed
<1>1. Consistent(stacks[k], arcs, FreedOf(k), Of(k))
  BY DEF StacksOwn
<1>2. h \in Of(k) /\ h \notin FreedOf(k)
  BY <1>1 DEF Consistent, Owned
<1> QED BY <1>2 DEF Of, FreedOf

-----------------------------------------------------------------------------
(* The steps *)

\* The seed is on the first stack, and nothing is deleted for it.
LEMMA SeedAdded ==
  ASSUME NEW option \in Settings, NEW lists, lists = [i \in 1 .. MaxHypos |-> {}]
  PROVE  /\ AddPrune(EmptyStack(option), lists, Seed) # {}
         /\ \A o \in AddPrune(EmptyStack(option), lists, Seed) :
              /\ o.arcs = lists /\ o.freed = {} /\ o.stack.settings = option
              /\ Consistent(o.stack, lists, {}, {Seed})
<1> DEFINE s == EmptyStack(option)
           outcomes == AddPrune(s, lists, Seed)
<1>1. /\ s = [hypos |-> s.hypos, best |-> s.best, worst |-> s.worst,
              covWorst |-> s.covWorst, settings |-> s.settings]
      /\ s.hypos = {} /\ s.worst = NegInf /\ s.settings = option
  BY DEF EmptyStack
<1>2. Seed.id = 1 /\ Seed.total = 0
  BY DEF Seed
<1>3. 1 \in DOMAIN lists /\ \A i \in DOMAIN lists : lists[i] = {}
  BY BoundAssumption
<1> HIDE DEF s
<1>4. outcomes = Add(s, lists, Seed)
  <2>1. ~TooBad(s, Seed)
    BY <1>1, <1>2, NegInfAssumption DEF TooBad
  <2>2. {g \in s.hypos : Equivalent(g, Seed)} = {}
    BY <1>1
  <2> QED BY <2>1, <2>2 DEF AddPrune
<1>5. \E t : t.hypos = {Seed} /\ t.settings = option /\ outcomes = {Outcome(t, lists, {})}
  <2> DEFINE best == IF Seed.total > s.best THEN Seed.total ELSE s.best
             w == IF Seed.total > s.best THEN RaisedWorst(s, best) ELSE s.worst
             r == [s.covWorst EXCEPT ![Seed.cov] = IF s.settings.diversity = 1 /\ Seed.total > @
                                                   THEN Seed.total ELSE @]
             T == s.hypos \cup {Seed}
             t == [s EXCEPT !.hypos = T, !.best = best, !.worst = w, !.covWorst = r]
  <2>1. outcomes = IF Cardinality(t.hypos) > ToleratedSize(s.settings)
                   THEN PruneToSize(t, lists, s.settings.maxSize)
                   ELSE {Outcome(t, lists, {})}
    BY <1>4 DEF Add
  <2> HIDE DEF best, w, r, T
  <2>2. t.hypos = T /\ t.settings = option
    BY <1>1
  <2>3. T = {Seed}
    BY <1>1 DEF T
  <2> HIDE DEF t
  <2>4. Cardinality(t.hypos) <= option.maxSize
    <3>1. Cardinality({Seed}) = 1
      BY FS_Singleton
    <3>2. option.maxSize \in Nat \ {0}
      BY SettingsTypes
    <3> QED BY <2>2, <2>3, <3>1, <3>2
  <2>5. PruneToSize(t, lists, option.maxSize) = {Outcome(t, lists, {})}
    BY <2>4 DEF PruneToSize
  <2> QED BY <1>1, <2>1, <2>2, <2>3, <2>5
<1> HIDE DEF outcomes
<1>6. ASSUME NEW o \in outcomes
      PROVE  /\ o.arcs = lists /\ o.freed = {} /\ o.stack.settings = option
             /\ Consistent(o.stack, lists, {}, {Seed})
  <2>1. o.arcs = lists /\ o.freed = {} /\ o.stack.settings = option
    <3>1. PICK t : t.hypos = {Seed} /\ t.settings = option /\ outcomes = {Outcome(t, lists, {})}
      BY <1>5
    <3> QED BY <1>6, <3>1 DEF Outcome
  <2>2. Consistent(s, lists, {}, {})
    BY <1>3, EmptyConsistent DEF s
  <2>3. IsNew(Seed, {}, lists)
    BY <1>2, <1>3 DEF IsNew
  <2>4. Leaves(s, lists, {}, {} \cup {Seed}, o)
    <3>1. Seed.total \in Int /\ Seed.total >= NegInf
      BY <1>2, NegInfAssumption
    <3>2. Seed.cov \in Coverages
      BY CoveragesAssumption DEF Seed
    <3> QED BY <1>6, <2>2, <2>3, <3>1, <3>2, AddPruneConsistent DEF outcomes
  <2>5. {} \cup {Seed} = {Seed} /\ {} \cup o.freed = {}
    BY <2>1
  <2> QED BY <2>1, <2>4, <2>5 DEF Leaves
<1> QED BY <1>5, <1>6 DEF s, outcomes

\* At the start the seed is all there is.
LEMMA InitIInv == Init => IInv
<1> SUFFICES ASSUME Init PROVE IInv
  OBVIOUS
<1>1. /\ hypos = <<Seed>> /\ arcs = [i \in 1 .. MaxHypos |-> {}] /\ freed = {} /\ current = 0
      /\ expanding = FALSE /\ toTry = {}
  BY DEF Init
<1>2. Len(hypos) = 1 /\ AllHypos = {Seed} /\ hypos[1] = Seed /\ hypos \in Seq({Seed})
  BY <1>1 DEF AllHypos
<1>3. Seed.id = 1 /\ Seed.prev = 0 /\ Seed.cov = {} /\ Cardinality(Seed.cov) = 0
  <2>1. Cardinality({}) = 0
    BY FS_EmptySet
  <2> QED BY <2>1 DEF Seed
<1>4. NumberedInOrder
  BY <1>1, <1>2, <1>3, BoundAssumption DEF NumberedInOrder
<1>5. Of(0) = {Seed} /\ \A k \in 0 .. SourceSize : FreedOf(k) = {} /\ (k # 0 => Of(k) = {})
  BY <1>1, <1>2, <1>3 DEF Of, FreedOf
<1>6. StacksOwn
  <2>1. PICK option \in Settings :
          stacks = [k \in 0 .. SourceSize |->
                      IF k = 0 THEN (CHOOSE o \in AddPrune(EmptyStack(option), arcs, Seed) : TRUE).stack
                               ELSE EmptyStack(option)]
    BY DEF Init
  <2> DEFINE first == (CHOOSE o \in AddPrune(EmptyStack(option), arcs, Seed) : TRUE).stack
  <2>2. first.settings = option /\ Consistent(first, arcs, {}, {Seed})
    <3> DEFINE outcomes == AddPrune(EmptyStack(option), arcs, Seed)
    <3>1. /\ outcomes # {}
          /\ \A o \in outcomes : o.stack.settings = option /\ Consistent(o.stack, arcs, {}, {Seed})
      BY <1>1, SeedAdded
    <3> HIDE DEF outcomes
    <3>2. (CHOOSE o \in outcomes : TRUE) \in outcomes
      BY <3>1
    <3>3. first = (CHOOSE o \in outcomes : TRUE).stack
      BY DEF outcomes
    <3> HIDE DEF first
    <3> QED BY <3>1, <3>2, <3>3
  <2>3. EmptyStack(option).settings = option /\ Consistent(EmptyStack(option), arcs, {}, {})
    <3>1. arcs = [i \in DOMAIN arcs |-> arcs[i]] /\ \A i \in DOMAIN arcs : arcs[i] = {}
      BY <1>1
    <3> QED BY <3>1, EmptyConsistent DEF EmptyStack
  <2>4. 0 \in 0 .. SourceSize /\ SourceSize \in 0 .. SourceSize /\ SourceSize # 0
    BY SourceSizeAssumption
  <2> HIDE DEF first
  <2>5. /\ stacks = [k \in 0 .. SourceSize |-> stacks[k]]
        /\ stacks[0] = first /\ \A k \in 0 .. SourceSize \ {0} : stacks[k] = EmptyStack(option)
    <3> DEFINE initial == [k \in 0 .. SourceSize |-> IF k = 0 THEN first ELSE EmptyStack(option)]
    <3>1. stacks = initial
      BY <2>1 DEF first
    <3>2. /\ initial = [k \in 0 .. SourceSize |-> initial[k]]
          /\ initial[0] = first /\ \A k \in 0 .. SourceSize \ {0} : initial[k] = EmptyStack(option)
      BY <2>4
    <3> HIDE DEF initial
    <3> QED BY <3>1, <3>2
  <2>6. settings = option
    BY <2>3, <2>4, <2>5 DEF settings
  <2>7. ASSUME NEW k \in 0 .. SourceSize
        PROVE  Consistent(stacks[k], arcs, FreedOf(k), Of(k)) /\ stacks[k].settings = settings
    BY <1>5, <2>2, <2>3, <2>5, <2>6
  <2> QED BY <1>1, <2>5, <2>7 DEF StacksOwn
<1>7. LoopsOnStack
  <2>1. current \in 0 .. SourceSize + 1
    BY <1>1, SourceSizeAssumption
  <2> QED BY <1>1, <2>1 DEF LoopsOnStack
<1>8. ExtendedInTurn
  BY <1>2, <1>3 DEF ExtendedInTurn
<1>9. SentenceKept
  <2>1. options \in OptionLists /\ futureScore = FutureScoreMatrix(OptionScoresOf(options))
    BY DEF Init
  <2> QED BY <1>2, <2>1, SeedWellMade DEF SentenceKept
<1> QED BY <1>4, <1>6, <1>7, <1>8, <1>9 DEF IInv

\* Numbers tell hypotheses apart.
LEMMA NumbersDiffer ==
  ASSUME NumberedInOrder
  PROVE  /\ \A g, h \in AllHypos : g.id = h.id => g = h
         /\ \A h \in AllHypos : h.id \in 1 .. Len(hypos) /\ hypos[h.id] = h
BY DEF NumberedInOrder, AllHypos

\* The turn of a stack begins.
LEMMA StartStackIInv ==
  ASSUME IInv, StartStack
  PROVE  IInv'
<1>0. PICK c : c = current
  OBVIOUS
<1>1. /\ ~expanding /\ current = c /\ c \in 0 .. SourceSize /\ toTry = {}
      /\ NumberedInOrder /\ SentenceKept /\ StacksOwn /\ ExtendedInTurn
  BY <1>0, SourceSizeAssumption DEF IInv, LoopsOnStack, StartStack
<1>2. PICK o \in PrunedStack(stacks[c], arcs) :
        /\ stacks' = [stacks EXCEPT ![c] = o.stack]
        /\ arcs' = o.arcs
        /\ freed' = freed \cup o.freed
        /\ todo' = o.stack.hypos
  BY <1>1 DEF StartStack, ToExpand
<1>3. /\ expanding' = TRUE
      /\ hypos' = hypos /\ current' = current /\ base' = base /\ toTry' = toTry
      /\ options' = options /\ futureScore' = futureScore
  BY DEF StartStack
<1>4. AllHypos' = AllHypos /\ \A k : Of(k)' = Of(k)
  BY <1>3 DEF AllHypos, Of
<1>5. StackStep(c, o)
  <2>1. PICK p \in PruneToSize(stacks[c], arcs, stacks[c].settings.maxSize) :
          \E q \in CleanupArcList(p.stack, p.arcs) : o = [q EXCEPT !.freed = @ \cup p.freed]
    BY <1>2 DEF PrunedStack
  <2>2. Consistent(stacks[c], arcs, FreedOf(c), Of(c))
    BY <1>1 DEF StacksOwn
  <2>3. Leaves(stacks[c], arcs, FreedOf(c), Of(c), o)
    BY <2>1, <2>2, TurnConsistent
  <2>4. \A g, h \in AllHypos : g.id = h.id => g = h
    BY <1>1, NumbersDiffer
  <2> QED BY <1>2, <1>4, <2>3, <2>4 DEF StackStep
<1>6. StacksOwn'
  BY <1>1, <1>5, StepStacksOwn
<1>7. stacks'[c] = o.stack /\ \A k \in 0 .. SourceSize : k # c => stacks'[k] = stacks[k]
  BY <1>1, <1>2 DEF StacksOwn
<1>8. NumberedInOrder'
  <2>1. Elsewhere(arcs, arcs', Of(c))
    BY <1>2, <1>4, <1>5 DEF StackStep, Leaves
  <2>2. \A i \in 1 .. MaxHypos : i > Len(hypos) => \A h \in Of(c) : h.id # i
    <3>1. \A h \in Of(c) : h.id \in 1 .. Len(hypos)
      BY <1>1, NumbersDiffer DEF Of
    <3>2. Len(hypos) \in Int
      BY <1>1, BoundAssumption DEF NumberedInOrder
    <3> QED BY <3>1, <3>2
  <2>3. DOMAIN arcs' = 1 .. MaxHypos /\ \A i \in 1 .. MaxHypos : i > Len(hypos) => arcs'[i] = {}
    BY <1>1, <2>1, <2>2 DEF NumberedInOrder, Elsewhere
  <2> QED BY <1>1, <1>3, <1>4, <2>3 DEF NumberedInOrder
<1>9. LoopsOnStack'
  <2>1. c \in 0 .. SourceSize + 1 /\ c <= SourceSize
    BY <1>1, SourceSizeAssumption
  <2>2. current' = c /\ todo' = stacks'[c].hypos /\ toTry' = {} /\ expanding' = TRUE
    BY <1>1, <1>2, <1>3, <1>7
  <2> QED BY <2>1, <2>2 DEF LoopsOnStack
<1>10. ExtendedInTurn'
  <2>1. \A k \in 0 .. SourceSize : Begun(k) => Begun(k)' /\ stacks'[k] = stacks[k]
    BY <1>1, <1>3, <1>7 DEF Begun
  <2> QED BY <1>1, <1>3, <1>4, <2>1 DEF ExtendedInTurn
<1>11. SentenceKept'
  BY <1>1, <1>3, <1>4, SentenceStays
<1> QED BY <1>6, <1>8, <1>9, <1>10, <1>11 DEF IInv

\* ExpandHypothesis has made a hypothesis of base and an option; the current
\* stack is as it was.
HypothesisMade ==
  \E h, i : /\ i \in toTry /\ toTry' = toTry \ {i}
            /\ h.cov = base.cov \cup (options[i].s .. options[i].e)
            /\ AllHypos' = AllHypos \cup {h}
            /\ stacks'[current] = stacks[current]

\* A hypothesis is extended.
LEMMA ExpandHypothesisIInv ==
  ASSUME IInv, ExpandHypothesis
  PROVE  IInv' /\ HypothesisMade
<1>0. PICK c, h, k :
        /\ c = current /\ k = Cardinality(h.cov)
        /\ h = NextHypothesis(options, futureScore, Len(hypos) + 1, base, Least(toTry))
        /\ hypos' = Append(hypos, h)
        /\ \E o \in AddPrune(stacks[k], arcs, h) :
             /\ stacks' = [stacks EXCEPT ![k] = o.stack]
             /\ arcs' = o.arcs
             /\ freed' = freed \cup o.freed
  BY DEF ExpandHypothesis, WordsTranslated
<1> DEFINE i == Least(toTry)
<1>1. /\ NumberedInOrder /\ SentenceKept /\ StacksOwn /\ LoopsOnStack /\ ExtendedInTurn
      /\ expanding /\ c = current /\ c \in 0 .. SourceSize /\ base \in stacks[c].hypos
      /\ toTry # {} /\ Len(hypos) < MaxHypos /\ Len(hypos) \in Nat
  BY <1>0, SourceSizeAssumption, BoundAssumption DEF IInv, LoopsOnStack, ExpandHypothesis, NumberedInOrder
<1>2. /\ toTry' = toTry \ {i}
      /\ options' = options /\ futureScore' = futureScore /\ current' = current /\ expanding' = expanding
      /\ todo' = todo /\ base' = base
  BY DEF ExpandHypothesis
<1>3. i \in toTry
  <2>1. toTry \in SUBSET Nat
    BY <1>1 DEF LoopsOnStack
  <2>2. \E n \in toTry : \A m \in toTry : n <= m
    BY <1>1, <2>1, LeastNumber
  <2> QED BY <2>2 DEF Least
<1>4. base \in AllHypos /\ base.cov \in SUBSET Positions /\ Cardinality(base.cov) = c
      /\ base.id \in 1 .. Len(hypos) /\ hypos[base.id] = base
  <2>1. base \in AllHypos /\ Cardinality(base.cov) = c
    BY <1>1, StackedCreated
  <2> QED BY <1>1, <2>1, NumbersDiffer DEF NumberedInOrder
<1>5. /\ h.id = Len(hypos) + 1 /\ h.prev = base.id
      /\ h.cov = base.cov \cup (options[i].s .. options[i].e)
  BY <1>0 DEF NextHypothesis
<1>18. WellMade(options, h) /\ h.total \in Int /\ h.total >= NegInf
  <2>1. /\ i \in 1 .. Len(options)
        /\ CanExpand(ConstraintOf[options], base.cov, base.range, options[i].s, options[i].e)
    BY <1>1, <1>3 DEF LoopsOnStack
  <2> QED BY <1>0, <1>1, <1>4, <2>1, NextWellMade DEF SentenceKept
<1> HIDE DEF i
<1>6. h.cov \in SUBSET Positions /\ k \in 0 .. SourceSize /\ k > c
  <2>1. CanExpand(ConstraintOf[options], base.cov, base.range, options[i].s, options[i].e)
    BY <1>1, <1>3 DEF LoopsOnStack
  <2> QED BY <1>0, <1>4, <1>5, <2>1, ExtensionIsLonger
<1>7. /\ Len(hypos') = Len(hypos) + 1 /\ Len(hypos') \in 1 .. MaxHypos
      /\ hypos'[Len(hypos) + 1] = h /\ \A n \in 1 .. Len(hypos) : hypos'[n] = hypos[n]
      /\ AllHypos' = AllHypos \cup {h} /\ hypos' \in Seq(AllHypos')
  <2>1. hypos \in Seq(AllHypos)
    BY <1>1 DEF NumberedInOrder
  <2>2. /\ Len(hypos') = Len(hypos) + 1
        /\ hypos'[Len(hypos) + 1] = h /\ \A n \in 1 .. Len(hypos) : hypos'[n] = hypos[n]
    BY <1>0, <2>1
  <2>3. AllHypos' = AllHypos \cup {h}
    BY <1>1, <2>2 DEF AllHypos
  <2>4. hypos' \in Seq(AllHypos \cup {h})
    <3>1. hypos \in Seq(AllHypos \cup {h})
      BY <2>1
    <3> QED BY <1>0, <3>1
  <2>5. Len(hypos) + 1 \in 1 .. MaxHypos
    BY <1>1, BoundAssumption
  <2> QED BY <2>2, <2>3, <2>4, <2>5
<1>8. IsNew(h, Of(k), arcs) /\ h \notin AllHypos
  <2>1. \A g \in AllHypos : g.id # h.id
    BY <1>1, <1>5, NumbersDiffer
  <2>2. h.id \in 1 .. MaxHypos /\ h.id > Len(hypos)
    BY <1>1, <1>5, BoundAssumption
  <2> QED BY <1>1, <2>1, <2>2 DEF IsNew, Of, NumberedInOrder
<1>9. \A n \in 1 .. Len(hypos') : hypos'[n].id = n
  BY <1>1, <1>5, <1>7 DEF NumberedInOrder
<1>10. /\ Of(k)' = Of(k) \cup {h}
       /\ \A g, x \in AllHypos' : g.id = x.id => g = x
  <2>1. \A g, x \in AllHypos' : g.id = x.id => g = x
    BY <1>9 DEF AllHypos
  <2>2. Of(k)' = Of(k) \cup {h}
    BY <1>0, <1>7 DEF Of
  <2> QED BY <2>1, <2>2
<1>11. PICK o \in AddPrune(stacks[k], arcs, h) :
         stacks' = [stacks EXCEPT ![k] = o.stack] /\ arcs' = o.arcs /\ freed' = freed \cup o.freed
  BY <1>0
<1>12. StackStep(k, o)
  <2>1. Consistent(stacks[k], arcs, FreedOf(k), Of(k))
    BY <1>1, <1>6 DEF StacksOwn
  <2>4. h.cov \in Coverages
    BY <1>6, CoveragesAssumption
  <2>2. Leaves(stacks[k], arcs, FreedOf(k), Of(k) \cup {h}, o)
    BY <1>8, <1>11, <1>18, <2>1, <2>4, AddPruneConsistent
  <2>3. \A g \in AllHypos' \ AllHypos : Cardinality(g.cov) = k
    BY <1>0, <1>7
  <2> QED BY <1>7, <1>10, <1>11, <2>2, <2>3 DEF StackStep
<1>13. StacksOwn'
  BY <1>1, <1>6, <1>12, StepStacksOwn
<1>14. \A j \in 0 .. SourceSize : j # k => stacks'[j] = stacks[j]
  BY <1>1, <1>11 DEF StacksOwn
<1>15. NumberedInOrder'
  <2>1. Elsewhere(arcs, arcs', Of(k)')
    BY <1>11, <1>12 DEF StackStep, Leaves
  <2>2. \A n \in 1 .. MaxHypos : n > Len(hypos') => \A g \in Of(k)' : g.id # n
    <3>1. \A g \in AllHypos' : g.id \in 1 .. Len(hypos')
      BY <1>9 DEF AllHypos
    <3> QED BY <1>7, <3>1, BoundAssumption DEF Of
  <2>3. DOMAIN arcs' = 1 .. MaxHypos /\ \A n \in 1 .. MaxHypos : n > Len(hypos') => arcs'[n] = {}
    BY <1>1, <1>7, <2>1, <2>2, BoundAssumption DEF NumberedInOrder, Elsewhere
  <2>4. \A g \in AllHypos' : g.cov \in SUBSET Positions
    BY <1>1, <1>6, <1>7 DEF NumberedInOrder
  <2> QED BY <1>7, <1>9, <2>3, <2>4 DEF NumberedInOrder
<1>16. LoopsOnStack'
  <2>1. stacks'[c] = stacks[c]
    BY <1>1, <1>6, <1>14
  <2> QED BY <1>1, <1>2, <2>1 DEF LoopsOnStack
<1>17. ExtendedInTurn'
  <2>1. \A j \in 0 .. SourceSize : Begun(j) => Begun(j)' /\ stacks'[j] = stacks[j]
    BY <1>1, <1>2, <1>6, <1>14 DEF Begun
  <2>2. ASSUME NEW g \in AllHypos
        PROVE  /\ g.prev \in 0 .. Len(hypos')
               /\ g.prev # 0 => \E j \in 0 .. SourceSize : hypos'[g.prev] \in stacks'[j].hypos /\ Begun(j)'
    BY <1>1, <1>7, <2>1 DEF ExtendedInTurn
  <2>3. /\ h.prev \in 0 .. Len(hypos')
        /\ hypos'[h.prev] \in stacks'[c].hypos /\ Begun(c)'
    BY <1>1, <1>2, <1>4, <1>5, <1>6, <1>7, <1>14 DEF Begun
  <2> QED BY <1>1, <1>7, <2>2, <2>3 DEF ExtendedInTurn
<1>19. SentenceKept'
  BY <1>1, <1>2, <1>7, <1>18, SentenceGrows
<1>20. HypothesisMade
  <2>1. stacks'[c] = stacks[c]
    BY <1>1, <1>6, <1>14
  <2> QED BY <1>1, <1>2, <1>3, <1>5, <1>7, <2>1 DEF HypothesisMade
<1> QED BY <1>13, <1>15, <1>16, <1>17, <1>19, <1>20 DEF IInv

\* The other steps touch neither the hypotheses nor the stacks.
LEMMA LoopStepsIInv ==
  ASSUME IInv,
         TimeOut \/ (\E h \in todo : ProcessOneHypothesis(h)) \/ FinishStack \/ Return \/ UNCHANGED vars
  PROVE  IInv'
<1>1. /\ hypos' = hypos /\ stacks' = stacks /\ arcs' = arcs /\ freed' = freed
      /\ options' = options /\ futureScore' = futureScore
  BY DEF TimeOut, ProcessOneHypothesis, FinishStack, Return, vars
<1>2. AllHypos' = AllHypos /\ (\A k : Of(k)' = Of(k) /\ FreedOf(k)' = FreedOf(k)) /\ settings' = settings
  BY <1>1 DEF AllHypos, Of, FreedOf, settings
<1>3. NumberedInOrder' /\ StacksOwn'
  BY <1>1, <1>2 DEF IInv, NumberedInOrder, StacksOwn
<1>4. \A k \in 0 .. SourceSize : Begun(k) => Begun(k)'
  <2>1. CASE FinishStack
    <3>1. current' = current + 1 /\ current \in Int
      BY <2>1, SourceSizeAssumption DEF FinishStack, IInv, LoopsOnStack
    <3>2. ASSUME NEW k \in 0 .. SourceSize, Begun(k) PROVE k < current'
      <4>1. k \in Int /\ (k < current \/ k = current)
        BY <3>2 DEF Begun
      <4> QED BY <3>1, <4>1
    <3>3. \A k : k < current' => Begun(k)'
      BY DEF Begun
    <3> QED BY <3>2, <3>3
  <2>2. CASE ~FinishStack
    BY <2>2 DEF TimeOut, ProcessOneHypothesis, Return, vars, Begun
  <2> QED BY <2>1, <2>2
<1>5. ExtendedInTurn'
  BY <1>1, <1>2, <1>4 DEF IInv, ExtendedInTurn
<1>6. LoopsOnStack'
  <2>1. CASE FinishStack
    <3>1. /\ current' = current + 1 /\ current \in 0 .. SourceSize /\ expanding' = FALSE /\ toTry' = {}
      BY <2>1, SourceSizeAssumption DEF FinishStack, IInv, LoopsOnStack
    <3>2. current' \in 0 .. SourceSize + 1
      BY <3>1, SourceSizeAssumption
    <3> QED BY <3>1, <3>2 DEF LoopsOnStack
  <2>2. ASSUME NEW h \in todo, ProcessOneHypothesis(h) PROVE LoopsOnStack'
    <3>1. /\ expanding' = expanding /\ expanding /\ current' = current
          /\ base' = h /\ todo' \subseteq todo
          /\ toTry' = {i \in 1 .. Len(options') :
                        CanExpand(ConstraintOf[options'], base'.cov, base'.range, options'[i].s, options'[i].e)}
      BY <1>1, <2>2 DEF ProcessOneHypothesis
    <3>2. /\ current \in 0 .. SourceSize + 1 /\ current <= SourceSize
          /\ todo \subseteq stacks[current].hypos
      BY <3>1 DEF IInv, LoopsOnStack
    <3>3. base' \in stacks'[current'].hypos /\ todo' \subseteq stacks'[current'].hypos
      BY <1>1, <3>1, <3>2
    <3> QED BY <3>1, <3>2, <3>3 DEF LoopsOnStack
  <2>3. CASE TimeOut \/ Return \/ UNCHANGED vars
    <3>1. /\ current' = current /\ expanding' = expanding /\ todo' = todo
          /\ base' = base /\ toTry' = toTry
      BY <2>3 DEF TimeOut, Return, vars
    <3> QED BY <1>1, <3>1 DEF IInv, LoopsOnStack
  <2> QED BY <2>1, <2>2, <2>3
<1>7. SentenceKept'
  BY <1>1, <1>2, SentenceStays DEF IInv
<1> QED BY <1>3, <1>5, <1>6, <1>7 DEF IInv

\* Every step.
LEMMA StepIInv ==
  ASSUME IInv, [Next]_vars
  PROVE  IInv'
BY StartStackIInv, ExpandHypothesisIInv, LoopStepsIInv DEF Next

\* The inductive invariant, in a search and in one whose n-best list is wanted.
THEOREM SearchInvariant == (Spec => []IInv) /\ (ListSpec => []IInv)
<1>1. IInv /\ [Next]_vars => IInv'
  BY StepIInv
<1>2. ListInit => Init
  BY DEF ListInit
<1>3. [ListNext]_nBestVars => [Next]_vars
  BY DEF ListNext, Search, StartList, Loop, EndList, nBestVars, vars
<1>4. Spec => []IInv
  BY <1>1, InitIInv, PTL DEF Spec
<1>5. ListSpec => []IInv
  BY <1>1, <1>2, <1>3, InitIInv, PTL DEF ListSpec
<1> QED BY <1>4, <1>5

-----------------------------------------------------------------------------
(* The search goes on *)

\* A stack has hypotheses if any was made for it: none is pruned that is better
\* than all that stay.
LEMMA StackNotEmpty ==
  ASSUME StacksOwn, NEW k \in 0 .. SourceSize, Of(k) # {}
  PROVE  stacks[k].hypos # {}
<1>1. Consistent(stacks[k], arcs, FreedOf(k), Of(k))
  BY DEF StacksOwn
<1>2. BestHeld(stacks[k], Of(k))
  BY <1>1 DEF Consistent
<1> QED BY <1>2 DEF BestHeld

\* Of a hypothesis that is not complete, the first gap can be translated alone.
LEMMA GapHasOption ==
  ASSUME EveryWordHasOption, NoZones, SentenceKept, NEW h \in AllHypos, Cardinality(h.cov) < SourceSize
  PROVE  \E i \in 1 .. Len(options) :
           /\ CanExpand(ConstraintOf[options], h.cov, h.range, options[i].s, options[i].e)
           /\ options[i].s = options[i].e
<1> DEFINE g == FirstGapPos(h.cov)
<1>1. h.cov \in SUBSET Positions /\ GapInReach(h.cov, h.range)
  BY DEF SentenceKept, WellMade
<1>2. h.cov # Positions
  BY PositionsFinite, SourceSizeAssumption
<1>3. ConstraintOf[options].zones = <<>>
  BY DEF NoZones, SentenceKept
<1>4. g \in Positions /\ CanExpand(ConstraintOf[options], h.cov, h.range, g, g)
  BY <1>1, <1>2, <1>3, GapCanBeTranslated
<1> HIDE DEF g
<1>5. <<g, g>> \in OptionSpans
  BY <1>4 DEF EveryWordHasOption
<1>6. /\ DOMAIN options = 1 .. Len(options)
      /\ {<<options[i].s, options[i].e>> : i \in DOMAIN options} = OptionSpans
  BY OptionsAssumption DEF SentenceKept
<1>7. PICK i \in 1 .. Len(options) : <<options[i].s, options[i].e>> = <<g, g>>
  BY <1>5, <1>6
<1>8. options[i].s = g /\ options[i].e = g
  BY <1>7
<1> QED BY <1>4, <1>8

\* At the start: the seed.
LEMMA InitProgress == Init => Progress
<1> SUFFICES ASSUME Init PROVE Progress
  OBVIOUS
<1>1. /\ AllHypos = {Seed} /\ current = 0 /\ expanding = FALSE /\ done = FALSE /\ actual = NoStack
  BY DEF Init, AllHypos
<1>2. Cardinality(Seed.cov) = 0
  BY FS_EmptySet DEF Seed
<1>3. \A k \in 0 .. SourceSize : k <= current => Of(k) # {}
  BY <1>1, <1>2, SourceSizeAssumption DEF Of
<1> QED BY <1>1, <1>3 DEF Progress, StacksReached, ReturnsDuly

\* The turn of a stack begins.
LEMMA StartStackProgress ==
  ASSUME IInv, Progress, StartStack
  PROVE  Progress'
<1>0. PICK c : c = current
  OBVIOUS
<1>1. /\ hypos' = hypos /\ current' = c /\ current = c /\ done' = done /\ ~done
      /\ interrupted' = interrupted /\ actual' = actual /\ c \in 0 .. SourceSize
  BY <1>0, SourceSizeAssumption DEF StartStack, IInv, LoopsOnStack
<1>2. \A k : Of(k)' = Of(k)
  BY <1>1 DEF Of, AllHypos
<1>3. todo' = stacks'[c].hypos
  <2>1. PICK o : stacks' = [stacks EXCEPT ![c] = o.stack] /\ todo' = o.stack.hypos
    BY <1>0 DEF StartStack, ToExpand
  <2> QED BY <1>1, <2>1 DEF IInv, StacksOwn
<1>4. ReturnsDuly'
  BY <1>1 DEF Progress, ReturnsDuly
<1>5. StacksReached'
  BY <1>1, <1>2, <1>3 DEF Progress, StacksReached
<1> QED BY <1>4, <1>5 DEF Progress

\* The turn of a hypothesis begins: the option for its first gap is to be tried.
LEMMA ProcessProgress ==
  ASSUME EveryWordHasOption, NoZones, IInv, Progress, NEW h \in todo, ProcessOneHypothesis(h)
  PROVE  Progress'
<1>0. PICK c : c = current
  OBVIOUS
<1>1. /\ hypos' = hypos /\ stacks' = stacks /\ options' = options /\ current' = c /\ current = c
      /\ done' = done /\ interrupted' = interrupted /\ actual' = actual
      /\ expanding /\ expanding' /\ toTry = {} /\ todo' = todo \ {h} /\ base' = h
      /\ toTry' = {i \in 1 .. Len(options) :
                     CanExpand(ConstraintOf[options], h.cov, h.range, options[i].s, options[i].e)}
  BY <1>0 DEF ProcessOneHypothesis
<1>2. c \in 0 .. SourceSize /\ h \in stacks[c].hypos
  BY <1>1, SourceSizeAssumption DEF IInv, LoopsOnStack
<1>3. \A k : Of(k)' = Of(k)
  BY <1>1 DEF Of, AllHypos
<1>4. h \in AllHypos /\ Cardinality(h.cov) = c
  BY <1>2, StackedCreated DEF IInv
<1>5. c < SourceSize => WordToTry'
  <2> SUFFICES ASSUME c < SourceSize PROVE WordToTry'
    OBVIOUS
  <2>1. \E i \in toTry' : options[i].s = options[i].e
    BY <1>1, <1>4, GapHasOption DEF IInv
  <2> QED BY <1>1, <2>1 DEF WordToTry
<1>6. ~WordToTry
  BY <1>1 DEF WordToTry
<1>7. ReturnsDuly'
  BY <1>1 DEF Progress, ReturnsDuly
<1>8. StacksReached'
  <2>1. \A k \in 0 .. SourceSize : k <= c => Of(k)' # {}
    BY <1>1, <1>3 DEF Progress, StacksReached
  <2>2. ASSUME c < SourceSize, NEW g \in stacks[c].hypos \ (todo \ {h})
        PROVE  Of(c + 1)' # {} \/ (g = h /\ WordToTry')
    <3>1. CASE g = h
      BY <1>5, <2>2, <3>1
    <3>2. CASE g # h
      BY <1>1, <1>3, <1>6, <2>2, <3>2 DEF Progress, StacksReached
    <3> QED BY <3>1, <3>2
  <2> QED BY <1>1, <2>1, <2>2 DEF StacksReached
<1> QED BY <1>7, <1>8 DEF Progress

\* A hypothesis is extended: with the option for a single word it reaches the
\* next stack, and otherwise that option is still to be tried.
LEMMA ExpandProgress ==
  ASSUME IInv, Progress, ExpandHypothesis
  PROVE  Progress'
<1>0. PICK c : c = current
  OBVIOUS
<1>1. /\ options' = options /\ current' = c /\ current = c /\ expanding' = expanding /\ todo' = todo
      /\ base' = base /\ done' = done /\ interrupted' = interrupted /\ actual' = actual
      /\ toTry # {}
  BY <1>0 DEF ExpandHypothesis
<1>2. PICK h, i : /\ i \in toTry /\ toTry' = toTry \ {i}
                  /\ h.cov = base.cov \cup (options[i].s .. options[i].e)
                  /\ AllHypos' = AllHypos \cup {h}
                  /\ stacks'[c] = stacks[c]
  BY <1>1, ExpandHypothesisIInv DEF HypothesisMade
<1>3. /\ c \in 0 .. SourceSize /\ base \in stacks[c].hypos
      /\ CanExpand(ConstraintOf[options], base.cov, base.range, options[i].s, options[i].e)
  BY <1>1, <1>2, SourceSizeAssumption DEF IInv, LoopsOnStack
<1>4. base.cov \in SUBSET Positions /\ Cardinality(base.cov) = c
  BY <1>3, StackedCreated DEF IInv, NumberedInOrder
<1>5. \A k : Of(k) \subseteq Of(k)'
  BY <1>2 DEF Of
<1>6. options[i].s = options[i].e => Of(c + 1)' # {}
  <2> SUFFICES ASSUME options[i].s = options[i].e PROVE Of(c + 1)' # {}
    OBVIOUS
  <2>1. Cardinality(h.cov) = c + 1
    BY <1>2, <1>3, <1>4, OneWordMore
  <2> QED BY <1>2, <2>1 DEF Of
<1>7. ReturnsDuly'
  BY <1>1 DEF Progress, ReturnsDuly
<1>8. WordToTry => WordToTry' \/ options[i].s = options[i].e
  BY <1>1, <1>2 DEF WordToTry
<1>9. StacksReached'
  <2>1. \A k \in 0 .. SourceSize : k <= c => Of(k)' # {}
    BY <1>1, <1>5 DEF Progress, StacksReached
  <2>2. ASSUME expanding, c < SourceSize, NEW g \in stacks[c].hypos \ todo
        PROVE  Of(c + 1)' # {} \/ (g = base /\ WordToTry')
    <3>1. Of(c + 1) # {} \/ (g = base /\ WordToTry)
      BY <1>1, <2>2 DEF Progress, StacksReached
    <3> QED BY <1>5, <1>6, <1>8, <3>1
  <2> QED BY <1>1, <1>2, <2>1, <2>2 DEF StacksReached
<1> QED BY <1>7, <1>9 DEF Progress

\* The turn of a stack ends: its hypotheses have reached the next one.
LEMMA FinishStackProgress ==
  ASSUME IInv, Progress, FinishStack
  PROVE  Progress'
<1>0. PICK c : c = current
  OBVIOUS
<1>1. /\ hypos' = hypos /\ expanding /\ expanding' = FALSE /\ todo = {} /\ toTry = {}
      /\ current' = c + 1 /\ current = c /\ actual' = c /\ done' = done
  BY <1>0 DEF FinishStack
<1>2. c \in 0 .. SourceSize
  BY <1>1, SourceSizeAssumption DEF IInv, LoopsOnStack
<1>3. \A k : Of(k)' = Of(k)
  BY <1>1 DEF Of, AllHypos
<1>4. \A k \in 0 .. SourceSize : k <= c => Of(k) # {}
  BY <1>1 DEF Progress, StacksReached
<1>5. c < SourceSize => Of(c + 1) # {}
  <2> SUFFICES ASSUME c < SourceSize PROVE Of(c + 1) # {}
    OBVIOUS
  <2>1. PICK h : h \in stacks[c].hypos
    BY <1>2, <1>4, StackNotEmpty DEF IInv
  <2>2. ~WordToTry
    BY <1>1 DEF WordToTry
  <2> QED BY <1>1, <2>1, <2>2 DEF Progress, StacksReached
<1>6. \A k \in 0 .. SourceSize : k <= c + 1 => Of(k) # {}
  <2> SUFFICES ASSUME NEW k \in 0 .. SourceSize, k <= c + 1 PROVE Of(k) # {}
    OBVIOUS
  <2>1. CASE k <= c
    BY <1>4, <2>1
  <2>2. CASE k = c + 1
    BY <1>2, <1>5, <2>2, SourceSizeAssumption
  <2> QED BY <1>2, <2>1, <2>2, SourceSizeAssumption
<1>7. StacksReached'
  BY <1>1, <1>3, <1>6 DEF StacksReached
<1>8. ReturnsDuly'
  BY <1>1, <1>2 DEF Progress, ReturnsDuly
<1> QED BY <1>7, <1>8 DEF Progress

\* The search ends.
LEMMA EndProgress ==
  ASSUME IInv, Progress, TimeOut \/ Return \/ UNCHANGED vars
  PROVE  Progress'
<1>1. /\ hypos' = hypos /\ stacks' = stacks /\ options' = options /\ current' = current
      /\ expanding' = expanding /\ todo' = todo /\ base' = base /\ toTry' = toTry /\ actual' = actual
  BY DEF TimeOut, Return, vars
<1>2. (\A k : Of(k)' = Of(k)) /\ WordToTry' = WordToTry
  BY <1>1 DEF Of, AllHypos, WordToTry
<1>3. StacksReached'
  BY <1>1, <1>2 DEF Progress, StacksReached
<1>4. done' => ~expanding' /\ (interrupted' \/ current' = SourceSize + 1)
  <2>1. CASE TimeOut
    BY <2>1 DEF TimeOut
  <2>2. CASE Return
    <3>1. current > SourceSize /\ current \in 0 .. SourceSize + 1
      BY <2>2 DEF Return, IInv, LoopsOnStack
    <3>2. current = SourceSize + 1 /\ ~(current <= SourceSize)
      BY <3>1, SourceSizeAssumption
    <3> QED BY <1>1, <3>2 DEF IInv, LoopsOnStack
  <2>3. CASE UNCHANGED vars
    BY <2>3 DEF vars, Progress, ReturnsDuly
  <2> QED BY <2>1, <2>2, <2>3
<1>5. ReturnsDuly'
  BY <1>1, <1>4 DEF Progress, ReturnsDuly
<1> QED BY <1>3, <1>5 DEF Progress

\* Every step.
LEMMA StepProgress ==
  ASSUME EveryWordHasOption, NoZones, IInv, Progress, [Next]_vars
  PROVE  Progress'
BY StartStackProgress, ProcessProgress, ExpandProgress, FinishStackProgress, EndProgress DEF Next

\* What the search has done has brought it on: from a sentence without zones whose
\* words all have options, every stack is reached before its turn.
THEOREM SearchProgress ==
  ASSUME EveryWordHasOption, NoZones
  PROVE  (Spec => []Progress) /\ (ListSpec => []Progress)
<1>1. IInv /\ Progress /\ [Next]_vars => Progress'
  BY StepProgress
<1>2. ListInit => Init
  BY DEF ListInit
<1>3. [ListNext]_nBestVars => [Next]_vars
  BY DEF ListNext, Search, StartList, Loop, EndList, nBestVars, vars
<1>4. Spec => []Progress
  BY <1>1, InitProgress, SearchInvariant, PTL DEF Spec
<1>5. ListSpec => []Progress
  BY <1>1, <1>2, <1>3, InitProgress, SearchInvariant, PTL DEF ListSpec
<1> QED BY <1>4, <1>5

-----------------------------------------------------------------------------
(* The theorems *)

\* "the stack is pruned before processing": no hypothesis that is still in use,
\* on a stack or on an arc list, has a deleted predecessor.
THEOREM PredecessorsSurvive ==
  (Spec => []PredecessorsAlive) /\ (ListSpec => []PredecessorsAlive)
<1>1. IInv => PredecessorsAlive
  <2> SUFFICES ASSUME IInv, NEW h \in Live \cup OnArcLists, h.prev # 0
               PROVE  hypos[h.prev] \notin freed
    BY DEF PredecessorsAlive
  <2>1. \E k \in 0 .. SourceSize : h \in stacks[k].hypos \cup ArcsOf(stacks[k].hypos, arcs)
    BY DEF Live, OnArcLists, ArcsOf
  <2>2. h \in AllHypos
    BY <2>1, StackedCreated DEF IInv
  <2>3. PICK k \in 0 .. SourceSize : hypos[h.prev] \in stacks[k].hypos
    BY <2>2 DEF IInv, ExtendedInTurn
  <2> QED BY <2>3, StackedCreated DEF IInv
<1> QED BY <1>1, SearchInvariant, PTL

\* GetBestHypothesis: if every word has a translation option of its own, as
\* ProcessUnknownWord sees to, and the sentence has no zones (walls it may have),
\* the stack that the result is taken from is not empty and its hypotheses are
\* finished, whatever was pruned or recombined.
THEOREM TranslationIsFound ==
  ASSUME EveryWordHasOption, NoZones
  PROVE  (Spec => []TranslationFound) /\ (ListSpec => []TranslationFound)
<1>1. IInv /\ Progress => TranslationFound
  <2> SUFFICES ASSUME IInv, Progress, done, ResultStack # NoStack
               PROVE  /\ stacks[ResultStack].hypos # {}
                      /\ \A h \in stacks[ResultStack].hypos : Cardinality(h.cov) = ResultStack
    BY DEF TranslationFound
  <2>1. ResultStack \in 0 .. SourceSize /\ ResultStack <= current
    <3>1. CASE interrupted
      <4>1. ResultStack \in 0 .. SourceSize /\ ResultStack < current
        BY <3>1 DEF ResultStack, Progress, ReturnsDuly
      <4> QED BY <4>1, SourceSizeAssumption DEF IInv, LoopsOnStack
    <3>2. CASE ~interrupted
      BY <3>2, SourceSizeAssumption DEF ResultStack, Progress, ReturnsDuly
    <3> QED BY <3>1, <3>2
  <2>2. Of(ResultStack) # {}
    BY <2>1 DEF Progress, StacksReached
  <2>3. StacksOwn
    BY DEF IInv
  <2> QED BY <2>1, <2>2, <2>3, StackNotEmpty, StackedCreated
<1> QED BY <1>1, SearchInvariant, SearchProgress, PTL
=============================================================================
