------------------------ MODULE StackLifecycleProofs ------------------------
(***************************************************************************)
(* The life of a stack, for every sequence of arrivals, every stack size,  *)
(* beam, diversity and number of coverages: no hypothesis is lost or owned *)
(* twice, the best one stays, the size is bounded and so is the number of  *)
(* the hypotheses that each coverage loses.                                *)
(***************************************************************************)
EXTENDS StackLifecycle, HypothesisStackProofs

-----------------------------------------------------------------------------
(* The inductive invariant *)

\* Hypotheses are numbered in the order in which they arrive.
NumberedInOrder ==
  /\ IsFiniteSet(arrived) /\ DOMAIN arcs = 1 .. MaxArrivals
  /\ \A h \in arrived : h.id \in 1 .. Cardinality(arrived)
  /\ \A i \in DOMAIN arcs : i > Cardinality(arrived) => arcs[i] = {}

\* The stack is not larger than Add tolerates, and after its turn not larger than
\* its settings allow.
SizeKept ==
  /\ Cardinality(stack.hypos) <= ToleratedSize(stack.settings)
  /\ closed => Cardinality(stack.hypos) <= MaxStackSize \/ OnlyDiverse(stack)

\* The operations of the stack have left it consistent with all that has arrived.
IInv ==
  /\ Consistent(stack, arcs, freed, arrived)
  /\ NumberedInOrder
  /\ SizeKept

-----------------------------------------------------------------------------
(* The steps *)

\* The tolerated size leaves room for the stack of one's settings, and for the
\* quota of every coverage.
LEMMA ToleratedEnough ==
  ASSUME NEW s, IsStack(s), NotTooLarge(s)
  PROVE  Cardinality(s.hypos) <= ToleratedSize(s.settings)
<1> DEFINE o == s.settings
           p == 2 ^ StackDistortion
           q == o.diversity * p
<1>1. /\ o \in Settings /\ o.maxSize \in Nat \ {0} /\ o.diversity \in Nat
      /\ IsFiniteSet(s.hypos) /\ \A h \in s.hypos : h.cov \in Coverages
  BY SettingsTypes DEF IsStack, Sortable
<1>2. p \in Nat /\ o.diversity * Cardinality(Coverages) <= ToleratedSize(o)
  BY <1>1, DiversityAssumption
<1>3. q \in Nat
  <2> HIDE DEF p
  <2> QED BY <1>1, <1>2, Multiples
<1>4. ToleratedSize(o) = 2 * o.maxSize - 1 + q
  BY DEF ToleratedSize
<1>5. Cardinality(s.hypos) \in Nat
  BY <1>1, FS_CardinalityType
<1> HIDE DEF p, q
<1>6. ToleratedSize(o) \in Nat /\ o.maxSize <= ToleratedSize(o)
  BY <1>1, <1>3, <1>4
<1>7. CASE ~(Cardinality(s.hypos) > ToleratedSize(o))
  BY <1>5, <1>6, <1>7
<1>8. CASE Cardinality(s.hypos) <= o.maxSize
  BY <1>1, <1>5, <1>6, <1>8
<1>9. CASE OnlyDiverse(s)
  <2> DEFINE k == o.diversity
             C == Coverages
             H == s.hypos
  <2>1. \A c \in C : Cardinality({h \in H : h.cov = c}) <= k
    BY <1>9 DEF OnlyDiverse
  <2>2. IsFiniteSet(C) /\ IsFiniteSet(H) /\ (\A h \in H : h.cov \in C) /\ k \in Nat
    BY <1>1, DiversityAssumption
  <2> HIDE DEF k, C, H
  <2>3. Cardinality(H) <= k * Cardinality(C)
    BY <2>1, <2>2, FewOfEachCoverage
  <2>4. k * Cardinality(C) \in Nat
    BY <2>2, FS_CardinalityType, Multiples
  <2>5. Cardinality(H) <= ToleratedSize(o)
    BY <1>2, <1>5, <1>6, <2>3, <2>4 DEF k, C, H
  <2> QED BY <2>5 DEF H
<1> QED BY <1>7, <1>8, <1>9 DEF NotTooLarge

\* The empty stack.
LEMMA InitIInv == Init => IInv
<1> SUFFICES ASSUME Init PROVE IInv
  OBVIOUS
<1>1. PICK settings \in Settings : stack = EmptyStack(settings)
  BY DEF Init
<1>2. stack.hypos = {} /\ stack.settings = settings
  BY <1>1 DEF EmptyStack
<1>3. IsFiniteSet({}) /\ Cardinality({}) = 0
  BY FS_EmptySet
<1>4. arcs = [i \in 1 .. MaxArrivals |-> {}] /\ freed = {} /\ arrived = {} /\ closed = FALSE
  BY DEF Init
<1>5. Consistent(stack, arcs, freed, arrived)
  BY <1>1, <1>4, EmptyConsistent
<1>6. NumberedInOrder
  BY <1>3, <1>4 DEF NumberedInOrder
<1>7. SizeKept
  <2>1. stack.settings.maxSize \in Nat
    BY <1>1, <1>2, SettingsTypes
  <2>2. Cardinality(stack.hypos) <= stack.settings.maxSize
    BY <1>2, <1>3, <2>1
  <2>3. Cardinality(stack.hypos) <= ToleratedSize(stack.settings)
    BY <1>5, <2>2, ToleratedEnough DEF Consistent, NotTooLarge
  <2> QED BY <1>4, <2>3 DEF SizeKept
<1> QED BY <1>5, <1>6, <1>7 DEF IInv

\* The settings stay, and what a step has deleted was recombined, or the stack has
\* no use for it.
DeletedDuly ==
  /\ stack'.settings = stack.settings
  /\ \A x \in freed' \ freed : Recombined(x, arrived') \/ Superfluous(x, stack')

\* A hypothesis arrives.
LEMMA ArriveIInv ==
  ASSUME IInv, NEW c \in Coverages, NEW s \in States, NEW total \in Totals, Arrive(c, s, total)
  PROVE  IInv' /\ DeletedDuly
<1> DEFINE h == [id |-> Cardinality(arrived) + 1, cov |-> c, state |-> s, total |-> total]
<1>1. PICK o \in AddPrune(stack, arcs, h) : Becomes(o)
  BY DEF Arrive
<1>2. /\ arrived' = arrived \cup {h} /\ closed' = closed /\ ~closed
      /\ h.id <= MaxArrivals /\ h.id = Cardinality(arrived) + 1
      /\ h.cov \in Coverages /\ h.total \in Int /\ h.total >= NegInf
  BY ArrivalsAssumption DEF Arrive
<1> HIDE DEF h
<1>3. stack' = o.stack /\ arcs' = o.arcs /\ freed' = freed \cup o.freed
  BY <1>1 DEF Becomes
<1>4. Consistent(stack, arcs, freed, arrived) /\ Cardinality(arrived) \in Nat
  BY FS_CardinalityType DEF IInv, NumberedInOrder
<1>5. IsNew(h, arrived, arcs)
  <2>1. h.id \in DOMAIN arcs /\ arcs[h.id] = {}
    BY <1>2, <1>4, ArrivalsAssumption DEF IInv, NumberedInOrder
  <2>2. \A g \in arrived : g.id # h.id
    BY <1>2, <1>4 DEF IInv, NumberedInOrder
  <2> QED BY <1>2, <2>1, <2>2 DEF IsNew
<1>6. Leaves(stack, arcs, freed, arrived \cup {h}, o) /\ (NotTooLarge(o.stack) \/ o.stack = stack)
  BY <1>1, <1>2, <1>4, <1>5, AddPruneConsistent
<1>7. Consistent(stack, arcs, freed, arrived)'
  BY <1>2, <1>3, <1>6 DEF Leaves
<1>8. DeletedDuly
  BY <1>2, <1>3, <1>6 DEF Leaves, DeletedDuly
<1>9. NumberedInOrder'
  <2>1. DOMAIN arcs' = 1 .. MaxArrivals /\ Elsewhere(arcs, arcs', arrived')
    BY <1>2, <1>3, <1>6 DEF Leaves, Elsewhere, IInv, NumberedInOrder
  <2>2. h \notin arrived
    BY <1>5 DEF IsNew
  <2>3. IsFiniteSet(arrived') /\ Cardinality(arrived') = Cardinality(arrived) + 1
    BY <1>2, <2>2, FS_AddElement DEF IInv, NumberedInOrder
  <2>4. \A g \in arrived' : g.id \in 1 .. Cardinality(arrived')
    BY <1>2, <1>4, <2>3 DEF IInv, NumberedInOrder
  <2>5. ASSUME NEW i \in DOMAIN arcs', i > Cardinality(arrived') PROVE arcs'[i] = {}
    <3>1. i \in DOMAIN arcs /\ i > Cardinality(arrived) /\ i \in Int
      BY <1>4, <2>1, <2>3, <2>5, ArrivalsAssumption DEF IInv, NumberedInOrder
    <3>2. \A g \in arrived' : g.id # i
      BY <1>4, <2>3, <2>4, <2>5, <3>1
    <3> QED BY <2>1, <3>1, <3>2 DEF Elsewhere, IInv, NumberedInOrder
  <2> QED BY <2>1, <2>3, <2>4, <2>5 DEF NumberedInOrder
<1>10. SizeKept'
  <2>1. CASE NotTooLarge(o.stack)
    <3>1. IsStack(o.stack)
      BY <1>6 DEF Leaves, Consistent
    <3>2. Cardinality(o.stack.hypos) <= ToleratedSize(o.stack.settings)
      BY <2>1, <3>1, ToleratedEnough
    <3> QED BY <1>2, <1>3, <3>2 DEF SizeKept
  <2>2. CASE o.stack = stack
    BY <1>2, <1>3, <2>2 DEF SizeKept, IInv
  <2> QED BY <1>6, <2>1, <2>2
<1> QED BY <1>7, <1>8, <1>9, <1>10 DEF IInv

\* The turn of the stack.
LEMMA TurnIInv ==
  ASSUME IInv, Turn
  PROVE  IInv' /\ DeletedDuly
<1> DEFINE n == stack.settings.maxSize
<1>1. PICK p \in PruneToSize(stack, arcs, n) :
        \E q \in CleanupArcList(p.stack, p.arcs) : Becomes([q EXCEPT !.freed = @ \cup p.freed])
  BY DEF Turn
<1>2. PICK q \in CleanupArcList(p.stack, p.arcs) : Becomes([q EXCEPT !.freed = @ \cup p.freed])
  BY <1>1
<1>3. arrived' = arrived
  BY DEF Turn
<1>4. Consistent(stack, arcs, freed, arrived)
  BY DEF IInv
<1> DEFINE o == [q EXCEPT !.freed = @ \cup p.freed]
<1>5. /\ Leaves(stack, arcs, freed, arrived, o)
      /\ Cardinality(o.stack.hypos) <= n \/ OnlyDiverse(o.stack)
  BY <1>1, <1>2, <1>4, TurnConsistent
<1>6. stack' = o.stack /\ arcs' = o.arcs /\ freed' = freed \cup o.freed
  BY <1>2 DEF Becomes
<1> HIDE DEF o, n
<1>7. Consistent(stack, arcs, freed, arrived)'
  BY <1>3, <1>5, <1>6 DEF Leaves
<1>8. DeletedDuly
  BY <1>3, <1>5, <1>6 DEF Leaves, DeletedDuly
<1>9. NumberedInOrder'
  <2>1. Elsewhere(arcs, arcs', arrived)
    BY <1>5, <1>6 DEF Leaves
  <2>2. \A i \in DOMAIN arcs : i > Cardinality(arrived) => \A g \in arrived : g.id # i
    BY <1>4, FS_CardinalityType, ArrivalsAssumption DEF IInv, NumberedInOrder
  <2> QED BY <1>3, <2>1, <2>2 DEF Elsewhere, IInv, NumberedInOrder
<1>10. SizeKept'
  <2>1. Cardinality(o.stack.hypos) <= o.stack.settings.maxSize \/ OnlyDiverse(o.stack)
    BY <1>5 DEF n, Leaves
  <2>2. IsStack(o.stack) /\ NotTooLarge(o.stack)
    BY <1>5, <2>1 DEF Leaves, Consistent, NotTooLarge
  <2>3. Cardinality(o.stack.hypos) <= ToleratedSize(o.stack.settings)
    BY <2>2, ToleratedEnough
  <2> QED BY <1>6, <2>1, <2>3 DEF SizeKept, MaxStackSize
<1> QED BY <1>7, <1>8, <1>9, <1>10 DEF IInv

\* Every step.
LEMMA StepIInv ==
  ASSUME IInv, [Next]_vars
  PROVE  IInv' /\ DeletedDuly
<1>1. CASE \E c \in Coverages, s \in States, total \in Totals : Arrive(c, s, total)
  BY <1>1, ArriveIInv
<1>2. CASE Turn
  BY <1>2, TurnIInv
<1>3. CASE UNCHANGED vars
  <2>1. IInv'
    <3>1. /\ stack' = stack /\ arcs' = arcs /\ freed' = freed
          /\ arrived' = arrived /\ closed' = closed
      BY <1>3 DEF vars
    <3>2. NumberedInOrder' /\ SizeKept' /\ Consistent(stack, arcs, freed, arrived)'
      BY <3>1 DEF IInv, NumberedInOrder, SizeKept, MaxStackSize
    <3> QED BY <3>2 DEF IInv
  <2>2. DeletedDuly
    BY <1>3 DEF vars, DeletedDuly
  <2> QED BY <2>1, <2>2
<1> QED BY <1>1, <1>2, <1>3 DEF Next

\* The inductive invariant.
THEOREM StackInvariant == Spec => []IInv
<1>1. IInv /\ [Next]_vars => IInv'
  BY StepIInv
<1> QED BY <1>1, InitIInv, PTL DEF Spec

-----------------------------------------------------------------------------
(* The theorems *)

\* AddArc, Remove, Detach and ~Hypothesis: every hypothesis that arrived is on
\* the stack, on one arc list of it or deleted, once.
THEOREM OwnershipHolds == Spec => []OwnedOnce
<1>1. IInv => OwnedOnce
  <2> SUFFICES ASSUME IInv PROVE OwnedOnce
    OBVIOUS
  <2>1. Owned(stack.hypos, arcs, freed, arrived) /\ Numbered(arrived, arcs)
    BY DEF IInv, Consistent
  <2>2. OnArcs = ArcsOf(stack.hypos, arcs)
    BY DEF OnArcs, ArcsOf
  <2>3. Losers(stack.hypos, arcs)
    BY DEF IInv, Consistent
  <2> QED BY <2>1, <2>2, <2>3 DEF Owned, Losers, OwnedOnce
<1> QED BY <1>1, StackInvariant, PTL

\* GetBestHypothesis: pruning and recombination keep a hypothesis as good as the
\* best that ever arrived.
THEOREM BestIsKept == Spec => []BestNeverLost
<1>1. IInv => BestNeverLost
  BY DEF IInv, Consistent, BestHeld, BestNeverLost
<1> QED BY <1>1, StackInvariant, PTL

\* Add's lazy pruning and the final PruneToSize bound the size of the stack.
THEOREM SizeIsBounded == Spec => []SizeBounded
<1>1. IInv => SizeBounded
  <2> SUFFICES ASSUME IInv PROVE SizeBounded
    OBVIOUS
  <2>1. \A h \in stack.hypos : h.cov \in Coverages
    BY DEF IInv, Consistent, IsStack
  <2> QED BY <2>1 DEF IInv, SizeKept, SizeBounded, OnlyDiverse, MinDiversity
<1> QED BY <1>1, StackInvariant, PTL

\* -stack-diversity: a coverage loses a hypothesis only to recombination or when
\* its quota is on the stack with hypotheses at least as good.
THEOREM DiversityIsRespected == Spec => DiversityRespected
<1> DEFINE Respected ==
             \A h \in freed' \ freed :
                \/ LostToRecombination(h)
                \/ Cardinality({g \in stack'.hypos : g.cov = h.cov /\ g.total >= h.total})
                     >= MinDiversity
<1>1. ASSUME IInv, [Next]_vars PROVE [Respected]_vars
  <2>1. IInv' /\ DeletedDuly
    BY <1>1, StepIInv
  <2>2. \A h \in freed' \ freed : Recombined(h, arrived') \/ QuotaKept(h, stack')
    BY <2>1 DEF DeletedDuly, Superfluous
  <2>3. \A h : Recombined(h, arrived') => LostToRecombination(h)
    BY DEF Recombined, LostToRecombination
  <2>4. \A h : QuotaKept(h, stack') =>
               Cardinality({g \in stack'.hypos : g.cov = h.cov /\ g.total >= h.total})
                 >= MinDiversity
    BY <2>1 DEF QuotaKept, AsGood, DeletedDuly, MinDiversity
  <2> QED BY <2>2, <2>3, <2>4
<1> QED BY <1>1, StackInvariant, PTL DEF Spec, DiversityRespected

\* AddPrune and PruneToSize: a hypothesis is given up for good only outside of the
\* beam, or when the stack has its size without it.
THEOREM NoneGivenUpRashly == Spec => GivenUpForGoodReason
<1> DEFINE Reasonable ==
             \A h \in freed' \ freed :
                \/ LostToRecombination(h)
                \/ h.total <= stack'.best + BeamWidth
                \/ Cardinality({g \in stack'.hypos : g.total >= h.total \/ KeptForDiversity(g)'})
                     >= MaxStackSize
<1>1. ASSUME IInv, [Next]_vars PROVE [Reasonable]_vars
  <2>1. IInv' /\ DeletedDuly
    BY <1>1, StepIInv
  <2>2. \A h \in freed' \ freed : Recombined(h, arrived') \/ NoPlaceFor(h.total, stack')
    BY <2>1 DEF DeletedDuly, Superfluous
  <2>3. \A h : Recombined(h, arrived') => LostToRecombination(h)
    BY DEF Recombined, LostToRecombination
  <2>4. \A g : AmongDiverse(g, stack') = KeptForDiversity(g)'
    BY DEF AmongDiverse, KeptForDiversity, MinDiversity
  <2>5. \A x : {g \in stack'.hypos : g.total >= x \/ AmongDiverse(g, stack')}
               = {g \in stack'.hypos : g.total >= x \/ KeptForDiversity(g)'}
    BY <2>4
  <2>6. \A x : NoPlaceFor(x, stack') =>
                 \/ x <= stack'.best + BeamWidth
                 \/ Cardinality({g \in stack'.hypos : g.total >= x \/ KeptForDiversity(g)'})
                      >= MaxStackSize
    BY <2>1, <2>5 DEF NoPlaceFor, DeletedDuly, BeamWidth, MaxStackSize
  <2> QED BY <2>2, <2>3, <2>6
<1> QED BY <1>1, StackInvariant, PTL DEF Spec, GivenUpForGoodReason
=============================================================================
