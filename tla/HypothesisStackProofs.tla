------------------------ MODULE HypothesisStackProofs ------------------------
(***************************************************************************)
(* Lemmas about the operations of a hypothesis stack, for every stack size *)
(* and every set of hypotheses: what sorting and pruning keep, what they   *)
(* delete, and who owns a hypothesis afterwards.                           *)
(***************************************************************************)
EXTENDS HypothesisStack, FiniteSetTheorems, WellFoundedInduction, TLAPS

\* Hypotheses that can be sorted.
Sortable(H) == IsFiniteSet(H) /\ \A h \in H : h.total \in Int

-----------------------------------------------------------------------------
(* Sorting *)

\* Induction on sets of natural numbers: one that is not empty has a least
\* element.
LEMMA LeastNumber ==
  ASSUME NEW S \in SUBSET Nat, S # {}
  PROVE  \E n \in S : \A m \in S : n <= m
<1>1. \E n \in S : \A m \in S : ~(<<m, n>> \in OpToRel(<, Nat))
  BY NatLessThanWellFounded, WFMin
<1>2. PICK n \in S : \A m \in S : ~(<<m, n>> \in OpToRel(<, Nat))
  BY <1>1
<1>3. \A m \in S : n <= m
  <2>1. TAKE m \in S
  <2>2. m \in Nat /\ n \in Nat /\ ~(m < n)
    BY <1>2 DEF OpToRel
  <2> QED BY <2>2
<1> QED BY <1>3

\* Some hypothesis is worse than no other.
LEMMA WorstExists ==
  ASSUME NEW H, Sortable(H), H # {}
  PROVE  \E h \in H : \A g \in H : h.total <= g.total
<1> DEFINE Bottomless(T) == T # {} /\ \A h \in T : \E g \in T : g.total < h.total
           Sizes == {n \in Nat : \E T \in SUBSET H : Cardinality(T) = n /\ Bottomless(T)}
<1>1. SUFFICES ASSUME Bottomless(H) PROVE FALSE
  BY DEF Sortable
<1>2. Cardinality(H) \in Sizes
  BY <1>1, FS_CardinalityType DEF Sortable
<1>3. PICK n \in Sizes : \A m \in Sizes : n <= m
  BY <1>2, LeastNumber
<1>4. PICK T \in SUBSET H : Cardinality(T) = n /\ Bottomless(T)
  BY <1>3
<1>5. PICK x \in T : TRUE
  BY <1>4
<1> DEFINE U == T \ {x}
<1>6. IsFiniteSet(T) /\ \A h \in T : h.total \in Int
  BY <1>4, FS_Subset DEF Sortable
<1>7. Cardinality(U) = n - 1 /\ n - 1 \in Nat
  <2>1. IsFiniteSet(U) /\ Cardinality(U) = n - 1
    BY <1>4, <1>5, <1>6, FS_RemoveElement
  <2>2. Cardinality(U) \in Nat
    BY <2>1, FS_CardinalityType
  <2> QED BY <2>1, <2>2
<1>8. ~Bottomless(U)
  <2>1. n - 1 \notin Sizes
    BY <1>3, <1>7
  <2>2. U \in SUBSET H
    BY <1>4
  <2> QED BY <1>7, <2>1, <2>2
<1>9. PICK y \in T : y.total < x.total
  BY <1>4, <1>5
<1>10. y \in U
  BY <1>6, <1>9
<1>11. PICK h \in U : \A g \in U : ~(g.total < h.total)
  BY <1>8, <1>10
<1>12. PICK g \in T : g.total < h.total
  BY <1>4, <1>11
<1>13. g = x
  BY <1>11, <1>12
<1>14. y.total < h.total
  BY <1>6, <1>9, <1>10, <1>11, <1>12, <1>13
<1> QED BY <1>10, <1>11, <1>14

\* LeastScore is the score of the worst.
LEMMA LeastScoreIsWorst ==
  ASSUME NEW H, Sortable(H), H # {}
  PROVE  /\ LeastScore(H) \in Int
         /\ \E h \in H : h.total = LeastScore(H)
         /\ \A h \in H : LeastScore(H) <= h.total
<1> DEFINE T == {h.total : h \in H}
<1>1. \E x \in T : \A y \in T : x <= y
  <2>1. PICK h \in H : \A g \in H : h.total <= g.total
    BY WorstExists
  <2> QED BY <2>1
<1>2. LeastScore(H) = CHOOSE x \in T : \A y \in T : x <= y
  BY DEF LeastScore, Min
<1>3. LeastScore(H) \in T /\ \A y \in T : LeastScore(H) <= y
  BY <1>1, <1>2
<1> QED BY <1>3 DEF Sortable

\* The k best of H: k of them, or all; and none that is left out is better than
\* one that is kept.
LEMMA TopSetsKeepBest ==
  ASSUME NEW H, Sortable(H), NEW k \in Nat, NEW K \in TopSets(H, k)
  PROVE  /\ K \subseteq H
         /\ Cardinality(K) \in Nat /\ Cardinality(K) <= k
         /\ Cardinality(K) = k \/ K = H
         /\ \A g \in K, h \in H \ K : g.total >= h.total
<1> DEFINE AtLeast(h) == {g \in H : ~(h.total > g.total)}
           Above(h) == {g \in H : g.total > h.total}
           sure == {h \in H : Cardinality(AtLeast(h)) <= k}
           tied == {h \in H \ sure : Cardinality(Above(h)) < k}
           rest == IF k < Cardinality(H) THEN k - Cardinality(sure) ELSE 0
<1>1. PICK T \in kSubset(rest, tied) : K = sure \cup T
  BY DEF TopSets, FirstSets
<1>2. T \subseteq tied /\ Cardinality(T) = rest
  BY <1>1 DEF kSubset
<1>3. K \subseteq H /\ IsFiniteSet(K) /\ Cardinality(K) \in Nat
  <2>1. K \in SUBSET H
    BY <1>1, <1>2
  <2> QED BY <2>1, FS_Subset, FS_CardinalityType DEF Sortable
<1>4. /\ IsFiniteSet(sure) /\ IsFiniteSet(T)
      /\ Cardinality(sure) \in Nat /\ Cardinality(H) \in Nat
  <2>1. sure \in SUBSET H /\ T \in SUBSET H
    BY <1>2
  <2> QED BY <2>1, FS_Subset, FS_CardinalityType DEF Sortable
<1>5. Cardinality(K) <= k /\ (Cardinality(K) = k \/ K = H)
  <2>1. Cardinality(K) = Cardinality(sure) + Cardinality(T)
    <3>1. sure \cap T = {}
      BY <1>2
    <3>2. Cardinality(sure \cup T)
            = Cardinality(sure) + Cardinality(T) - Cardinality(sure \cap T)
      BY <1>4, FS_Union
    <3>3. Cardinality(T) \in Nat
      BY <1>4, FS_CardinalityType
    <3>4. Cardinality(sure \cap T) = 0
      BY <3>1, FS_EmptySet
    <3>5. Cardinality(sure \cup T) = Cardinality(sure) + Cardinality(T)
      BY <1>4, <3>2, <3>3, <3>4
    <3> QED BY <1>1, <3>5
  <2>2. CASE k < Cardinality(H)
    <3>1. Cardinality(K) = k
      BY <1>2, <1>4, <2>1, <2>2
    <3> QED BY <3>1
  <2>3. CASE ~(k < Cardinality(H))
    <3>1. ASSUME NEW h \in H PROVE Cardinality(AtLeast(h)) <= k
      <4>1. AtLeast(h) \in SUBSET H
        OBVIOUS
      <4>2. Cardinality(AtLeast(h)) \in Nat /\ Cardinality(AtLeast(h)) <= Cardinality(H)
        BY <4>1, FS_Subset, FS_CardinalityType DEF Sortable
      <4> QED BY <1>4, <2>3, <4>2
    <3>2. sure = H
      BY <3>1
    <3>3. K = H
      BY <1>1, <1>2, <3>2
    <3> QED BY <1>4, <2>3, <3>3
  <2> QED BY <2>2, <2>3
<1>6. ASSUME NEW g \in K, NEW h \in H \ K PROVE g.total >= h.total
  <2>1. SUFFICES ASSUME g.total < h.total PROVE FALSE
    BY <1>3, <1>6 DEF Sortable
  <2>2. AtLeast(h) \in SUBSET Above(g) /\ AtLeast(h) \in SUBSET AtLeast(g)
    BY <1>3, <2>1 DEF Sortable
  <2>3. IsFiniteSet(Above(g)) /\ IsFiniteSet(AtLeast(g)) /\ IsFiniteSet(AtLeast(h))
    <3>1. Above(g) \in SUBSET H /\ AtLeast(g) \in SUBSET H /\ AtLeast(h) \in SUBSET H
      OBVIOUS
    <3> QED BY <3>1, FS_Subset DEF Sortable
  <2>4. /\ Cardinality(AtLeast(h)) <= Cardinality(Above(g))
        /\ Cardinality(AtLeast(h)) <= Cardinality(AtLeast(g))
    BY <2>2, <2>3, FS_Subset
  <2>5. /\ Cardinality(AtLeast(h)) \in Nat /\ Cardinality(Above(g)) \in Nat
        /\ Cardinality(AtLeast(g)) \in Nat
    BY <2>3, FS_CardinalityType
  <2>6. ~(Cardinality(AtLeast(h)) <= k)
    BY <1>1, <1>6
  <2>7. g \in sure \/ g \in tied
    BY <1>1, <1>2
  <2> QED BY <2>4, <2>5, <2>6, <2>7
<1> QED BY <1>3, <1>5, <1>6

\* Multiplication, step by step.
LEMMA Multiples ==
  ASSUME NEW k \in Nat
  PROVE  k * 0 = 0 /\ \A n \in Nat : k * (n + 1) = k * n + k /\ k * n \in Nat
<1>1. k * 0 = 0
  OBVIOUS
<1>2. ASSUME NEW n \in Nat PROVE k * (n + 1) = k * n + k /\ k * n \in Nat
  OBVIOUS
<1> QED BY <1>1, <1>2

\* Sets of at most k hypotheses of each coverage.
LEMMA FewOfEachCoverage ==
  ASSUME NEW C, IsFiniteSet(C), NEW H, IsFiniteSet(H), \A h \in H : h.cov \in C,
         NEW k \in Nat, \A c \in C : Cardinality({h \in H : h.cov = c}) <= k
  PROVE  Cardinality(H) <= k * Cardinality(C)
<1> DEFINE Of(B) == {h \in H : h.cov \in B}
           Sizes == {n \in Nat : \E B \in SUBSET C :
                                   Cardinality(B) = n /\ ~(Cardinality(Of(B)) <= k * n)}
<1>1. \A B \in SUBSET C : /\ IsFiniteSet(B) /\ Cardinality(B) \in Nat
                          /\ IsFiniteSet(Of(B)) /\ Cardinality(Of(B)) \in Nat
  <2>1. TAKE B \in SUBSET C
  <2>2. Of(B) \in SUBSET H
    OBVIOUS
  <2> QED BY <2>2, FS_Subset, FS_CardinalityType
<1>2. Sizes = {}
  <2>1. SUFFICES ASSUME Sizes # {} PROVE FALSE
    OBVIOUS
  <2>2. PICK n \in Sizes : \A m \in Sizes : n <= m
    BY <2>1, LeastNumber
  <2>3. PICK B \in SUBSET C : Cardinality(B) = n /\ ~(Cardinality(Of(B)) <= k * n)
    BY <2>2
  <2>4. B # {}
    <3>1. SUFFICES ASSUME B = {} PROVE FALSE
      OBVIOUS
    <3>2. Of(B) = {} /\ n = 0
      BY <2>3, <3>1, FS_EmptySet
    <3>3. Cardinality(Of(B)) = 0
      BY <3>2, FS_EmptySet
    <3>4. k * n = 0
      BY <3>2, Multiples
    <3> QED BY <2>3, <3>3, <3>4
  <2>5. PICK c \in B : TRUE
    BY <2>4
  <2> DEFINE A == B \ {c}
             Last == {h \in H : h.cov = c}
  <2>6. A \in SUBSET C /\ Cardinality(A) = n - 1 /\ n - 1 \in Nat
    <3>1. A \in SUBSET C /\ Cardinality(A) = n - 1
      BY <1>1, <2>3, <2>5, FS_RemoveElement
    <3> QED BY <1>1, <3>1
  <2>7. Cardinality(Of(A)) <= k * (n - 1)
    <3> DEFINE m == n - 1
    <3>1. ~(n <= m) /\ m \in Nat /\ Cardinality(A) = m
      BY <2>6
    <3> HIDE DEF m
    <3>2. m \notin Sizes
      BY <2>2, <3>1
    <3>3. Cardinality(Of(A)) <= k * m
      BY <2>6, <3>1, <3>2
    <3> QED BY <3>3 DEF m
  <2>8. Cardinality(Of(B)) = Cardinality(Of(A)) + Cardinality(Last)
    <3>1. Of(B) = Of(A) \cup Last /\ Of(A) \cap Last = {}
      BY <2>5
    <3>2. IsFiniteSet(Last) /\ Cardinality(Last) \in Nat
      <4>1. Last \in SUBSET H
        OBVIOUS
      <4> QED BY <4>1, FS_Subset, FS_CardinalityType
    <3>3. Cardinality(Of(A) \cup Last)
            = Cardinality(Of(A)) + Cardinality(Last) - Cardinality(Of(A) \cap Last)
      BY <1>1, <2>6, <3>2, FS_Union
    <3>4. Cardinality(Of(A) \cap Last) = 0
      BY <3>1, FS_EmptySet
    <3>5. Cardinality(Of(A)) \in Nat
      BY <1>1, <2>6
    <3> HIDE DEF Of, Last, A
    <3> QED BY <3>1, <3>2, <3>3, <3>4, <3>5
  <2>9. Cardinality(Last) <= k /\ Cardinality(Last) \in Nat
    <3>1. Last \in SUBSET H
      OBVIOUS
    <3> QED BY <2>3, <2>5, <3>1, FS_Subset, FS_CardinalityType
  <2>10. k * n = k * (n - 1) + k /\ k * (n - 1) \in Nat
    <3> DEFINE m == n - 1
    <3>1. m \in Nat /\ n = m + 1
      BY <2>6
    <3> HIDE DEF m
    <3>2. k * (m + 1) = k * m + k /\ k * m \in Nat
      BY <3>1, Multiples
    <3>3. k * n = k * m + k
      BY <3>1, <3>2
    <3> QED BY <3>2, <3>3 DEF m
  <2>11. Cardinality(Of(A)) \in Nat /\ Cardinality(Of(B)) \in Nat
    BY <1>1, <2>3, <2>6
  <2> HIDE DEF Of, Last, A
  <2>12. k * n \in Nat
    BY <2>2, <2>10
  <2> QED BY <2>3, <2>7, <2>8, <2>9, <2>10, <2>11, <2>12
<1>3. Of(C) = H /\ Cardinality(C) \in Nat
  BY <1>1
<1> QED BY <1>2, <1>3

-----------------------------------------------------------------------------
(* Pruning *)

\* The records that are stacks; no hypothesis is better than the best score.
IsStack(s) ==
  /\ s = [hypos |-> s.hypos, best |-> s.best, worst |-> s.worst,
          covWorst |-> s.covWorst, settings |-> s.settings]
  /\ s.settings \in Settings
  /\ s.best \in Int /\ s.worst \in Int /\ s.covWorst \in [Coverages -> Int]
  /\ Sortable(s.hypos)
  /\ \A h \in s.hypos : h.cov \in Coverages /\ h.total <= s.best

\* PruneToSize has kept the hypotheses D for their coverages and F for their
\* scores, and made t of s.
Prunes(s, n, D, F, t) ==
  /\ D \in DiverseSets(s.hypos, s.settings.diversity)
  /\ F \in TopSets({h \in s.hypos \ D : h.total > s.best + s.settings.beam}, Room(n, D))
  /\ t = [s EXCEPT !.hypos    = D \cup F,
                   !.worst    = IF F # {} /\ Cardinality(D \cup F) = n
                                THEN LeastScore(F) ELSE s.worst,
                   !.covWorst = QuotaScores(s, D)]

\* PruneToSize does nothing, or keeps such sets and deletes the rest.
LEMMA PruneOutcomes ==
  ASSUME NEW s, NEW arcs, NEW n, NEW o \in PruneToSize(s, arcs, n)
  PROVE  \/ Cardinality(s.hypos) <= n /\ o = Outcome(s, arcs, {})
         \/ \E D, F, t : Prunes(s, n, D, F, t) /\ o = Freeing(t, arcs, s.hypos)
<1>1. CASE Cardinality(s.hypos) <= n
  BY <1>1 DEF PruneToSize
<1>2. CASE ~(Cardinality(s.hypos) <= n)
  BY <1>2 DEF PruneToSize, Prunes
<1> QED BY <1>1, <1>2

\* Settings are numbers in their ranges.
LEMMA SettingsTypes ==
  ASSUME NEW o \in Settings
  PROVE  /\ o.maxSize \in Nat \ {0} /\ o.beam \in Int /\ o.beam < 0
         /\ o.diversity \in Nat /\ o.nBest \in BOOLEAN /\ o.nBestSize \in Nat
         /\ o.distinct \in BOOLEAN
BY StackAssumption

\* D has of each coverage the best of H, up to the quota d.
FillsQuota(D, H, d) ==
  /\ D \subseteq H
  /\ \A c : Cardinality({h \in D : h.cov = c}) <= d
  /\ \A h \in H \ D : /\ Cardinality({g \in D : g.cov = h.cov}) = d
                      /\ \A g \in D : g.cov = h.cov => g.total >= h.total

\* The hypotheses kept for diversity are such a set.
LEMMA DiverseSetsKeepBest ==
  ASSUME NEW H, Sortable(H), NEW d \in Nat, NEW D \in DiverseSets(H, d)
  PROVE  FillsQuota(D, H, d)
<1> DEFINE Of(S, c) == {h \in S : h.cov = c}
<1>1. D \subseteq H /\ \A c \in {h.cov : h \in H} : Of(D, c) \in TopSets(Of(H, c), d)
  BY DEF DiverseSets
<1>2. ASSUME NEW c \in {h.cov : h \in H}
      PROVE  /\ Cardinality(Of(D, c)) \in Nat /\ Cardinality(Of(D, c)) <= d
             /\ Cardinality(Of(D, c)) = d \/ Of(D, c) = Of(H, c)
             /\ \A g \in Of(D, c), h \in Of(H, c) \ Of(D, c) : g.total >= h.total
  <2>1. Sortable(Of(H, c))
    <3>1. Of(H, c) \in SUBSET H
      OBVIOUS
    <3> QED BY <3>1, FS_Subset DEF Sortable
  <2>2. Of(D, c) \in TopSets(Of(H, c), d)
    BY <1>1
  <2> HIDE DEF Of
  <2> QED BY <2>1, <2>2, TopSetsKeepBest
<1>3. ASSUME NEW c PROVE Cardinality(Of(D, c)) <= d
  <2>1. CASE c \in {h.cov : h \in H}
    BY <1>2, <2>1
  <2>2. CASE c \notin {h.cov : h \in H}
    <3>1. Of(D, c) = {}
      BY <1>1, <2>2
    <3> QED BY <3>1, FS_EmptySet
  <2> QED BY <2>1, <2>2
<1>4. ASSUME NEW h \in H \ D
      PROVE  /\ Cardinality(Of(D, h.cov)) = d
             /\ \A g \in D : g.cov = h.cov => g.total >= h.total
  <2>1. h.cov \in {x.cov : x \in H} /\ h \in Of(H, h.cov) /\ h \notin Of(D, h.cov)
    OBVIOUS
  <2> QED BY <1>2, <2>1
<1> QED BY <1>1, <1>3, <1>4 DEF FillsQuota

\* Of the hypotheses on the stack, D and F are kept and no more of F than there is
\* room for; the others are outside of the beam or not better than F.
Keeps(s, n, D, F) ==
  /\ D \in SUBSET s.hypos /\ F \in SUBSET (s.hypos \ D)
  /\ IsFiniteSet(D) /\ IsFiniteSet(F) /\ IsFiniteSet(D \cup F)
  /\ Cardinality(D) \in Nat /\ Cardinality(F) \in Nat
  /\ Cardinality(D \cup F) = Cardinality(D) + Cardinality(F)
  /\ Cardinality(F) <= Room(n, D)
  /\ \A h \in s.hypos \ (D \cup F) :
       \/ h.total <= s.best + s.settings.beam
       \/ Cardinality(F) = Room(n, D) /\ \A g \in F : g.total >= h.total

\* The sets kept by PruneToSize.
LEMMA PruneSets ==
  ASSUME NEW s, IsStack(s), NEW n \in Nat, NEW D, NEW F, NEW t, Prunes(s, n, D, F, t)
  PROVE  Keeps(s, n, D, F)
<1>1. s.settings.diversity \in Nat /\ s.settings.beam \in Int /\ Sortable(s.hypos) /\ s.best \in Int
  BY SettingsTypes DEF IsStack
<1>2. D \in SUBSET s.hypos
  BY <1>1, DiverseSetsKeepBest DEF Prunes, FillsQuota
<1> DEFINE beamed == {h \in s.hypos \ D : h.total > s.best + s.settings.beam}
<1>3. IsFiniteSet(D) /\ Cardinality(D) \in Nat /\ Sortable(beamed)
  <2>1. beamed \in SUBSET s.hypos
    OBVIOUS
  <2> QED BY <1>1, <1>2, <2>1, FS_Subset, FS_CardinalityType DEF Sortable
<1>4. Room(n, D) \in Nat
  BY <1>3 DEF Room
<1>5. /\ F \subseteq beamed
      /\ Cardinality(F) \in Nat /\ Cardinality(F) <= Room(n, D)
      /\ Cardinality(F) = Room(n, D) \/ F = beamed
      /\ \A g \in F, h \in beamed \ F : g.total >= h.total
  <2> HIDE DEF beamed
  <2>1. F \in TopSets(beamed, Room(n, D))
    BY DEF Prunes, beamed
  <2> QED BY <1>3, <1>4, <2>1, TopSetsKeepBest
<1>6. IsFiniteSet(F) /\ IsFiniteSet(D \cup F) /\ Cardinality(D \cup F) = Cardinality(D) + Cardinality(F)
  <2>1. IsFiniteSet(F)
    BY <1>3, <1>5, FS_Subset DEF Sortable
  <2>2. D \cap F = {}
    BY <1>5
  <2>3. Cardinality(D \cap F) = 0
    BY <2>2, FS_EmptySet
  <2>4. /\ IsFiniteSet(D \cup F)
        /\ Cardinality(D \cup F) = Cardinality(D) + Cardinality(F) - Cardinality(D \cap F)
    BY <1>3, <2>1, FS_Union
  <2> QED BY <1>3, <1>5, <2>1, <2>3, <2>4
<1>7. ASSUME NEW h \in s.hypos \ (D \cup F), ~(h.total <= s.best + s.settings.beam)
      PROVE  Cardinality(F) = Room(n, D) /\ \A g \in F : g.total >= h.total
  <2>1. h \in beamed \ F
    BY <1>1, <1>7 DEF Sortable
  <2> QED BY <1>5, <2>1
<1> QED BY <1>2, <1>3, <1>5, <1>6, <1>7 DEF Keeps

-----------------------------------------------------------------------------
(* Ownership *)

ArcsOf(S, arcs) == UNION {arcs[h.id] : h \in S}

\* The hypotheses of all have numbers, arcs is indexed by numbers, and no two
\* hypotheses share one.
Numbered(all, arcs) ==
  /\ arcs = [i \in DOMAIN arcs |-> arcs[i]]
  /\ \A h \in all : h.id \in DOMAIN arcs
  /\ \A g, h \in all : g.id = h.id => g = h

\* Hypotheses that are scored.
Scored(all) == \A h \in all : h.total \in Int /\ h.cov \in Coverages

\* Every hypothesis of all is on the stack, on an arc list of the stack or
\* deleted, and in one place only.
Owned(S, arcs, freed, all) ==
  /\ all = S \cup ArcsOf(S, arcs) \cup freed
  /\ S \cap ArcsOf(S, arcs) = {} /\ (S \cup ArcsOf(S, arcs)) \cap freed = {}
  /\ \A g, h \in S : g # h => arcs[g.id] \cap arcs[h.id] = {}
  /\ \A h \in all \ S : arcs[h.id] = {}
  /\ \A h \in S : \A a \in arcs[h.id] : Equivalent(a, h)
  /\ \A g, h \in S : g # h => ~Equivalent(g, h)

\* The arcs of a hypothesis are not better.
Losers(S, arcs) == \A h \in S : \A a \in arcs[h.id] : a.total <= h.total

\* A hypothesis that has just been created.
IsNew(h, all, arcs) ==
  /\ h.id \in DOMAIN arcs /\ arcs[h.id] = {}
  /\ \A g \in all : g.id # h.id

\* The arc lists of other hypotheses than those of all are as they were.
Elsewhere(arcs, b, all) ==
  /\ DOMAIN b = DOMAIN arcs
  /\ \A i \in DOMAIN arcs : (\A g \in all : g.id # i) => b[i] = arcs[i]

\* The outcome o has made the stack t, whose hypotheses are some of S, and has
\* deleted nothing but the others and their arcs.
Deletes(S, arcs, freed, all, t, o) ==
  /\ Owned(t.hypos, o.arcs, freed \cup o.freed, all) /\ Numbered(all, o.arcs)
  /\ o.stack = t /\ Elsewhere(arcs, o.arcs, all)
  /\ \A i \in DOMAIN arcs : o.arcs[i] \subseteq arcs[i]
  /\ \A x \in o.freed : x \in S \ t.hypos \/ \E h \in S \ t.hypos : x \in arcs[h.id]

\* Deletion with the arcs.
LEMMA FreeingOwned ==
  ASSUME NEW S, NEW arcs, NEW freed, NEW all, Owned(S, arcs, freed, all), Numbered(all, arcs),
         NEW t, t.hypos \subseteq S
  PROVE  Deletes(S, arcs, freed, all, t, Freeing(t, arcs, S))
<1> DEFINE T == t.hypos
           o == Freeing(t, arcs, S)
           gone == WithArcs(arcs, S \ T)
           left == [i \in DOMAIN arcs |-> IF i \in {h.id : h \in gone} THEN {} ELSE arcs[i]]
<1>1. o.stack = t /\ o.arcs = left /\ o.freed = gone
  BY DEF Freeing, Outcome
<1>11. T \subseteq S
  OBVIOUS
<1> HIDE DEF T, o
<1> USE <1>11
<1>2. \A x : x \in gone <=> x \in S \ T \/ \E h \in S \ T : x \in arcs[h.id]
  BY DEF WithArcs
<1>0. /\ DOMAIN left = DOMAIN arcs /\ left = [i \in DOMAIN left |-> left[i]]
      /\ \A i \in DOMAIN arcs : left[i] = IF \E h \in gone : h.id = i THEN {} ELSE arcs[i]
  OBVIOUS
<1> HIDE DEF left, gone
<1>3. S \subseteq all /\ gone \subseteq all
  <2>1. \A x : x \in ArcsOf(S, arcs) <=> \E h \in S : x \in arcs[h.id]
    BY DEF ArcsOf
  <2> QED BY <1>2, <2>1 DEF Owned
<1>4. gone \cap T = {} /\ gone \cap ArcsOf(T, arcs) = {} /\ gone \cap freed = {}
  <2>1. ASSUME NEW x \in gone PROVE x \notin T /\ x \notin ArcsOf(T, arcs) /\ x \notin freed
    <3>1. CASE x \in S \ T
      BY <3>1 DEF Owned, ArcsOf
    <3>2. CASE \E h \in S \ T : x \in arcs[h.id]
      <4>1. PICK h \in S \ T : x \in arcs[h.id]
        BY <3>2
      <4>2. x \in ArcsOf(S, arcs)
        BY <4>1 DEF ArcsOf
      <4>3. x \notin ArcsOf(T, arcs)
        BY <4>1 DEF Owned, ArcsOf
      <4> QED BY <4>2, <4>3 DEF Owned
    <3> QED BY <1>2, <3>1, <3>2
  <2> QED BY <2>1
<1>5. \A h \in T : left[h.id] = arcs[h.id]
  BY <1>0, <1>3, <1>4 DEF Numbered
<1>6. \A i \in DOMAIN arcs : left[i] \subseteq arcs[i]
  BY <1>0
<1>7. ArcsOf(T, left) = ArcsOf(T, arcs)
  BY <1>5 DEF ArcsOf
<1>8. Numbered(all, left)
  BY <1>0 DEF Numbered
<1>9. Owned(T, left, freed \cup gone, all)
  <2>1. all = T \cup ArcsOf(T, left) \cup (freed \cup gone)
    <3>1. \A R : \A x : x \in ArcsOf(R, arcs) <=> \E h \in R : x \in arcs[h.id]
      BY DEF ArcsOf
    <3>2. all \subseteq T \cup ArcsOf(T, arcs) \cup (freed \cup gone)
      BY <1>2, <3>1 DEF Owned
    <3>3. T \cup ArcsOf(T, arcs) \cup (freed \cup gone) \subseteq all
      BY <1>3, <3>1 DEF Owned
    <3> QED BY <1>7, <3>2, <3>3
  <2>2. T \cap ArcsOf(T, left) = {} /\ (T \cup ArcsOf(T, left)) \cap (freed \cup gone) = {}
    <3>1. ArcsOf(T, arcs) \subseteq ArcsOf(S, arcs)
      BY DEF ArcsOf
    <3> QED BY <1>4, <1>7, <3>1 DEF Owned
  <2>3. \A g, h \in T : g # h => left[g.id] \cap left[h.id] = {}
    BY <1>5 DEF Owned
  <2>4. ASSUME NEW h \in all \ T PROVE left[h.id] = {}
    <3>1. h.id \in DOMAIN arcs
      BY DEF Numbered
    <3>2. CASE h \in S
      BY <1>0, <1>2, <2>4, <3>1, <3>2
    <3>3. CASE h \notin S
      BY <1>6, <2>4, <3>1, <3>3 DEF Owned
    <3> QED BY <3>2, <3>3
  <2>5. \A h \in T : \A a \in left[h.id] : Equivalent(a, h)
    BY <1>5 DEF Owned
  <2>6. \A g, h \in T : g # h => ~Equivalent(g, h)
    BY DEF Owned
  <2> QED BY <2>1, <2>2, <2>3, <2>4, <2>5, <2>6 DEF Owned
<1>12. Elsewhere(arcs, left, all)
  BY <1>0, <1>3 DEF Elsewhere
<1>10. /\ Owned(T, o.arcs, freed \cup o.freed, all) /\ Numbered(all, o.arcs)
       /\ o.stack = t /\ Elsewhere(arcs, o.arcs, all)
       /\ \A i \in DOMAIN arcs : o.arcs[i] \subseteq arcs[i]
       /\ \A x \in o.freed : x \in S \ T \/ \E h \in S \ T : x \in arcs[h.id]
  BY <1>0, <1>1, <1>2, <1>6, <1>8, <1>9, <1>12
<1> QED BY <1>10 DEF T, o, Deletes

\* What is on the arc lists of a stack.
LEMMA ArcsOfMembers ==
  ASSUME NEW S, NEW arcs
  PROVE  \A x : x \in ArcsOf(S, arcs) <=> \E h \in S : x \in arcs[h.id]
BY DEF ArcsOf

\* A new hypothesis has no arcs.
LEMMA NewNumbered ==
  ASSUME NEW S, NEW arcs, NEW freed, NEW all, NEW h,
         Owned(S, arcs, freed, all), Numbered(all, arcs), IsNew(h, all, arcs)
  PROVE  /\ arcs[h.id] = {} /\ h \notin all /\ Numbered(all \cup {h}, arcs)
         /\ S \subseteq all /\ freed \subseteq all /\ ArcsOf(S, arcs) \subseteq all
<1>1. S \subseteq all /\ freed \subseteq all /\ ArcsOf(S, arcs) \subseteq all
  BY DEF Owned
<1>2. arcs[h.id] = {}
  BY DEF IsNew
<1>3. h \notin all /\ Numbered(all \cup {h}, arcs)
  BY DEF Numbered, IsNew
<1> QED BY <1>1, <1>2, <1>3

\* A new hypothesis is deleted at once, or enters the stack beside hypotheses it
\* is not equivalent to.
LEMMA NewOwned ==
  ASSUME NEW S, NEW arcs, NEW freed, NEW all, NEW h,
         Owned(S, arcs, freed, all), Numbered(all, arcs), IsNew(h, all, arcs)
  PROVE  /\ Owned(S, arcs, freed \cup {h}, all \cup {h})
         /\ (\A g \in S : ~Equivalent(g, h)) => Owned(S \cup {h}, arcs, freed, all \cup {h})
<1>1. /\ arcs[h.id] = {} /\ h \notin all /\ Numbered(all \cup {h}, arcs)
      /\ S \subseteq all /\ freed \subseteq all /\ ArcsOf(S, arcs) \subseteq all
  BY NewNumbered
<1>2. Owned(S, arcs, freed \cup {h}, all \cup {h})
  BY <1>1 DEF Owned
<1>3. ASSUME \A g \in S : ~Equivalent(g, h) PROVE Owned(S \cup {h}, arcs, freed, all \cup {h})
  <2>1. ArcsOf(S \cup {h}, arcs) = ArcsOf(S, arcs)
    BY <1>1 DEF ArcsOf
  <2>2. \A x, y \in S \cup {h} : x # y => ~Equivalent(x, y)
    BY <1>3 DEF Owned, Equivalent
  <2>3. \A x, y \in S \cup {h} : x # y => arcs[x.id] \cap arcs[y.id] = {}
    BY <1>1 DEF Owned
  <2>4. \A x \in S \cup {h} : \A a \in arcs[x.id] : Equivalent(a, x)
    BY <1>1 DEF Owned
  <2>5. /\ all \cup {h} = (S \cup {h}) \cup ArcsOf(S \cup {h}, arcs) \cup freed
        /\ (S \cup {h}) \cap ArcsOf(S \cup {h}, arcs) = {}
        /\ ((S \cup {h}) \cup ArcsOf(S \cup {h}, arcs)) \cap freed = {}
    <3> DEFINE A == ArcsOf(S, arcs)
    <3>1. all = S \cup A \cup freed /\ S \cap A = {} /\ (S \cup A) \cap freed = {}
      BY DEF Owned
    <3> HIDE DEF A
    <3>2. h \notin S /\ h \notin A /\ h \notin freed
      BY <1>1, <3>1
    <3>3. ArcsOf(S \cup {h}, arcs) = A
      BY <2>1 DEF A
    <3> QED BY <3>1, <3>2, <3>3
  <2>6. \A x \in (all \cup {h}) \ (S \cup {h}) : arcs[x.id] = {}
    BY DEF Owned
  <2> QED BY <2>2, <2>3, <2>4, <2>5, <2>6 DEF Owned
<1> QED BY <1>2, <1>3

\* A new hypothesis loses against g: it becomes an arc of g.
LEMMA LoserOwned ==
  ASSUME NEW S, NEW arcs, NEW freed, NEW all, NEW h,
         Owned(S, arcs, freed, all), Numbered(all, arcs), IsNew(h, all, arcs),
         NEW g \in S, Equivalent(g, h), ~Beats(h, g)
  PROVE  /\ Owned(S, AddArc(arcs, g, h), freed, all \cup {h})
         /\ Numbered(all \cup {h}, AddArc(arcs, g, h))
         /\ Elsewhere(arcs, AddArc(arcs, g, h), all \cup {h})
<1> DEFINE b == AddArc(arcs, g, h)
<1>1. /\ arcs[h.id] = {} /\ h \notin all /\ Numbered(all \cup {h}, arcs)
      /\ S \subseteq all /\ freed \subseteq all /\ ArcsOf(S, arcs) \subseteq all
  BY NewNumbered
<1>2. g.id \in DOMAIN arcs /\ h.id \in DOMAIN arcs /\ g.id # h.id
  BY <1>1 DEF Numbered, IsNew
<1>3. /\ DOMAIN b = DOMAIN arcs /\ b = [i \in DOMAIN b |-> b[i]]
      /\ b[g.id] = arcs[g.id] \cup {h} /\ b[h.id] = {}
      /\ \A i \in DOMAIN arcs \ {g.id, h.id} : b[i] = arcs[i]
  BY <1>1, <1>2 DEF AddArc
<1> HIDE DEF b
<1>4. Numbered(all \cup {h}, b)
  BY <1>1, <1>3 DEF Numbered
<1>5. \A x \in S : b[x.id] = arcs[x.id] \cup (IF x = g THEN {h} ELSE {})
  <2>1. \A x \in S : x.id \in DOMAIN arcs /\ x.id # h.id /\ (x.id = g.id => x = g)
    BY <1>1 DEF Numbered, IsNew
  <2> QED BY <1>3, <2>1
<1>6. ArcsOf(S, b) = ArcsOf(S, arcs) \cup {h}
  BY <1>5, ArcsOfMembers
<1>7. \A x, y \in S : x # y => b[x.id] \cap b[y.id] = {}
  <2>1. \A x \in S : h \notin arcs[x.id]
    BY <1>1, ArcsOfMembers
  <2> QED BY <1>5, <2>1 DEF Owned
<1>8. \A x \in (all \cup {h}) \ S : b[x.id] = {}
  <2>1. \A x \in all \ S : x.id \in DOMAIN arcs \ {g.id, h.id} /\ arcs[x.id] = {}
    BY <1>1 DEF Owned, Numbered, IsNew
  <2> QED BY <1>3, <2>1
<1>9. \A x \in S : \A a \in b[x.id] : Equivalent(a, x)
  <2>1. Equivalent(h, g)
    BY DEF Equivalent
  <2> QED BY <1>5, <2>1 DEF Owned
<1>10. /\ all \cup {h} = S \cup ArcsOf(S, b) \cup freed
       /\ S \cap ArcsOf(S, b) = {} /\ (S \cup ArcsOf(S, b)) \cap freed = {}
  BY <1>1, <1>6 DEF Owned
<1>11. Owned(S, b, freed, all \cup {h})
  BY <1>7, <1>8, <1>9, <1>10 DEF Owned
<1>12. Elsewhere(arcs, b, all \cup {h})
  BY <1>1, <1>3 DEF Elsewhere
<1> QED BY <1>4, <1>11, <1>12 DEF b

\* A new hypothesis beats g: g becomes an arc of it, with its own arcs.
LEMMA WinnerOwned ==
  ASSUME NEW S, NEW arcs, NEW freed, NEW all, NEW h,
         Owned(S, arcs, freed, all), Numbered(all, arcs), IsNew(h, all, arcs),
         NEW g \in S, Equivalent(g, h), Beats(h, g)
  PROVE  /\ Owned((S \ {g}) \cup {h}, AddArc(arcs, h, g), freed, all \cup {h})
         /\ Numbered(all \cup {h}, AddArc(arcs, h, g))
         /\ Elsewhere(arcs, AddArc(arcs, h, g), all \cup {h})
<1> DEFINE b == AddArc(arcs, h, g)
           T == (S \ {g}) \cup {h}
<1>1. /\ arcs[h.id] = {} /\ h \notin all /\ Numbered(all \cup {h}, arcs)
      /\ S \subseteq all /\ freed \subseteq all /\ ArcsOf(S, arcs) \subseteq all
  BY NewNumbered
<1>2. g.id \in DOMAIN arcs /\ h.id \in DOMAIN arcs /\ g.id # h.id
  BY <1>1 DEF Numbered, IsNew
<1>3. /\ DOMAIN b = DOMAIN arcs /\ b = [i \in DOMAIN b |-> b[i]]
      /\ b[h.id] = arcs[g.id] \cup {g} /\ b[g.id] = {}
      /\ \A i \in DOMAIN arcs \ {g.id, h.id} : b[i] = arcs[i]
  BY <1>1, <1>2 DEF AddArc
<1> HIDE DEF b
<1>4. Numbered(all \cup {h}, b)
  BY <1>1, <1>3 DEF Numbered
<1>5. \A x \in S \ {g} : b[x.id] = arcs[x.id]
  <2>1. \A x \in S \ {g} : x.id \in DOMAIN arcs /\ x.id # h.id /\ x.id # g.id
    BY <1>1 DEF Numbered, IsNew
  <2> QED BY <1>3, <2>1
<1>6. ArcsOf(T, b) = ArcsOf(S, arcs) \cup {g}
  <2>1. \A x : x \in ArcsOf(T, b) <=> x \in b[h.id] \/ \E y \in S \ {g} : x \in b[y.id]
    BY ArcsOfMembers
  <2>2. \A x : x \in ArcsOf(S, arcs) <=> x \in arcs[g.id] \/ \E y \in S \ {g} : x \in arcs[y.id]
    <3>1. \A x : x \in ArcsOf(S, arcs) <=> \E y \in S : x \in arcs[y.id]
      BY ArcsOfMembers
    <3> QED BY <3>1
  <2>3. \A x : (\E y \in S \ {g} : x \in b[y.id]) <=> \E y \in S \ {g} : x \in arcs[y.id]
    BY <1>5
  <2>4. \A x : x \in ArcsOf(T, b) <=> x \in ArcsOf(S, arcs) \/ x = g
    BY <1>3, <2>1, <2>2, <2>3
  <2> QED BY <2>4
<1>7. \A x, y \in T : x # y => b[x.id] \cap b[y.id] = {}
  <2>1. \A x \in S : g \notin arcs[x.id]
    BY ArcsOfMembers DEF Owned
  <2>2. \A x \in S \ {g} : b[x.id] \cap b[h.id] = {}
    BY <1>3, <1>5, <2>1 DEF Owned
  <2>3. \A x, y \in S \ {g} : x # y => b[x.id] \cap b[y.id] = {}
    BY <1>5 DEF Owned
  <2> QED BY <2>2, <2>3
<1>8. \A x \in (all \cup {h}) \ T : b[x.id] = {}
  <2>1. \A x \in all \ S : x.id \in DOMAIN arcs \ {g.id, h.id} /\ arcs[x.id] = {}
    BY <1>1 DEF Owned, Numbered, IsNew
  <2> QED BY <1>3, <2>1
<1>9. \A x \in T : \A a \in b[x.id] : Equivalent(a, x)
  <2>1. \A a \in arcs[g.id] : Equivalent(a, h)
    BY DEF Owned, Equivalent
  <2> QED BY <1>3, <1>5, <2>1 DEF Owned
<1>10. /\ all \cup {h} = T \cup ArcsOf(T, b) \cup freed
       /\ T \cap ArcsOf(T, b) = {} /\ (T \cup ArcsOf(T, b)) \cap freed = {}
  <2> DEFINE A == ArcsOf(S, arcs)
  <2>1. all = S \cup A \cup freed /\ S \cap A = {} /\ (S \cup A) \cap freed = {}
    BY DEF Owned
  <2>2. ArcsOf(T, b) = A \cup {g}
    BY <1>6
  <2> HIDE DEF A
  <2>3. h \notin all /\ g \in all
    BY <1>1
  <2>4. T \cup (A \cup {g}) = (S \cup A) \cup {h}
    OBVIOUS
  <2>5. all \cup {h} = (T \cup (A \cup {g})) \cup freed
    BY <2>1, <2>4
  <2>6. T \cap (A \cup {g}) = {} /\ (T \cup (A \cup {g})) \cap freed = {}
    BY <2>1, <2>3, <2>4
  <2> QED BY <2>2, <2>5, <2>6
<1>11. \A x, y \in T : x # y => ~Equivalent(x, y)
  BY DEF Owned, Equivalent
<1>12. Owned(T, b, freed, all \cup {h})
  BY <1>7, <1>8, <1>9, <1>10, <1>11 DEF Owned
<1>13. Elsewhere(arcs, b, all \cup {h})
  BY <1>1, <1>3 DEF Elsewhere
<1> QED BY <1>4, <1>12, <1>13 DEF b

\* The arcs are still losers after either.
LEMMA LosersStay ==
  ASSUME NEW S, NEW arcs, NEW freed, NEW all, NEW h,
         Owned(S, arcs, freed, all), Numbered(all, arcs), IsNew(h, all, arcs),
         Scored(all \cup {h}), Losers(S, arcs), NEW g \in S
  PROVE  /\ ~Beats(h, g) => Losers(S, AddArc(arcs, g, h))
         /\ Beats(h, g) => Losers((S \ {g}) \cup {h}, AddArc(arcs, h, g))
<1>1. /\ arcs[h.id] = {} /\ S \subseteq all /\ ArcsOf(S, arcs) \subseteq all
  BY DEF IsNew, Owned
<1>2. g.id \in DOMAIN arcs /\ h.id \in DOMAIN arcs /\ g.id # h.id /\ g.total \in Int /\ h.total \in Int
  BY <1>1 DEF Numbered, IsNew, Scored
<1>3. \A x \in S \ {g} : x.id \in DOMAIN arcs \ {g.id, h.id}
  BY <1>1 DEF Numbered, IsNew
<1>4. ASSUME ~Beats(h, g) PROVE Losers(S, AddArc(arcs, g, h))
  <2> DEFINE b == AddArc(arcs, g, h)
  <2>1. b[g.id] = arcs[g.id] \cup {h} /\ \A x \in S \ {g} : b[x.id] = arcs[x.id]
    BY <1>1, <1>2, <1>3 DEF AddArc
  <2>2. h.total <= g.total
    BY <1>2, <1>4 DEF Beats
  <2> HIDE DEF b
  <2>3. Losers(S, b)
    BY <2>1, <2>2 DEF Losers
  <2> QED BY <2>3 DEF b
<1>5. ASSUME Beats(h, g) PROVE Losers((S \ {g}) \cup {h}, AddArc(arcs, h, g))
  <2> DEFINE b == AddArc(arcs, h, g)
  <2>1. b[h.id] = arcs[g.id] \cup {g} /\ \A x \in S \ {g} : b[x.id] = arcs[x.id]
    BY <1>1, <1>2, <1>3 DEF AddArc
  <2>2. ASSUME NEW a \in arcs[g.id] PROVE a.total <= h.total
    <3>1. a \in all /\ a.total <= g.total
      BY <1>1, ArcsOfMembers DEF Losers
    <3>2. a.total \in Int
      BY <3>1 DEF Scored
    <3> QED BY <1>2, <1>5, <3>1, <3>2 DEF Beats
  <2>3. g.total <= h.total
    BY <1>2, <1>5 DEF Beats
  <2> HIDE DEF b
  <2>4. Losers((S \ {g}) \cup {h}, b)
    BY <2>1, <2>2, <2>3 DEF Losers
  <2> QED BY <2>4 DEF b
<1> QED BY <1>4, <1>5

\* Without n-best lists no hypothesis has arcs, and the beaten g is deleted.
LEMMA SoleWinnerOwned ==
  ASSUME NEW S, NEW arcs, NEW freed, NEW all, NEW h,
         Owned(S, arcs, freed, all), Numbered(all, arcs), IsNew(h, all, arcs),
         NEW g \in S, Equivalent(g, h), arcs[g.id] = {}
  PROVE  Owned((S \ {g}) \cup {h}, arcs, freed \cup {g}, all \cup {h})
<1> DEFINE T == (S \ {g}) \cup {h}
           A == ArcsOf(S, arcs)
<1>1. /\ arcs[h.id] = {} /\ h \notin all /\ Numbered(all \cup {h}, arcs)
      /\ S \subseteq all /\ freed \subseteq all /\ A \subseteq all
  BY NewNumbered
<1>2. ArcsOf(T, arcs) = A
  <2>1. \A x : x \in ArcsOf(T, arcs) <=> \E y \in T : x \in arcs[y.id]
    BY ArcsOfMembers
  <2>2. \A x : x \in A <=> \E y \in S : x \in arcs[y.id]
    BY ArcsOfMembers
  <2> QED BY <1>1, <2>1, <2>2
<1>3. /\ all \cup {h} = T \cup ArcsOf(T, arcs) \cup (freed \cup {g})
      /\ T \cap ArcsOf(T, arcs) = {}
      /\ (T \cup ArcsOf(T, arcs)) \cap (freed \cup {g}) = {}
  <2>1. all = S \cup A \cup freed /\ S \cap A = {} /\ (S \cup A) \cap freed = {}
    BY DEF Owned
  <2> HIDE DEF A
  <2> QED BY <1>1, <1>2, <2>1
<1>4. \A x, y \in T : x # y => arcs[x.id] \cap arcs[y.id] = {}
  BY <1>1 DEF Owned
<1>5. \A x \in (all \cup {h}) \ T : arcs[x.id] = {}
  BY DEF Owned
<1>6. \A x \in T : \A a \in arcs[x.id] : Equivalent(a, x)
  BY <1>1 DEF Owned
<1>7. \A x, y \in T : x # y => ~Equivalent(x, y)
  BY DEF Owned, Equivalent
<1> HIDE DEF T, A
<1>8. Owned(T, arcs, freed \cup {g}, all \cup {h})
  BY <1>3, <1>4, <1>5, <1>6, <1>7 DEF Owned
<1> QED BY <1>8 DEF T

\* The outcome o has made the arc lists shorter, deleted what it took from them,
\* and left the stack as it was.
Trims(s, arcs, freed, all, o) ==
  /\ Owned(s.hypos, o.arcs, freed \cup o.freed, all) /\ Numbered(all, o.arcs)
  /\ o.stack = s /\ Elsewhere(arcs, o.arcs, all)
  /\ \A i \in DOMAIN arcs : o.arcs[i] \subseteq arcs[i]
  /\ \A x \in o.freed : \E h \in s.hypos : x \in arcs[h.id]
  /\ o = Outcome(o.stack, o.arcs, o.freed)

\* CleanupArcList: what it takes from the arc lists is deleted.
LEMMA CleanedOwned ==
  ASSUME NEW s, NEW arcs, NEW freed, NEW all,
         Owned(s.hypos, arcs, freed, all), Numbered(all, arcs),
         NEW o \in CleanupArcList(s, arcs)
  PROVE  Trims(s, arcs, freed, all, o)
<1> DEFINE S == s.hypos
           crowded == {i \in {h.id : h \in S} : TooManyArcs(s.settings, arcs[i])}
           Best(i) == TopSets(arcs[i], s.settings.nBestSize)
<1>1. PICK kept \in [crowded -> UNION {Best(i) : i \in crowded}] :
        /\ \A i \in crowded : kept[i] \in Best(i)
        /\ o = Outcome(s, [i \in DOMAIN arcs |-> IF i \in crowded THEN kept[i] ELSE arcs[i]],
                       UNION {arcs[i] \ kept[i] : i \in crowded})
  BY DEF CleanupArcList
<1> DEFINE b == [i \in DOMAIN arcs |-> IF i \in crowded THEN kept[i] ELSE arcs[i]]
           gone == UNION {arcs[i] \ kept[i] : i \in crowded}
<1>2. o.stack = s /\ o.arcs = b /\ o.freed = gone
  BY <1>1 DEF Outcome
<1>3. \A i \in crowded : kept[i] \subseteq arcs[i]
  <2>1. TAKE i \in crowded
  <2>2. kept[i] \in TopSets(arcs[i], s.settings.nBestSize)
    BY <1>1
  <2> QED BY <2>2 DEF TopSets, FirstSets, kSubset
<1>4. /\ DOMAIN b = DOMAIN arcs /\ b = [i \in DOMAIN b |-> b[i]]
      /\ \A i \in DOMAIN arcs : b[i] \subseteq arcs[i]
  BY <1>3
<1>5. S \subseteq all /\ \A h \in S : h.id \in DOMAIN arcs
  BY DEF Owned, Numbered
<1>6. \A x : x \in gone <=> \E h \in S : x \in arcs[h.id] \ b[h.id]
  <2>1. \A x : x \in gone <=> \E i \in crowded : x \in arcs[i] \ kept[i]
    OBVIOUS
  <2>2. \A i \in crowded : b[i] = kept[i] /\ \E h \in S : h.id = i
    BY <1>5
  <2>3. \A i \in DOMAIN arcs \ crowded : b[i] = arcs[i]
    OBVIOUS
  <2> HIDE DEF b, gone
  <2>4. \A x : (\E i \in crowded : x \in arcs[i] \ kept[i]) <=> \E h \in S : x \in arcs[h.id] \ b[h.id]
    <3>1. ASSUME NEW x, NEW i \in crowded, x \in arcs[i] \ kept[i]
          PROVE  \E h \in S : x \in arcs[h.id] \ b[h.id]
      BY <2>2, <3>1
    <3>2. ASSUME NEW x, NEW h \in S, x \in arcs[h.id] \ b[h.id]
          PROVE  \E i \in crowded : x \in arcs[i] \ kept[i]
      <4>1. h.id \in crowded
        BY <1>5, <2>3, <3>2
      <4> QED BY <2>2, <3>2, <4>1
    <3> QED BY <3>1, <3>2
  <2> QED BY <2>1, <2>4
<1>11. Elsewhere(arcs, b, all)
  <2>1. \A i \in crowded : \E h \in all : h.id = i
    BY <1>5
  <2> QED BY <1>4, <2>1 DEF Elsewhere
<1> HIDE DEF b, gone
<1>7. Numbered(all, b)
  BY <1>4 DEF Numbered
<1>8. Owned(S, b, freed \cup gone, all)
  <2>1. /\ \A x : x \in ArcsOf(S, arcs) <=> \E h \in S : x \in arcs[h.id]
        /\ \A x : x \in ArcsOf(S, b) <=> \E h \in S : x \in b[h.id]
    BY ArcsOfMembers
  <2>2. \A g, h \in S : g # h => arcs[g.id] \cap arcs[h.id] = {}
    BY DEF Owned
  <2>3. ArcsOf(S, arcs) = ArcsOf(S, b) \cup gone
    <3>1. \A h \in S : b[h.id] \subseteq arcs[h.id]
      BY <1>4, <1>5
    <3> QED BY <1>6, <2>1, <3>1
  <2>4. ArcsOf(S, b) \cap gone = {}
    <3>1. SUFFICES ASSUME NEW x, x \in ArcsOf(S, b), x \in gone PROVE FALSE
      OBVIOUS
    <3>2. PICK g \in S : x \in b[g.id]
      BY <2>1, <3>1
    <3>3. PICK h \in S : x \in arcs[h.id] \ b[h.id]
      BY <1>6, <3>1
    <3>4. x \in arcs[g.id]
      BY <1>4, <1>5, <3>2
    <3> QED BY <2>2, <3>2, <3>3, <3>4
  <2>5. /\ all = S \cup ArcsOf(S, b) \cup (freed \cup gone)
        /\ S \cap ArcsOf(S, b) = {} /\ (S \cup ArcsOf(S, b)) \cap (freed \cup gone) = {}
    <3> DEFINE A == ArcsOf(S, arcs)
               B == ArcsOf(S, b)
    <3>1. all = S \cup A \cup freed /\ S \cap A = {} /\ (S \cup A) \cap freed = {}
      BY DEF Owned
    <3>2. A = B \cup gone /\ B \cap gone = {}
      BY <2>3, <2>4
    <3> HIDE DEF A, B
    <3>3. /\ all = S \cup B \cup (freed \cup gone)
          /\ S \cap B = {} /\ (S \cup B) \cap (freed \cup gone) = {}
      BY <3>1, <3>2
    <3> QED BY <3>3 DEF B
  <2>6. \A g, h \in S : g # h => b[g.id] \cap b[h.id] = {}
    BY <1>4, <1>5, <2>2
  <2>7. \A h \in all \ S : b[h.id] = {}
    <3>1. \A h \in all \ S : h.id \in DOMAIN arcs /\ arcs[h.id] = {}
      BY DEF Owned, Numbered
    <3> QED BY <1>4, <3>1
  <2>8. \A h \in S : \A a \in b[h.id] : Equivalent(a, h)
    BY <1>4, <1>5 DEF Owned
  <2>9. \A g, h \in S : g # h => ~Equivalent(g, h)
    BY DEF Owned
  <2> HIDE DEF S
  <2> QED BY <2>5, <2>6, <2>7, <2>8, <2>9 DEF Owned
<1>9. \A x \in gone : \E h \in S : x \in arcs[h.id]
  BY <1>6
<1>10. o = Outcome(o.stack, o.arcs, o.freed)
  BY <1>1 DEF Outcome
<1> QED BY <1>2, <1>4, <1>7, <1>8, <1>9, <1>10, <1>11 DEF Trims

-----------------------------------------------------------------------------
(* Scores and diversity *)

\* The best score is that of a hypothesis on the stack, and no hypothesis that
\* ever arrived was better.
BestHeld(s, all) ==
  /\ \A g \in all : g.total <= s.best
  /\ \/ \E h \in s.hypos : h.total = s.best
     \/ all = {} /\ s.best = NegInf

\* The hypotheses of a coverage that are at least as good as a score.
AsGood(S, c, x) == {g \in S : g.cov = c /\ g.total >= x}

\* The worst score of a coverage was set when its quota was filled by hypotheses
\* that good, and since then it has not lost one without getting another.
QuotaEarned(s) ==
  \A c \in Coverages :
    \/ s.covWorst[c] = NegInf
    \/ Cardinality(AsGood(s.hypos, c, s.covWorst[c])) >= s.settings.diversity

\* Counting hypotheses that are as good.
LEMMA AsGoodCounts ==
  ASSUME NEW S, IsFiniteSet(S), NEW T \in SUBSET S, NEW c, NEW x
  PROVE  /\ IsFiniteSet(AsGood(S, c, x)) /\ Cardinality(AsGood(S, c, x)) \in Nat
         /\ IsFiniteSet(AsGood(T, c, x)) /\ Cardinality(AsGood(T, c, x)) \in Nat
         /\ Cardinality(AsGood(T, c, x)) <= Cardinality(AsGood(S, c, x))
<1>1. AsGood(S, c, x) \in SUBSET S /\ AsGood(T, c, x) \in SUBSET AsGood(S, c, x)
  BY DEF AsGood
<1>2. IsFiniteSet(AsGood(S, c, x))
  BY <1>1, FS_Subset
<1> QED BY <1>1, <1>2, FS_Subset, FS_CardinalityType

\* Pruning leaves a hypothesis with the best score.
LEMMA PruneKeepsBest ==
  ASSUME NEW s, IsStack(s), NEW n \in Nat \ {0}, NEW D, NEW F, NEW t, Prunes(s, n, D, F, t),
         NEW w \in s.hypos, w.total = s.best
  PROVE  \E h \in D \cup F : h.total = s.best
<1>1. /\ s.settings.diversity \in Nat /\ s.settings.beam \in Int /\ s.settings.beam < 0
      /\ Sortable(s.hypos) /\ s.best \in Int /\ \A h \in s.hypos : h.total <= s.best
  BY SettingsTypes DEF IsStack
<1>2. /\ D \in SUBSET s.hypos /\ F \in SUBSET (s.hypos \ D)
      /\ IsFiniteSet(D) /\ IsFiniteSet(F)
      /\ \A h \in s.hypos \ (D \cup F) :
           \/ h.total <= s.best + s.settings.beam
           \/ Cardinality(F) = Room(n, D) /\ \A g \in F : g.total >= h.total
  BY PruneSets DEF Keeps
<1>3. SUFFICES ASSUME w \notin D \cup F PROVE \E h \in D \cup F : h.total = s.best
  OBVIOUS
<1>4. ~(w.total <= s.best + s.settings.beam)
  BY <1>1
<1>5. Cardinality(F) = Room(n, D) /\ \A g \in F : g.total >= w.total
  BY <1>2, <1>3, <1>4
<1>6. /\ Cardinality({g \in D : g.cov = w.cov}) = s.settings.diversity
      /\ \A g \in D : g.cov = w.cov => g.total >= w.total
      /\ \A c : Cardinality({h \in D : h.cov = c}) <= s.settings.diversity
  BY <1>1, <1>3, DiverseSetsKeepBest DEF Prunes, FillsQuota
<1>7. \E g \in D \cup F : g.total >= w.total
  <2>1. CASE {g \in D : g.cov = w.cov} # {}
    BY <1>6, <2>1
  <2>2. CASE {g \in D : g.cov = w.cov} = {}
    <3>1. s.settings.diversity = 0
      BY <1>6, <2>2, FS_EmptySet
    <3>2. D = {}
      <4>1. SUFFICES ASSUME NEW g \in D PROVE FALSE
        OBVIOUS
      <4> DEFINE E == {h \in D : h.cov = g.cov}
      <4>2. g \in E /\ E \in SUBSET D
        OBVIOUS
      <4>3. Cardinality(E) <= 0
        BY <1>6, <3>1
      <4> HIDE DEF E
      <4>4. IsFiniteSet(E) /\ Cardinality(E) \in Nat
        BY <1>2, <4>2, FS_Subset, FS_CardinalityType
      <4>5. Cardinality(E) = 0
        BY <4>3, <4>4
      <4>6. E = {}
        BY <4>4, <4>5, FS_EmptySet
      <4> QED BY <4>2, <4>6
    <3>3. Cardinality(D) = 0
      BY <3>2, FS_EmptySet
    <3>4. Room(n, D) = n
      BY <3>3 DEF Room
    <3>5. F # {}
      <4>1. SUFFICES ASSUME F = {} PROVE FALSE
        OBVIOUS
      <4>2. Cardinality(F) = 0
        BY <4>1, FS_EmptySet
      <4> QED BY <1>5, <3>4, <4>2
    <3> QED BY <1>5, <3>5
  <2> QED BY <2>1, <2>2
<1>8. PICK g \in D \cup F : g.total >= w.total
  BY <1>7
<1>9. g.total \in Int /\ g.total <= s.best
  BY <1>1, <1>2 DEF Sortable
<1>10. g.total = s.best
  BY <1>1, <1>8, <1>9
<1> QED BY <1>10

\* A stack that was pruned: its size, its scores, and the diversity it keeps.
LEMMA PrunedStackKept ==
  ASSUME NEW s, IsStack(s), s.worst <= s.best, NEW n \in Nat \ {0}, NEW D, NEW F, NEW t,
         Prunes(s, n, D, F, t)
  PROVE  /\ IsStack(t) /\ t.worst <= t.best /\ t.hypos = D \cup F /\ t.hypos \subseteq s.hypos
         /\ t.settings = s.settings /\ t.best = s.best
         /\ \/ Cardinality(t.hypos) <= n
            \/ \A c : Cardinality({g \in t.hypos : g.cov = c}) <= s.settings.diversity
         /\ \A h \in s.hypos \ t.hypos :
              Cardinality(AsGood(t.hypos, h.cov, h.total)) >= s.settings.diversity
         /\ QuotaEarned(s) => QuotaEarned(t)
<1> DEFINE d == s.settings.diversity
<1>1. d \in Nat /\ Sortable(s.hypos) /\ s.best \in Int /\ s.worst \in Int
  BY SettingsTypes DEF IsStack
<1>2. /\ D \in SUBSET s.hypos /\ F \in SUBSET (s.hypos \ D)
      /\ IsFiniteSet(D) /\ IsFiniteSet(F) /\ IsFiniteSet(D \cup F)
      /\ Cardinality(D) \in Nat /\ Cardinality(F) \in Nat
      /\ Cardinality(D \cup F) = Cardinality(D) + Cardinality(F)
      /\ Cardinality(F) <= Room(n, D)
      /\ \A h \in s.hypos \ (D \cup F) :
           \/ h.total <= s.best + s.settings.beam
           \/ Cardinality(F) = Room(n, D) /\ \A g \in F : g.total >= h.total
  <2>1. n \in Nat
    OBVIOUS
  <2>2. Keeps(s, n, D, F)
    BY <2>1, PruneSets
  <2> QED BY <2>2 DEF Keeps
<1>3. /\ \A c : Cardinality({h \in D : h.cov = c}) <= d
      /\ \A h \in s.hypos \ D : /\ Cardinality({g \in D : g.cov = h.cov}) = d
                                /\ \A g \in D : g.cov = h.cov => g.total >= h.total
  <2>1. D \in DiverseSets(s.hypos, d)
    BY DEF Prunes
  <2> HIDE DEF d
  <2>2. FillsQuota(D, s.hypos, d)
    BY <1>1, <2>1, DiverseSetsKeepBest
  <2> QED BY <2>2 DEF FillsQuota
<1>4. /\ t.hypos = D \cup F /\ t.best = s.best /\ t.settings = s.settings
      /\ t.worst = IF F # {} /\ Cardinality(D \cup F) = n THEN LeastScore(F) ELSE s.worst
      /\ t.covWorst = QuotaScores(s, D)
      /\ t = [hypos |-> t.hypos, best |-> t.best, worst |-> t.worst,
              covWorst |-> t.covWorst, settings |-> t.settings]
  BY DEF Prunes, IsStack
<1>5. t.hypos \subseteq s.hypos
  BY <1>2, <1>4
<1>6. t.worst \in Int /\ t.worst <= t.best
  <2>1. CASE F # {}
    <3>1. Sortable(F)
      BY <1>1, <1>2 DEF Sortable
    <3>2. LeastScore(F) \in Int /\ \E h \in F : h.total = LeastScore(F)
      BY <2>1, <3>1, LeastScoreIsWorst
    <3>3. LeastScore(F) <= s.best
      BY <1>2, <3>2 DEF IsStack
    <3> QED BY <1>1, <1>4, <3>2, <3>3
  <2>2. CASE F = {}
    BY <1>1, <1>4, <2>2
  <2> QED BY <2>1, <2>2
<1>7. ASSUME NEW c \in Coverages
      PROVE  /\ t.covWorst[c] \in Int
             /\ QuotaEarned(s) => \/ t.covWorst[c] = NegInf
                                  \/ Cardinality(AsGood(t.hypos, c, t.covWorst[c])) >= d
  <2> DEFINE E == {h \in D : h.cov = c}
  <2>1. t.covWorst[c] = IF d > 0 /\ Cardinality(E) = d THEN LeastScore(E) ELSE s.covWorst[c]
    BY <1>4 DEF QuotaScores
  <2>2. E \in SUBSET D
    OBVIOUS
  <2>3. IsFiniteSet(E) /\ Cardinality(E) \in Nat
    BY <1>2, <2>2, FS_Subset, FS_CardinalityType
  <2>4. CASE d > 0 /\ Cardinality(E) = d
    <3>1. E # {} /\ Sortable(E)
      BY <1>1, <1>2, <2>2, <2>3, <2>4, FS_EmptySet DEF Sortable
    <3>2. LeastScore(E) \in Int /\ \A h \in E : LeastScore(E) <= h.total
      BY <3>1, LeastScoreIsWorst
    <3>3. E \in SUBSET AsGood(t.hypos, c, LeastScore(E))
      BY <1>4, <3>1, <3>2 DEF AsGood, Sortable
    <3>4. IsFiniteSet(AsGood(t.hypos, c, LeastScore(E)))
      BY <1>2, <1>4, AsGoodCounts
    <3>5. Cardinality(AsGood(t.hypos, c, LeastScore(E))) >= d
      <4>1. Cardinality(E) <= Cardinality(AsGood(t.hypos, c, LeastScore(E)))
        BY <3>3, <3>4, FS_Subset
      <4>2. Cardinality(AsGood(t.hypos, c, LeastScore(E))) \in Nat
        BY <3>4, FS_CardinalityType
      <4> QED BY <1>1, <2>3, <2>4, <4>1, <4>2
    <3> QED BY <2>1, <2>4, <3>2, <3>5
  <2>5. CASE ~(d > 0 /\ Cardinality(E) = d)
    <3>1. t.covWorst[c] = s.covWorst[c] /\ s.covWorst[c] \in Int
      BY <2>1, <2>5 DEF IsStack
    <3>2. SUFFICES ASSUME QuotaEarned(s), s.covWorst[c] # NegInf, d > 0
                   PROVE  Cardinality(AsGood(t.hypos, c, s.covWorst[c])) >= d
      <4>1. Cardinality(AsGood(t.hypos, c, s.covWorst[c])) \in Nat
        BY <1>2, <1>4, AsGoodCounts
      <4> QED BY <1>1, <3>1, <4>1
    <3>3. \A h \in s.hypos : h.cov = c => h \in D
      BY <1>3, <2>5, <3>2
    <3>4. AsGood(t.hypos, c, s.covWorst[c]) = AsGood(s.hypos, c, s.covWorst[c])
      BY <1>4, <1>5, <3>3 DEF AsGood
    <3> QED BY <3>2, <3>4 DEF QuotaEarned
  <2> QED BY <2>4, <2>5
<1>8. IsStack(t)
  <2>1. t.covWorst \in [Coverages -> Int]
    BY <1>4, <1>7 DEF QuotaScores
  <2>2. Sortable(t.hypos) /\ \A h \in t.hypos : h.cov \in Coverages /\ h.total <= t.best
    BY <1>2, <1>4, <1>5 DEF IsStack, Sortable
  <2>3. t.settings \in Settings /\ t.best \in Int /\ t.worst \in Int
    BY <1>1, <1>4, <1>6 DEF IsStack
  <2> QED BY <1>4, <2>1, <2>2, <2>3 DEF IsStack
<1>9. \/ Cardinality(t.hypos) <= n
      \/ \A c : Cardinality({g \in t.hypos : g.cov = c}) <= d
  <2>1. CASE Cardinality(D) < n
    BY <1>2, <1>4, <2>1 DEF Room
  <2>2. CASE ~(Cardinality(D) < n)
    <3>1. Cardinality(F) = 0
      BY <1>2, <2>2 DEF Room
    <3>2. F = {}
      BY <1>2, <3>1, FS_EmptySet
    <3> QED BY <1>3, <1>4, <3>2
  <2> QED BY <2>1, <2>2
<1>10. ASSUME NEW h \in s.hypos \ t.hypos
       PROVE  Cardinality(AsGood(t.hypos, h.cov, h.total)) >= d
  <2> DEFINE E == {g \in D : g.cov = h.cov}
  <2>1. Cardinality(E) = d /\ E \in SUBSET AsGood(t.hypos, h.cov, h.total)
    BY <1>3, <1>4, <1>10 DEF AsGood
  <2>2. /\ IsFiniteSet(AsGood(t.hypos, h.cov, h.total))
        /\ Cardinality(AsGood(t.hypos, h.cov, h.total)) \in Nat
    BY <1>2, <1>4, AsGoodCounts
  <2>3. Cardinality(E) <= Cardinality(AsGood(t.hypos, h.cov, h.total))
    BY <2>1, <2>2, FS_Subset
  <2> QED BY <1>1, <2>1, <2>2, <2>3
<1>11. QuotaEarned(s) => QuotaEarned(t)
  BY <1>4, <1>7 DEF QuotaEarned
<1> QED BY <1>4, <1>5, <1>6, <1>8, <1>9, <1>10, <1>11

-----------------------------------------------------------------------------
(* The worst score *)

\* Of its coverage, less hypotheses than the quota are better than g (which is
\* what the stack keeps for diversity).
AmongDiverse(g, s) ==
  Cardinality({x \in s.hypos : x.cov = g.cov /\ x.total > g.total}) < s.settings.diversity

\* The hypotheses K fill the stack: each is as good as x, or K has all of its
\* coverage that are better, and no more of it than the quota.
Fills(K, s, x) ==
  /\ K \subseteq s.hypos /\ Cardinality(K) >= s.settings.maxSize
  /\ \A g \in K :
       \/ g.total >= x
       \/ /\ Cardinality({y \in K : y.cov = g.cov}) <= s.settings.diversity
          /\ \A y \in s.hypos : y.cov = g.cov /\ y.total > g.total => y \in K

\* AddPrune discards below the worst score: that is outside of the beam, or the
\* stack has been filled without such hypotheses.
WorstEarned(s) ==
  \/ s.worst = NegInf
  \/ s.worst <= s.best + s.settings.beam
  \/ \E K \in SUBSET s.hypos : Fills(K, s, s.worst)

\* A hypothesis of score x has no place on the stack.
NoPlaceFor(x, s) ==
  \/ x <= s.best + s.settings.beam
  \/ Cardinality({g \in s.hypos : g.total >= x \/ AmongDiverse(g, s)}) >= s.settings.maxSize

\* A filled stack has no place for a lower score.
LEMMA FilledHasNoPlace ==
  ASSUME NEW s, IsStack(s), NEW K, NEW x \in Int, Fills(K, s, x), NEW y \in Int, y <= x
  PROVE  NoPlaceFor(y, s)
<1> DEFINE d == s.settings.diversity
           H == s.hypos
           P == {g \in H : g.total >= y \/ AmongDiverse(g, s)}
<1>1. /\ d \in Nat /\ s.settings.maxSize \in Nat /\ IsFiniteSet(H)
      /\ \A g \in H : g.total \in Int
  BY SettingsTypes DEF IsStack, Sortable
<1>2. K \in SUBSET H /\ Cardinality(K) >= s.settings.maxSize
  BY DEF Fills
<1>3. ASSUME NEW g \in K, ~(g.total >= y) PROVE AmongDiverse(g, s)
  <2> DEFINE L == {z \in K : z.cov = g.cov}
             B == {z \in H : z.cov = g.cov /\ z.total > g.total}
  <2>1. Cardinality(L) <= d /\ \A z \in H : z.cov = g.cov /\ z.total > g.total => z \in K
    BY <1>1, <1>2, <1>3 DEF Fills
  <2>2. g \in L /\ L \in SUBSET H /\ B \in SUBSET (L \ {g})
    BY <1>1, <1>2, <2>1
  <2>3. AmongDiverse(g, s) <=> Cardinality(B) < d
    BY DEF AmongDiverse
  <2> HIDE DEF L, B, H, d
  <2>4. IsFiniteSet(L) /\ Cardinality(L) \in Nat
    BY <1>1, <2>2, FS_Subset, FS_CardinalityType
  <2>5. IsFiniteSet(L \ {g}) /\ Cardinality(L \ {g}) = Cardinality(L) - 1
    BY <2>2, <2>4, FS_RemoveElement
  <2>6. Cardinality(B) \in Nat /\ Cardinality(B) <= Cardinality(L) - 1
    BY <2>2, <2>5, FS_Subset, FS_CardinalityType
  <2> QED BY <1>1, <2>1, <2>3, <2>4, <2>6
<1>4. K \in SUBSET P /\ P \in SUBSET H
  BY <1>2, <1>3
<1>5. IsFiniteSet(P) /\ Cardinality(P) \in Nat /\ IsFiniteSet(K) /\ Cardinality(K) \in Nat
  BY <1>1, <1>2, <1>4, FS_Subset, FS_CardinalityType
<1>6. Cardinality(K) <= Cardinality(P)
  BY <1>4, <1>5, FS_Subset
<1> HIDE DEF P
<1>7. Cardinality(P) >= s.settings.maxSize
  BY <1>1, <1>2, <1>5, <1>6
<1> QED BY <1>7 DEF P, NoPlaceFor

\* As many hypotheses, in all and of each coverage.
SameCounts(L, K) ==
  /\ Cardinality(L) = Cardinality(K)
  /\ \A c : Cardinality({y \in L : y.cov = c}) = Cardinality({y \in K : y.cov = c})

\* One hypothesis in place of another of the same coverage.
LEMMA ExchangeCounts ==
  ASSUME NEW K, IsFiniteSet(K), NEW w \in K, NEW h, h \notin K, h.cov = w.cov
  PROVE  SameCounts((K \ {w}) \cup {h}, K)
<1>1. ASSUME NEW S \in SUBSET K, w \in S
      PROVE  Cardinality((S \ {w}) \cup {h}) = Cardinality(S)
  <2>1. IsFiniteSet(S) /\ Cardinality(S) \in Nat
    BY FS_Subset, FS_CardinalityType
  <2>2. IsFiniteSet(S \ {w}) /\ Cardinality(S \ {w}) = Cardinality(S) - 1
    BY <1>1, <2>1, FS_RemoveElement
  <2>3. h \notin S \ {w}
    BY <1>1
  <2>4. Cardinality((S \ {w}) \cup {h}) = Cardinality(S \ {w}) + 1
    BY <2>2, <2>3, FS_AddElement
  <2> QED BY <2>1, <2>2, <2>4
<1>2. Cardinality((K \ {w}) \cup {h}) = Cardinality(K)
  BY <1>1
<1>3. ASSUME NEW c
      PROVE  Cardinality({y \in (K \ {w}) \cup {h} : y.cov = c}) = Cardinality({y \in K : y.cov = c})
  <2> DEFINE S == {y \in K : y.cov = c}
             L == {y \in (K \ {w}) \cup {h} : y.cov = c}
  <2>1. CASE w.cov = c
    <3>1. L = (S \ {w}) \cup {h} /\ w \in S /\ S \in SUBSET K
      BY <2>1
    <3> HIDE DEF S, L
    <3>2. Cardinality(L) = Cardinality(S)
      BY <1>1, <3>1
    <3> QED BY <3>2 DEF S, L
  <2>2. CASE w.cov # c
    <3>1. L = S
      BY <2>2
    <3> QED BY <3>1
  <2> QED BY <2>1, <2>2
<1> QED BY <1>2, <1>3 DEF SameCounts

\* A hypothesis that enters the stack leaves it filled.
LEMMA EnteredFills ==
  ASSUME NEW s, IsStack(s), NEW h, h.total \in Int, h \notin s.hypos,
         NEW out \in SUBSET s.hypos, out = {} \/ \E g \in s.hypos : out = {g},
         \A g \in out : Equivalent(g, h) /\ Beats(h, g),
         NEW e, e.hypos = (s.hypos \ out) \cup {h}, e.settings = s.settings,
         NEW K, NEW x \in Int, Fills(K, s, x)
  PROVE  \E L \in SUBSET e.hypos : Fills(L, e, x)
<1> DEFINE d == s.settings.diversity
           T == (s.hypos \ out) \cup {h}
<1>1. /\ IsFiniteSet(s.hypos) /\ \A g \in s.hypos : g.total \in Int
  BY DEF IsStack, Sortable
<1>2. /\ K \in SUBSET s.hypos /\ Cardinality(K) >= s.settings.maxSize
      /\ \A g \in K :
           \/ g.total >= x
           \/ /\ Cardinality({y \in K : y.cov = g.cov}) <= d
              /\ \A y \in s.hypos : y.cov = g.cov /\ y.total > g.total => y \in K
  BY DEF Fills
<1>3. IsFiniteSet(K)
  BY <1>1, <1>2, FS_Subset
<1>4. ASSUME NEW w \in K, NEW low \in K, w.cov = h.cov, low.cov = h.cov, low.total < h.total,
             out \cap K \subseteq {w},
             w \in T => \A y \in K : y.cov = h.cov => w.total <= y.total
      PROVE  Fills((K \ {w}) \cup {h}, e, x)
  <2> DEFINE L == (K \ {w}) \cup {h}
  <2>1. L \subseteq T
    BY <1>2, <1>4
  <2>2. /\ Cardinality(L) = Cardinality(K)
        /\ \A c : Cardinality({y \in L : y.cov = c}) = Cardinality({y \in K : y.cov = c})
    <3>1. h \notin K /\ h.cov = w.cov
      BY <1>2, <1>4
    <3>2. SameCounts((K \ {w}) \cup {h}, K)
      BY <1>3, <3>1, ExchangeCounts
    <3> QED BY <3>2 DEF SameCounts
  <2>3. ASSUME NEW g \in L, ~(g.total >= x)
        PROVE  /\ Cardinality({y \in L : y.cov = g.cov}) <= d
               /\ \A y \in T : y.cov = g.cov /\ y.total > g.total => y \in L
    <3>1. CASE g = h
      <4>1. ~(low.total >= x)
        BY <1>1, <1>2, <1>4, <2>3, <3>1
      <4>2. /\ Cardinality({y \in K : y.cov = h.cov}) <= d
            /\ \A y \in s.hypos : y.cov = h.cov /\ y.total > low.total => y \in K
        BY <1>2, <1>4, <4>1
      <4>3. ASSUME NEW y \in T, y.cov = h.cov, y.total > h.total PROVE y \in L
        <5>1. y \in s.hypos /\ y # h
          BY <4>3
        <5>2. y \in K /\ y.total > low.total
          <6>1. y.total \in Int /\ low.total \in Int
            BY <1>1, <1>2, <5>1
          <6>2. y.total > low.total
            BY <1>4, <4>3, <6>1
          <6> QED BY <4>2, <4>3, <5>1, <6>2
        <5>3. y # w
          <6>1. w \in T => w.total <= low.total
            BY <1>4
          <6>2. y.total \in Int /\ low.total \in Int
            BY <1>1, <1>2, <5>1
          <6>3. ~(y.total <= low.total)
            BY <5>2, <6>2
          <6> QED BY <4>3, <6>1, <6>3
        <5> QED BY <5>2, <5>3
      <4>4. Cardinality({y \in L : y.cov = h.cov}) <= d
        BY <2>2, <4>2
      <4>5. \A y \in T : y.cov = h.cov /\ y.total > h.total => y \in L
        BY <4>3
      <4> QED BY <3>1, <4>4, <4>5
    <3>2. CASE g \in K \ {w}
      <4>1. /\ Cardinality({y \in K : y.cov = g.cov}) <= d
            /\ \A y \in s.hypos : y.cov = g.cov /\ y.total > g.total => y \in K
        BY <1>2, <2>3, <3>2
      <4>2. ASSUME NEW y \in T, y.cov = g.cov, y.total > g.total PROVE y \in L
        <5>1. CASE y = h
          BY <5>1
        <5>2. CASE y \in s.hypos
          <6>1. y \in K
            BY <4>1, <4>2, <5>2
          <6>2. y # w
            <7>1. ASSUME y = w PROVE w.total <= g.total
              BY <1>4, <3>2, <4>2, <7>1
            <7>2. y.total \in Int /\ g.total \in Int
              BY <1>1, <1>2, <3>2, <6>1
            <7> QED BY <4>2, <7>1, <7>2
          <6> QED BY <6>1, <6>2
        <5> QED BY <5>1, <5>2
      <4> QED BY <2>2, <4>1, <4>2
    <3> QED BY <3>1, <3>2
  <2> HIDE DEF L
  <2>4. Fills(L, e, x)
    BY <1>2, <2>1, <2>2, <2>3 DEF Fills
  <2> QED BY <2>1, <2>4 DEF L
<1>5. CASE \E g \in K : out = {g}
  <2>1. PICK g \in K : out = {g}
    BY <1>5
  <2>2. g.cov = h.cov /\ g.total < h.total /\ g \notin T
    BY <1>1, <1>2, <2>1 DEF Equivalent, Beats
  <2>3. out \cap K \subseteq {g}
    BY <2>1
  <2>4. Fills((K \ {g}) \cup {h}, e, x)
    BY <1>4, <2>2, <2>3
  <2> QED BY <2>4 DEF Fills
<1>6. CASE out \cap K = {} /\ \E y \in K : y.cov = h.cov /\ y.total < h.total /\ y.total < x
  <2>1. PICK low \in K : low.cov = h.cov /\ low.total < h.total
    BY <1>6
  <2> DEFINE Of == {y \in K : y.cov = h.cov}
  <2>2. PICK w \in Of : \A y \in Of : w.total <= y.total
    <3>1. Of \in SUBSET K /\ Of # {}
      BY <2>1
    <3>2. Sortable(Of)
      BY <1>1, <1>2, <1>3, <3>1, FS_Subset DEF Sortable
    <3> HIDE DEF Of
    <3> QED BY <3>1, <3>2, WorstExists
  <2>3. Fills((K \ {w}) \cup {h}, e, x)
    BY <1>4, <1>6, <2>1, <2>2
  <2> QED BY <2>3 DEF Fills
<1>7. CASE out \cap K = {} /\ \A y \in K : y.cov = h.cov /\ y.total < x => ~(y.total < h.total)
  <2>1. K \subseteq T
    BY <1>2, <1>7
  <2>2. ASSUME NEW g \in K, ~(g.total >= x)
        PROVE  \A y \in T : y.cov = g.cov /\ y.total > g.total => y \in K
    <3>1. TAKE y \in T
    <3>2. HAVE y.cov = g.cov /\ y.total > g.total
    <3>3. g.total \in Int /\ g.total < x
      BY <1>1, <1>2, <2>2
    <3>4. CASE y = h
      <4>1. g.total < h.total /\ g.cov = h.cov
        BY <3>2, <3>3, <3>4
      <4> QED BY <1>7, <3>3, <4>1
    <3>5. CASE y \in s.hypos
      BY <1>2, <2>2, <3>2, <3>5
    <3> QED BY <3>4, <3>5
  <2>3. Fills(K, e, x)
    BY <1>2, <2>1, <2>2 DEF Fills
  <2> QED BY <2>3 DEF Fills
<1> QED BY <1>2, <1>5, <1>6, <1>7

\* Coverage by coverage: sets that have no more of any have no more in all.
LEMMA CountByCoverage ==
  ASSUME NEW A, IsFiniteSet(A), NEW B, IsFiniteSet(B),
         \A c : Cardinality({h \in A : h.cov = c}) <= Cardinality({h \in B : h.cov = c})
  PROVE  Cardinality(A) <= Cardinality(B)
<1> DEFINE Of(S, c) == {h \in S : h.cov = c}
           Fewer(P, Q) == \A c : Cardinality(Of(P, c)) <= Cardinality(Of(Q, c))
           Sizes == {n \in Nat : \E P \in SUBSET A, Q \in SUBSET B :
                       Cardinality(P) = n /\ Fewer(P, Q) /\ ~(Cardinality(P) <= Cardinality(Q))}
<1>1. SUFFICES ASSUME ~(Cardinality(A) <= Cardinality(B)) PROVE FALSE
  OBVIOUS
<1>2. Cardinality(A) \in Sizes
  <2>1. A \in SUBSET A /\ B \in SUBSET B /\ Fewer(A, B)
    OBVIOUS
  <2>2. Cardinality(A) \in Nat
    BY FS_CardinalityType
  <2> QED BY <1>1, <2>1, <2>2
<1>3. PICK n \in Sizes : \A m \in Sizes : n <= m
  BY <1>2, LeastNumber
<1>4. PICK P \in SUBSET A, Q \in SUBSET B :
        Cardinality(P) = n /\ Fewer(P, Q) /\ ~(Cardinality(P) <= Cardinality(Q))
  BY <1>3
<1>5. /\ IsFiniteSet(P) /\ Cardinality(P) \in Nat /\ IsFiniteSet(Q) /\ Cardinality(Q) \in Nat
      /\ \A c : /\ IsFiniteSet(Of(P, c)) /\ Cardinality(Of(P, c)) \in Nat
                /\ IsFiniteSet(Of(Q, c)) /\ Cardinality(Of(Q, c)) \in Nat
  <2>1. \A c : Of(P, c) \in SUBSET P /\ Of(Q, c) \in SUBSET Q
    OBVIOUS
  <2>2. IsFiniteSet(P) /\ IsFiniteSet(Q)
    BY <1>4, FS_Subset
  <2> HIDE DEF Of
  <2> QED BY <2>1, <2>2, FS_Subset, FS_CardinalityType
<1>6. PICK p \in P : TRUE
  <2>1. SUFFICES ASSUME P = {} PROVE FALSE
    OBVIOUS
  <2>2. Cardinality(P) = 0
    BY <2>1, FS_EmptySet
  <2> QED BY <1>4, <1>5, <2>2
<1> DEFINE c == p.cov
           P1 == P \ Of(P, c)
           Q1 == Q \ Of(Q, c)
<1>7. /\ IsFiniteSet(P1) /\ Cardinality(P1) \in Nat
      /\ Cardinality(P1) = Cardinality(P) - Cardinality(Of(P, c))
      /\ IsFiniteSet(Q1) /\ Cardinality(Q1) \in Nat
      /\ Cardinality(Q1) = Cardinality(Q) - Cardinality(Of(Q, c))
  <2>1. P \cap Of(P, c) = Of(P, c) /\ Q \cap Of(Q, c) = Of(Q, c)
    OBVIOUS
  <2> HIDE DEF Of
  <2>2. /\ IsFiniteSet(P1) /\ Cardinality(P1) = Cardinality(P) - Cardinality(P \cap Of(P, c))
        /\ IsFiniteSet(Q1) /\ Cardinality(Q1) = Cardinality(Q) - Cardinality(Q \cap Of(Q, c))
    BY <1>5, FS_Difference
  <2> HIDE DEF P1, Q1
  <2> QED BY <2>1, <2>2, FS_CardinalityType
<1>8. Fewer(P1, Q1)
  <2> SUFFICES ASSUME NEW k PROVE Cardinality(Of(P1, k)) <= Cardinality(Of(Q1, k))
    OBVIOUS
  <2>1. CASE k = c
    <3>1. Of(P1, k) = {} /\ Of(Q1, k) = {}
      BY <2>1
    <3>2. Cardinality(Of(P1, k)) = 0 /\ Cardinality(Of(Q1, k)) = 0
      BY <3>1, FS_EmptySet
    <3> QED BY <3>2
  <2>2. CASE k # c
    <3>1. Of(P1, k) = Of(P, k) /\ Of(Q1, k) = Of(Q, k)
      BY <2>2
    <3> QED BY <1>4, <3>1
  <2> QED BY <2>1, <2>2
<1>9. Cardinality(Of(P, c)) # 0
  <2>1. p \in Of(P, c)
    BY <1>6
  <2> QED BY <1>5, <2>1, FS_EmptySet
<1>10. Cardinality(P1) <= Cardinality(Q1)
  <2>1. Cardinality(P1) < n
    <3> HIDE DEF P1, Of
    <3> QED BY <1>4, <1>5, <1>7, <1>9
  <2>2. P1 \in SUBSET A /\ Q1 \in SUBSET B
    BY <1>4
  <2>3. Cardinality(P1) \notin Sizes
    <3>1. n \in Nat
      BY <1>3
    <3> HIDE DEF P1, Sizes
    <3> QED BY <1>3, <1>7, <2>1, <3>1
  <2> QED BY <1>7, <1>8, <2>2, <2>3
<1>11. Cardinality(Of(P, c)) <= Cardinality(Of(Q, c))
  BY <1>4
<1> HIDE DEF P1, Q1, Of
<1> QED BY <1>4, <1>5, <1>7, <1>10, <1>11

\* After PruneToSize has filled the stack, it is filled for every score that those
\* kept for their scores have.
LEMMA WholeFills ==
  ASSUME NEW s, IsStack(s), NEW D, NEW F, NEW t, Prunes(s, s.settings.maxSize, D, F, t),
         NEW x \in Int, \A g \in F : g.total >= x, Cardinality(D \cup F) >= s.settings.maxSize
  PROVE  Fills(t.hypos, t, x)
<1> DEFINE d == s.settings.diversity
           n == s.settings.maxSize
<1>1. /\ d \in Nat /\ n \in Nat /\ Sortable(s.hypos) /\ \A h \in s.hypos : h.total \in Int
  BY SettingsTypes DEF IsStack, Sortable
<1>2. D \in SUBSET s.hypos /\ F \in SUBSET (s.hypos \ D)
  <2>1. n \in Nat /\ Prunes(s, n, D, F, t)
    BY <1>1
  <2> HIDE DEF n
  <2>2. Keeps(s, n, D, F)
    BY <2>1, PruneSets
  <2> QED BY <2>2 DEF Keeps
<1>3. t.hypos = D \cup F /\ t.settings = s.settings
  BY DEF Prunes, IsStack
<1>4. /\ \A c : Cardinality({h \in D : h.cov = c}) <= d
      /\ \A h \in s.hypos \ D : \A g \in D : g.cov = h.cov => g.total >= h.total
  <2>1. D \in DiverseSets(s.hypos, d)
    BY DEF Prunes
  <2> HIDE DEF d
  <2>2. FillsQuota(D, s.hypos, d)
    BY <1>1, <2>1, DiverseSetsKeepBest
  <2> QED BY <2>2 DEF FillsQuota
<1>5. ASSUME NEW g \in t.hypos, ~(g.total >= x)
      PROVE  Cardinality({y \in t.hypos : y.cov = g.cov}) <= d
  <2>1. g \in D
    BY <1>3, <1>5
  <2>2. \A f \in F : f.cov # g.cov
    <3>1. SUFFICES ASSUME NEW f \in F, f.cov = g.cov PROVE FALSE
      OBVIOUS
    <3>2. g.total >= f.total /\ f.total >= x /\ g.total \in Int /\ f.total \in Int
      BY <1>1, <1>2, <1>4, <2>1, <3>1
    <3> QED BY <1>5, <3>2
  <2>3. {y \in t.hypos : y.cov = g.cov} = {h \in D : h.cov = g.cov}
    BY <1>3, <2>2
  <2> QED BY <1>4, <2>3
<1> QED BY <1>3, <1>5 DEF Fills

\* PruneToSize: for those it drops there was no place, and the worst score it
\* sets, or leaves, is earned.
LEMMA PruneWorstEarned ==
  ASSUME NEW s, IsStack(s), s.worst <= s.best, WorstEarned(s), NEW D, NEW F, NEW t,
         Prunes(s, s.settings.maxSize, D, F, t)
  PROVE  WorstEarned(t) /\ \A h \in s.hypos \ t.hypos : NoPlaceFor(h.total, t)
<1> DEFINE d == s.settings.diversity
           n == s.settings.maxSize
           beam == s.settings.beam
<1>1. /\ d \in Nat /\ n \in Nat \ {0} /\ beam \in Int /\ Sortable(s.hypos)
      /\ s.best \in Int /\ s.worst \in Int /\ \A h \in s.hypos : h.total \in Int
  BY SettingsTypes DEF IsStack, Sortable
<1>2. /\ D \in SUBSET s.hypos /\ F \in SUBSET (s.hypos \ D)
      /\ IsFiniteSet(D) /\ IsFiniteSet(F) /\ IsFiniteSet(D \cup F)
      /\ Cardinality(D) \in Nat /\ Cardinality(F) \in Nat
      /\ Cardinality(D \cup F) = Cardinality(D) + Cardinality(F)
      /\ Cardinality(F) <= Room(n, D)
      /\ \A h \in s.hypos \ (D \cup F) :
           \/ h.total <= s.best + s.settings.beam
           \/ Cardinality(F) = Room(n, D) /\ \A g \in F : g.total >= h.total
  <2>1. n \in Nat /\ Prunes(s, n, D, F, t)
    BY <1>1
  <2> HIDE DEF n
  <2>2. Keeps(s, n, D, F)
    BY <2>1, PruneSets
  <2> QED BY <2>2 DEF Keeps
<1>3. /\ t.hypos = D \cup F /\ t.best = s.best /\ t.settings = s.settings
      /\ t.worst = IF F # {} /\ Cardinality(D \cup F) = n THEN LeastScore(F) ELSE s.worst
  BY DEF Prunes, IsStack
<1>4. IsStack(t)
  BY <1>1, PrunedStackKept
<1>5. ASSUME NEW h \in s.hypos \ t.hypos PROVE NoPlaceFor(h.total, t)
  <2>1. CASE h.total <= s.best + beam
    BY <1>3, <2>1 DEF NoPlaceFor
  <2>2. CASE Cardinality(F) = Room(n, D) /\ \A g \in F : g.total >= h.total
    <3>1. Cardinality(D \cup F) >= n
      BY <1>1, <1>2, <2>2 DEF Room
    <3>2. h.total \in Int
      BY <1>1
    <3>3. Fills(t.hypos, t, h.total)
      BY <2>2, <3>1, <3>2, WholeFills
    <3>4. h.total <= h.total
      BY <3>2
    <3> QED BY <1>4, <3>2, <3>3, <3>4, FilledHasNoPlace
  <2> QED BY <1>2, <1>3, <1>5, <2>1, <2>2
<1>6. CASE F # {} /\ Cardinality(D \cup F) = n
  <2>1. Sortable(F)
    BY <1>1, <1>2 DEF Sortable
  <2>2. LeastScore(F) \in Int /\ \A h \in F : LeastScore(F) <= h.total
    BY <1>6, <2>1, LeastScoreIsWorst
  <2>3. \A h \in F : h.total >= LeastScore(F)
    BY <1>1, <1>2, <2>2
  <2>4. Cardinality(D \cup F) >= n
    BY <1>1, <1>6
  <2>5. Fills(t.hypos, t, LeastScore(F))
    BY <2>2, <2>3, <2>4, WholeFills
  <2> QED BY <1>3, <1>5, <1>6, <2>5 DEF WorstEarned
<1>7. CASE ~(F # {} /\ Cardinality(D \cup F) = n)
  <2>1. t.worst = s.worst
    BY <1>3, <1>7
  <2>2. CASE s.worst = NegInf \/ s.worst <= s.best + beam
    BY <1>3, <1>5, <2>1, <2>2 DEF WorstEarned
  <2>3. CASE ~(s.worst <= s.best + beam) /\ \E K \in SUBSET s.hypos : Fills(K, s, s.worst)
    <3>1. PICK K \in SUBSET s.hypos : Fills(K, s, s.worst)
      BY <2>3
    <3>2. CASE Cardinality(D) >= n
      <4>1. Cardinality(F) = 0
        BY <1>1, <1>2, <3>2 DEF Room
      <4>2. F = {}
        BY <1>2, <4>1, FS_EmptySet
      <4>3. Cardinality(D \cup F) >= n
        BY <1>1, <1>2, <3>2
      <4>4. Fills(t.hypos, t, s.worst)
        BY <1>1, <4>2, <4>3, WholeFills
      <4> QED BY <1>5, <2>1, <4>4 DEF WorstEarned
    <3>3. CASE ~(Cardinality(D) >= n)
      <4> DEFINE Of(S, c) == {h \in S : h.cov = c}
      <4>1. Cardinality(F) <= n - Cardinality(D) /\ Room(n, D) = n - Cardinality(D)
        BY <1>1, <1>2, <3>3 DEF Room
      <4>2. Cardinality(D \cup F) < n
        <5>1. CASE F = {}
          <6>1. Cardinality(F) = 0
            BY <5>1, FS_EmptySet
          <6> QED BY <1>1, <1>2, <3>3, <6>1
        <5>2. CASE F # {}
          BY <1>1, <1>2, <1>7, <4>1, <5>2
        <5> QED BY <5>1, <5>2
      <4>3. Cardinality(F) # Room(n, D)
        BY <1>1, <1>2, <4>1, <4>2
      <4>4. IsFiniteSet(K) /\ Cardinality(K) \in Nat /\ Cardinality(K) >= n
        BY <1>1, <3>1, FS_Subset, FS_CardinalityType DEF Fills, Sortable
      <4>5. ASSUME NEW c PROVE Cardinality(Of(K, c)) <= Cardinality(Of(D \cup F, c))
        <5>1. /\ IsFiniteSet(Of(K, c)) /\ Cardinality(Of(K, c)) \in Nat
              /\ IsFiniteSet(Of(D \cup F, c)) /\ Cardinality(Of(D \cup F, c)) \in Nat
          <6>1. Of(K, c) \in SUBSET K /\ Of(D \cup F, c) \in SUBSET (D \cup F)
            OBVIOUS
          <6> HIDE DEF Of
          <6> QED BY <1>2, <4>4, <6>1, FS_Subset, FS_CardinalityType
        <5>2. CASE Of(K, c) \subseteq D \cup F
          <6>1. Of(K, c) \in SUBSET Of(D \cup F, c)
            BY <5>2
          <6> HIDE DEF Of
          <6> QED BY <5>1, <6>1, FS_Subset
        <5>3. CASE ~(Of(K, c) \subseteq D \cup F)
          <6>1. PICK g \in K : g.cov = c /\ g \notin D \cup F
            BY <5>3
          <6>2. g.total <= s.best + beam /\ g.total \in Int
            BY <1>1, <1>2, <3>1, <4>3, <6>1
          <6>3. ~(g.total >= s.worst)
            BY <1>1, <2>3, <6>2
          <6>4. Cardinality(Of(K, c)) <= d
            BY <3>1, <6>1, <6>3 DEF Fills
          <6>5. Cardinality(Of(D, c)) = d
            <7>1. D \in DiverseSets(s.hypos, d)
              BY DEF Prunes
            <7>2. g \in s.hypos \ D
              BY <3>1, <6>1
            <7> HIDE DEF d
            <7>3. FillsQuota(D, s.hypos, d)
              BY <1>1, <7>1, DiverseSetsKeepBest
            <7> QED BY <6>1, <7>2, <7>3 DEF FillsQuota
          <6>6. Of(D, c) \in SUBSET Of(D \cup F, c)
            OBVIOUS
          <6> HIDE DEF Of
          <6>7. Cardinality(Of(D, c)) <= Cardinality(Of(D \cup F, c))
            BY <5>1, <6>6, FS_Subset
          <6> QED BY <1>1, <5>1, <6>4, <6>5, <6>7
        <5> QED BY <5>2, <5>3
      <4>6. Cardinality(K) <= Cardinality(D \cup F)
        BY <1>2, <4>4, <4>5, CountByCoverage
      <4>7. FALSE
        BY <1>1, <1>2, <4>2, <4>4, <4>6
      <4> QED BY <4>7
    <3> QED BY <3>2, <3>3
  <2> QED BY <2>2, <2>3 DEF WorstEarned
<1> QED BY <1>6, <1>7

-----------------------------------------------------------------------------
(* The operations *)

\* What the operations of the stack preserve, of the stack s, the arc lists, the
\* deleted hypotheses and all hypotheses that have arrived.
Consistent(s, arcs, freed, all) ==
  /\ IsStack(s) /\ s.worst <= s.best
  /\ Numbered(all, arcs) /\ Owned(s.hypos, arcs, freed, all)
  /\ Scored(all) /\ Losers(s.hypos, arcs)
  /\ BestHeld(s, all) /\ QuotaEarned(s) /\ WorstEarned(s)
  /\ ~s.settings.nBest => \A i \in DOMAIN arcs : arcs[i] = {}

\* An equivalent hypothesis is at least as good.
Recombined(x, all) == \E g \in all : g # x /\ Equivalent(g, x) /\ g.total >= x.total

\* The quota of its coverage is there and at least as good.
QuotaKept(x, s) == Cardinality(AsGood(s.hypos, x.cov, x.total)) >= s.settings.diversity

\* The stack has no use for x: the quota of its coverage is there, and there is no
\* place for its score.
Superfluous(x, s) == QuotaKept(x, s) /\ NoPlaceFor(x.total, s)

\* No coverage has more hypotheses on the stack than its quota.
OnlyDiverse(s) ==
  \A c \in Coverages : Cardinality({g \in s.hypos : g.cov = c}) <= s.settings.diversity

\* An arc was recombined with the hypothesis that has it.
LEMMA ArcsRecombined ==
  ASSUME NEW S, NEW arcs, NEW freed, NEW all, Owned(S, arcs, freed, all), Numbered(all, arcs),
         Losers(S, arcs), NEW h \in S, NEW x \in arcs[h.id]
  PROVE  Recombined(x, all)
<1>1. Equivalent(x, h) /\ x.total <= h.total
  BY DEF Owned, Losers
<1>2. x \in ArcsOf(S, arcs)
  BY ArcsOfMembers
<1>3. x \in all /\ h \in all /\ x # h
  BY <1>2 DEF Owned
<1> QED BY <1>1, <1>3 DEF Recombined, Equivalent, Numbered

\* PruneToSize.
LEMMA PruneConsistent ==
  ASSUME NEW s, NEW arcs, NEW freed, NEW all, Consistent(s, arcs, freed, all),
         NEW o \in PruneToSize(s, arcs, s.settings.maxSize)
  PROVE  /\ Consistent(o.stack, o.arcs, freed \cup o.freed, all)
         /\ Elsewhere(arcs, o.arcs, all) /\ o.stack.settings = s.settings
         /\ Cardinality(o.stack.hypos) <= s.settings.maxSize \/ OnlyDiverse(o.stack)
         /\ \A x \in o.freed : Recombined(x, all) \/ Superfluous(x, o.stack)
<1> DEFINE n == s.settings.maxSize
<1>0. n \in Nat \ {0}
  BY SettingsTypes DEF Consistent, IsStack
<1>1. CASE Cardinality(s.hypos) <= n /\ o = Outcome(s, arcs, {})
  <2>1. o.stack = s /\ o.arcs = arcs /\ o.freed = {}
    BY <1>1 DEF Outcome
  <2>2. freed \cup o.freed = freed
    BY <2>1
  <2>3. Elsewhere(arcs, o.arcs, all)
    BY <2>1 DEF Elsewhere
  <2> QED BY <1>1, <2>1, <2>2, <2>3
<1>2. CASE \E D, F, t : Prunes(s, n, D, F, t) /\ o = Freeing(t, arcs, s.hypos)
  <2>1. PICK D, F, t : Prunes(s, n, D, F, t) /\ o = Freeing(t, arcs, s.hypos)
    BY <1>2
  <2>2. IsStack(s) /\ s.worst <= s.best
    BY DEF Consistent
  <2>3. /\ IsStack(t) /\ t.worst <= t.best /\ t.hypos = D \cup F /\ t.hypos \subseteq s.hypos
        /\ t.settings = s.settings /\ t.best = s.best
        /\ \/ Cardinality(t.hypos) <= n
           \/ \A c : Cardinality({g \in t.hypos : g.cov = c}) <= s.settings.diversity
        /\ \A h \in s.hypos \ t.hypos :
             Cardinality(AsGood(t.hypos, h.cov, h.total)) >= s.settings.diversity
        /\ QuotaEarned(s) => QuotaEarned(t)
    BY <1>0, <2>1, <2>2, PrunedStackKept
  <2>4. /\ Owned(t.hypos, o.arcs, freed \cup o.freed, all) /\ Numbered(all, o.arcs)
        /\ o.stack = t /\ Elsewhere(arcs, o.arcs, all)
        /\ \A i \in DOMAIN arcs : o.arcs[i] \subseteq arcs[i]
        /\ \A x \in o.freed : x \in s.hypos \ t.hypos \/ \E h \in s.hypos \ t.hypos : x \in arcs[h.id]
    <3>1. Owned(s.hypos, arcs, freed, all) /\ Numbered(all, arcs)
      BY DEF Consistent
    <3>2. t.hypos \subseteq s.hypos
      BY <2>3
    <3>3. Deletes(s.hypos, arcs, freed, all, t, o)
      BY <2>1, <3>1, <3>2, FreeingOwned
    <3> QED BY <3>3 DEF Deletes
  <2>5. BestHeld(t, all)
    <3>1. CASE all = {} /\ s.best = NegInf
      BY <2>3, <3>1 DEF BestHeld
    <3>2. CASE \E w \in s.hypos : w.total = s.best
      <4>1. \E h \in D \cup F : h.total = s.best
        BY <1>0, <2>1, <2>2, <3>2, PruneKeepsBest
      <4> QED BY <2>3, <4>1 DEF BestHeld, Consistent
    <3> QED BY <3>1, <3>2 DEF BestHeld, Consistent
  <2>6. WorstEarned(t) /\ \A h \in s.hypos \ t.hypos : NoPlaceFor(h.total, t)
    BY <2>1, <2>2, PruneWorstEarned DEF Consistent
  <2>10. Losers(t.hypos, o.arcs)
    <3>1. \A h \in s.hypos : h.id \in DOMAIN arcs
      BY DEF Consistent, Owned, Numbered
    <3> QED BY <2>3, <2>4, <3>1 DEF Losers, Consistent
  <2>11. ~t.settings.nBest => \A i \in DOMAIN o.arcs : o.arcs[i] = {}
    BY <2>3, <2>4 DEF Consistent, Elsewhere
  <2>7. Consistent(t, o.arcs, freed \cup o.freed, all)
    BY <2>3, <2>4, <2>5, <2>6, <2>10, <2>11 DEF Consistent
  <2>8. \A x \in o.freed : Recombined(x, all) \/ Superfluous(x, t)
    <3>1. TAKE x \in o.freed
    <3>2. CASE x \in s.hypos \ t.hypos
      BY <2>3, <2>6, <3>2 DEF QuotaKept, Superfluous
    <3>3. CASE \E h \in s.hypos \ t.hypos : x \in arcs[h.id]
      BY <3>3, ArcsRecombined DEF Consistent
    <3> QED BY <2>4, <3>2, <3>3
  <2>9. Cardinality(t.hypos) <= n \/ OnlyDiverse(t)
    BY <2>3 DEF OnlyDiverse
  <2> QED BY <2>3, <2>4, <2>7, <2>8, <2>9
<1> QED BY <1>1, <1>2, PruneOutcomes

\* Add's stack before any pruning; out is the hypothesis that was beaten.
Entered(s, out, h) ==
  [s EXCEPT !.hypos = (@ \ out) \cup {h},
            !.best  = IF h.total > s.best THEN h.total ELSE s.best,
            !.worst = IF h.total > s.best THEN RaisedWorst(s, h.total) ELSE s.worst,
            !.covWorst[h.cov] = IF s.settings.diversity = 1 /\ h.total > @
                                THEN h.total ELSE @]

\* Add, on the stack without the beaten one: it prunes when there are too many.
LEMMA AddOutcomes ==
  ASSUME NEW s, IsStack(s), NEW out, NEW b, NEW h,
         NEW o \in Add([s EXCEPT !.hypos = @ \ out], b, h)
  PROVE  \/ /\ o = Outcome(Entered(s, out, h), b, {})
            /\ ~(Cardinality(Entered(s, out, h).hypos) > ToleratedSize(s.settings))
         \/ o \in PruneToSize(Entered(s, out, h), b, s.settings.maxSize)
<1> DEFINE w == [s EXCEPT !.hypos = @ \ out]
           best == IF h.total > w.best THEN h.total ELSE w.best
           added == [w EXCEPT
                       !.hypos = @ \cup {h},
                       !.best  = best,
                       !.worst = IF h.total > w.best THEN RaisedWorst(w, best) ELSE @,
                       !.covWorst[h.cov] = IF w.settings.diversity = 1 /\ h.total > @
                                           THEN h.total ELSE @]
<1>1. o \in IF Cardinality(added.hypos) > ToleratedSize(w.settings)
            THEN PruneToSize(added, b, w.settings.maxSize)
            ELSE {Outcome(added, b, {})}
  BY DEF Add
<1>2. w.settings = s.settings /\ w.best = s.best /\ w.worst = s.worst
      /\ w.hypos = s.hypos \ out /\ w.covWorst = s.covWorst
  BY DEF IsStack
<1>3. RaisedWorst(w, h.total) = RaisedWorst(s, h.total)
  BY <1>2 DEF RaisedWorst
<1>4. added = Entered(s, out, h)
  BY <1>2, <1>3 DEF Entered, IsStack
<1> HIDE DEF added, w
<1> QED BY <1>1, <1>2, <1>4

\* The stack e has h in place of those it has beaten, and is as s was.
Takes(e, s, out, h, all) ==
  /\ IsStack(e) /\ e.worst <= e.best /\ QuotaEarned(e) /\ WorstEarned(e)
  /\ BestHeld(e, all \cup {h})
  /\ e.settings = s.settings /\ e.hypos = (s.hypos \ out) \cup {h}

\* The stack with h in place of those it has beaten, which are equivalent to it.
LEMMA EnteredStack ==
  ASSUME NEW s, IsStack(s), s.worst <= s.best, QuotaEarned(s), WorstEarned(s),
         NEW all, BestHeld(s, all),
         \A g \in all : g.total \in Int,
         NEW h, h.total \in Int, h.cov \in Coverages, h.total >= NegInf, h \notin s.hypos,
         NEW out \in SUBSET s.hypos, out = {} \/ \E g \in s.hypos : out = {g},
         \A g \in out : Equivalent(g, h) /\ Beats(h, g)
  PROVE  Takes(Entered(s, out, h), s, out, h, all)
<1> DEFINE e == Entered(s, out, h)
           T == (s.hypos \ out) \cup {h}
           d == s.settings.diversity
           c == h.cov
<1>1. /\ d \in Nat /\ s.settings.beam \in Int /\ s.settings.beam < 0 /\ s.settings \in Settings
      /\ Sortable(s.hypos) /\ s.best \in Int /\ s.worst \in Int
      /\ s.covWorst \in [Coverages -> Int]
      /\ \A g \in s.hypos : g.cov \in Coverages /\ g.total <= s.best
  BY SettingsTypes DEF IsStack
<1>2. /\ e.hypos = T /\ e.settings = s.settings
      /\ e.best = (IF h.total > s.best THEN h.total ELSE s.best)
      /\ e.worst = (IF h.total > s.best THEN RaisedWorst(s, h.total) ELSE s.worst)
      /\ e.covWorst = [s.covWorst EXCEPT ![c] = IF d = 1 /\ h.total > @ THEN h.total ELSE @]
      /\ e = [hypos |-> e.hypos, best |-> e.best, worst |-> e.worst,
              covWorst |-> e.covWorst, settings |-> e.settings]
  <2> DEFINE r == [s.covWorst EXCEPT ![h.cov] = IF s.settings.diversity = 1 /\ h.total > @
                                                THEN h.total ELSE @]
  <2>1. e = [hypos |-> T,
             best |-> IF h.total > s.best THEN h.total ELSE s.best,
             worst |-> IF h.total > s.best THEN RaisedWorst(s, h.total) ELSE s.worst,
             covWorst |-> r, settings |-> s.settings]
    <3>1. s = [hypos |-> s.hypos, best |-> s.best, worst |-> s.worst,
               covWorst |-> s.covWorst, settings |-> s.settings]
      BY DEF IsStack
    <3> DEFINE b == IF h.total > s.best THEN h.total ELSE s.best
               v == IF h.total > s.best THEN RaisedWorst(s, h.total) ELSE s.worst
    <3>2. e = [s EXCEPT !.hypos = T, !.best = b, !.worst = v, !.covWorst = r]
      BY DEF Entered
    <3> HIDE DEF e, r, b, v, T
    <3>3. e = [hypos |-> T, best |-> b, worst |-> v, covWorst |-> r, settings |-> s.settings]
      BY <3>1, <3>2
    <3> QED BY <3>3 DEF b, v
  <2>2. r = [s.covWorst EXCEPT ![c] = IF d = 1 /\ h.total > @ THEN h.total ELSE @]
    OBVIOUS
  <2> HIDE DEF e, r, T
  <2> QED BY <2>1, <2>2
<1> HIDE DEF e, d, c
<1>3. e.best \in Int /\ e.best >= s.best /\ e.best >= h.total
  BY <1>1, <1>2
<1>4. e.worst \in Int /\ e.worst <= e.best
  BY <1>1, <1>2 DEF RaisedWorst
<1>5. IsFiniteSet(T) /\ Sortable(T)
  <2>1. s.hypos \ out \in SUBSET s.hypos
    OBVIOUS
  <2>2. IsFiniteSet(s.hypos \ out)
    BY <1>1, <2>1, FS_Subset DEF Sortable
  <2>3. IsFiniteSet(T)
    BY <2>2, FS_AddElement
  <2> QED BY <1>1, <2>3 DEF Sortable
<1>6. e.covWorst \in [Coverages -> Int]
  BY <1>1, <1>2 DEF c
<1>7. IsStack(e)
  <2>1. \A g \in T : g.cov \in Coverages /\ g.total <= e.best
    BY <1>1, <1>3 DEF Sortable
  <2> QED BY <1>1, <1>2, <1>3, <1>4, <1>5, <1>6, <2>1 DEF IsStack
<1>8. BestHeld(e, all \cup {h})
  <2>1. CASE h.total > s.best
    <3>1. e.best = h.total /\ h \in e.hypos
      BY <1>2, <2>1
    <3>2. \A g \in all \cup {h} : g.total <= e.best
      <4>1. TAKE g \in all \cup {h}
      <4>2. CASE g \in s.hypos \/ g = h
        BY <1>1, <1>3, <3>1, <4>2 DEF Sortable
      <4>3. CASE g \in all
        BY <1>1, <1>3, <4>3 DEF BestHeld
      <4> QED BY <4>2, <4>3
    <3> QED BY <3>1, <3>2 DEF BestHeld
  <2>2. CASE ~(h.total > s.best)
    <3>1. e.best = s.best /\ h.total <= s.best
      BY <1>1, <1>2, <2>2
    <3>2. CASE all = {} /\ s.best = NegInf
      <4>1. h.total = e.best
        BY <1>1, <3>1, <3>2
      <4> QED BY <1>2, <3>1, <3>2, <4>1 DEF BestHeld
    <3>3. CASE \E w \in s.hypos : w.total = s.best
      <4>1. PICK w \in s.hypos : w.total = s.best
        BY <3>3
      <4>2. w \notin out
        BY <1>1, <3>1, <4>1 DEF Beats
      <4> QED BY <1>2, <3>1, <4>1, <4>2 DEF BestHeld
    <3> QED BY <3>2, <3>3 DEF BestHeld
  <2> QED BY <2>1, <2>2
<1>9. QuotaEarned(e)
  <2> SUFFICES ASSUME NEW k \in Coverages, e.covWorst[k] # NegInf
               PROVE  Cardinality(AsGood(T, k, e.covWorst[k])) >= d
    BY <1>2 DEF QuotaEarned, d
  <2> DEFINE x == e.covWorst[k]
             Y == AsGood(T, k, x)
  <2>1. x \in Int /\ IsFiniteSet(Y) /\ Cardinality(Y) \in Nat
    <3>1. T \in SUBSET T
      OBVIOUS
    <3> QED BY <1>5, <1>6, <3>1, AsGoodCounts
  <2>2. CASE k = c /\ d = 1 /\ h.total > s.covWorst[k]
    <3>1. x = h.total
      BY <1>1, <1>2, <2>2
    <3>2. h \in Y
      BY <2>2, <3>1 DEF AsGood, c
    <3>3. Cardinality(Y) # 0
      BY <2>1, <3>2, FS_EmptySet
    <3> HIDE DEF Y, x
    <3>4. Cardinality(Y) >= d
      BY <2>1, <2>2, <3>3
    <3> QED BY <3>4 DEF Y, x
  <2>3. CASE ~(k = c /\ d = 1 /\ h.total > s.covWorst[k])
    <3>1. x = s.covWorst[k]
      BY <1>1, <1>2, <2>3
    <3> DEFINE X == AsGood(s.hypos, k, x)
    <3>2. IsFiniteSet(X) /\ Cardinality(X) \in Nat /\ Cardinality(X) >= d
      <4>1. s.hypos \in SUBSET s.hypos /\ IsFiniteSet(s.hypos)
        BY <1>1 DEF Sortable
      <4>2. IsFiniteSet(X) /\ Cardinality(X) \in Nat
        BY <4>1, AsGoodCounts
      <4>3. Cardinality(X) >= d
        BY <3>1 DEF QuotaEarned, d
      <4> QED BY <4>2, <4>3
    <3>3. Cardinality(X) <= Cardinality(Y)
      <4>1. CASE \A g \in out : g \notin X
        <5>1. X \in SUBSET Y
          BY <4>1 DEF AsGood
        <5> QED BY <2>1, <5>1, FS_Subset
      <4>2. CASE \E g \in out : g \in X
        <5>1. PICK g \in out : g \in X
          BY <4>2
        <5>2. out = {g}
          BY <5>1
        <5>3. h \in Y
          BY <1>1, <2>1, <5>1 DEF AsGood, Equivalent, Beats, Sortable
        <5>4. X \ {g} \in SUBSET (Y \ {h})
          BY <5>2 DEF AsGood
        <5>5. /\ IsFiniteSet(Y \ {h}) /\ Cardinality(Y \ {h}) = Cardinality(Y) - 1
              /\ Cardinality(X \ {g}) = Cardinality(X) - 1
          <6> HIDE DEF X, Y
          <6> QED BY <2>1, <3>2, <5>1, <5>3, FS_RemoveElement
        <5>6. Cardinality(X \ {g}) <= Cardinality(Y \ {h})
          BY <5>4, <5>5, FS_Subset
        <5> HIDE DEF X, Y
        <5> QED BY <2>1, <3>2, <5>5, <5>6
      <4> QED BY <4>1, <4>2
    <3>4. d \in Nat
      BY <1>1
    <3> HIDE DEF X, Y, x
    <3>5. Cardinality(Y) >= d
      BY <2>1, <3>2, <3>3, <3>4
    <3> QED BY <3>5 DEF Y, x
  <2> QED BY <2>2, <2>3
<1>10. WorstEarned(e)
  <2>1. CASE e.worst # s.worst
    <3>1. e.worst = e.best + e.settings.beam
      BY <1>2, <2>1 DEF RaisedWorst
    <3> QED BY <1>1, <1>2, <1>3, <3>1 DEF WorstEarned
  <2>2. CASE e.worst = s.worst
    <3>1. CASE s.worst = NegInf \/ s.worst <= s.best + s.settings.beam
      BY <1>1, <1>2, <1>3, <2>2, <3>1 DEF WorstEarned
    <3>2. CASE \E K \in SUBSET s.hypos : Fills(K, s, s.worst)
      <4>1. PICK K \in SUBSET s.hypos : Fills(K, s, s.worst)
        BY <3>2
      <4>2. \E L \in SUBSET e.hypos : Fills(L, e, s.worst)
        BY <1>1, <1>2, <4>1, EnteredFills
      <4> QED BY <2>2, <4>2 DEF WorstEarned
    <3> QED BY <3>1, <3>2 DEF WorstEarned
  <2> QED BY <2>1, <2>2
<1> QED BY <1>2, <1>4, <1>7, <1>8, <1>9, <1>10 DEF e, Takes

\* An operation on the stack s has made o of it: all is consistent, and what was
\* deleted was recombined, or the stack has no use for it.
Leaves(s, arcs, freed, all, o) ==
  /\ Consistent(o.stack, o.arcs, freed \cup o.freed, all)
  /\ Elsewhere(arcs, o.arcs, all) /\ o.stack.settings = s.settings
  /\ \A x \in o.freed : Recombined(x, all) \/ Superfluous(x, o.stack)

\* The lazy pruning of Add lets the stack grow to the tolerated size.
NotTooLarge(s) ==
  \/ ~(Cardinality(s.hypos) > ToleratedSize(s.settings))
  \/ Cardinality(s.hypos) <= s.settings.maxSize
  \/ OnlyDiverse(s)

\* Outcomes are records.
LEMMA PruneOutcomeRecord ==
  ASSUME NEW s, NEW arcs, NEW n, NEW o \in PruneToSize(s, arcs, n)
  PROVE  o = Outcome(o.stack, o.arcs, o.freed)
<1>1. CASE o = Outcome(s, arcs, {})
  BY <1>1 DEF Outcome
<1>2. CASE \E t : o = Freeing(t, arcs, s.hypos)
  BY <1>2 DEF Freeing, Outcome
<1> QED BY <1>1, <1>2, PruneOutcomes

\* The new hypothesis h takes the place of at most one that it has beaten, whose
\* fate is settled in the arc lists b and the deleted hypotheses gone.
Replaces(h, out, b, gone, s, arcs, freed, all) ==
  /\ Consistent(s, arcs, freed, all) /\ IsNew(h, all, arcs) /\ h.total >= NegInf
  /\ out \in SUBSET s.hypos /\ (out = {} \/ \E g \in s.hypos : out = {g})
  /\ \A g \in out : Equivalent(g, h) /\ Beats(h, g)
  /\ Owned((s.hypos \ out) \cup {h}, b, gone, all \cup {h})
  /\ Scored(all \cup {h}) /\ Losers((s.hypos \ out) \cup {h}, b)
  /\ Numbered(all \cup {h}, b) /\ Elsewhere(arcs, b, all \cup {h})
  /\ ~s.settings.nBest => \A i \in DOMAIN b : b[i] = {}

\* What Add makes of the stack: all is consistent, and the stack is small enough.
Adds(s, arcs, gone, all, o) ==
  /\ Leaves(s, arcs, gone, all, o) /\ NotTooLarge(o.stack)
  /\ o = Outcome(o.stack, o.arcs, o.freed)

\* Add puts h on the stack, and the stack is pruned when it has grown too large.
LEMMA AddConsistent ==
  ASSUME NEW s, NEW arcs, NEW freed, NEW all, NEW h, NEW out, NEW b, NEW gone,
         Replaces(h, out, b, gone, s, arcs, freed, all),
         NEW o \in Add([s EXCEPT !.hypos = @ \ out], b, h)
  PROVE  Adds(s, arcs, gone, all \cup {h}, o)
<1> USE DEF Adds
<1> DEFINE e == Entered(s, out, h)
           now == all \cup {h}
<1>1. /\ IsStack(s) /\ s.worst <= s.best /\ QuotaEarned(s) /\ WorstEarned(s) /\ BestHeld(s, all)
      /\ s.hypos \subseteq all /\ \A g \in all : g.total \in Int
  BY DEF Replaces, Consistent, Owned, Scored
<1>2. /\ h.total \in Int /\ h.cov \in Coverages /\ h \notin s.hypos /\ h.total >= NegInf
      /\ out \in SUBSET s.hypos /\ (out = {} \/ \E g \in s.hypos : out = {g})
      /\ \A g \in out : Equivalent(g, h) /\ Beats(h, g)
  BY <1>1 DEF Replaces, IsNew, Scored
<1>3. Takes(e, s, out, h, all)
  BY <1>1, <1>2, EnteredStack
<1> HIDE DEF e
<1>4. Consistent(e, b, gone, now)
  BY <1>3 DEF Consistent, Replaces, Takes
<1>7. e.settings = s.settings /\ Elsewhere(arcs, b, now)
  BY <1>3 DEF Takes, Replaces
<1> HIDE DEF now
<1>5. CASE /\ o = Outcome(e, b, {})
           /\ ~(Cardinality(e.hypos) > ToleratedSize(s.settings))
  <2>1. o.stack = e /\ o.arcs = b /\ o.freed = {}
    BY <1>5 DEF Outcome
  <2>2. gone \cup o.freed = gone
    BY <2>1
  <2> QED BY <1>4, <1>5, <1>7, <2>1, <2>2 DEF Leaves, NotTooLarge, now
<1>6. CASE o \in PruneToSize(e, b, s.settings.maxSize)
  <2>1. s.settings.maxSize \in Nat \ {0}
    BY <1>1, SettingsTypes DEF IsStack
  <2>2. /\ Consistent(o.stack, o.arcs, gone \cup o.freed, now)
        /\ Elsewhere(b, o.arcs, now) /\ o.stack.settings = e.settings
        /\ Cardinality(o.stack.hypos) <= s.settings.maxSize \/ OnlyDiverse(o.stack)
        /\ \A x \in o.freed : Recombined(x, now) \/ Superfluous(x, o.stack)
    <3>1. o \in PruneToSize(e, b, e.settings.maxSize)
      BY <1>6, <1>7
    <3>2. /\ Consistent(o.stack, o.arcs, gone \cup o.freed, now)
          /\ Elsewhere(b, o.arcs, now) /\ o.stack.settings = e.settings
          /\ Cardinality(o.stack.hypos) <= e.settings.maxSize \/ OnlyDiverse(o.stack)
          /\ \A x \in o.freed : Recombined(x, now) \/ Superfluous(x, o.stack)
      BY <1>4, <3>1, PruneConsistent
    <3> QED BY <1>7, <3>2
  <2>3. Leaves(s, arcs, gone, now, o)
    <3>1. Elsewhere(arcs, o.arcs, now)
      BY <1>7, <2>2 DEF Elsewhere
    <3> QED BY <1>7, <2>2, <3>1 DEF Leaves
  <2>4. NotTooLarge(o.stack)
    BY <1>7, <2>2 DEF NotTooLarge
  <2> QED BY <1>6, <2>3, <2>4, PruneOutcomeRecord DEF now
<1> QED BY <1>1, <1>5, <1>6, AddOutcomes DEF e

\* AddPrune: the stack after it, and why hypotheses were deleted.
LEMMA AddPruneConsistent ==
  ASSUME NEW s, NEW arcs, NEW freed, NEW all, Consistent(s, arcs, freed, all),
         NEW h, IsNew(h, all, arcs), h.total \in Int, h.total >= NegInf, h.cov \in Coverages,
         NEW o \in AddPrune(s, arcs, h)
  PROVE  /\ Leaves(s, arcs, freed, all \cup {h}, o)
         /\ NotTooLarge(o.stack) \/ o.stack = s
<1> DEFINE now == all \cup {h}
           equivalent == {g \in s.hypos : Equivalent(g, h)}
<1>1. /\ IsStack(s) /\ s.worst <= s.best /\ QuotaEarned(s) /\ WorstEarned(s) /\ BestHeld(s, all)
      /\ s.hypos \subseteq all /\ \A g \in all : g.total \in Int
      /\ Owned(s.hypos, arcs, freed, all) /\ Numbered(all, arcs)
      /\ Scored(now) /\ Losers(s.hypos, arcs)
      /\ ~s.settings.nBest => \A i \in DOMAIN arcs : arcs[i] = {}
  BY DEF Consistent, Owned, Scored
<1>2. h.total \in Int /\ h.cov \in Coverages /\ h \notin s.hypos /\ h.id \in DOMAIN arcs
  BY <1>1 DEF IsNew
<1>3. /\ s.settings.diversity \in Nat /\ IsFiniteSet(s.hypos) /\ s.best \in Int /\ s.worst \in Int
      /\ s.settings.nBest \in BOOLEAN
  BY <1>1, SettingsTypes DEF IsStack, Sortable
<1>4. Numbered(now, arcs) /\ Losers(s.hypos \cup {h}, arcs) /\ Elsewhere(arcs, arcs, now)
  BY <1>1, NewNumbered DEF Losers, Elsewhere
<1>5. ASSUME BestHeld(s, now), Recombined(h, now) \/ Superfluous(h, s), o = Outcome(s, arcs, {h})
      PROVE  Leaves(s, arcs, freed, now, o) /\ o.stack = s
  <2>1. o.stack = s /\ o.arcs = arcs /\ o.freed = {h}
    BY <1>5 DEF Outcome
  <2>2. Owned(s.hypos, arcs, freed \cup {h}, now)
    BY <1>1, NewOwned
  <2>3. Consistent(s, arcs, freed \cup {h}, now)
    BY <1>1, <1>4, <1>5, <2>2 DEF Consistent
  <2> QED BY <1>4, <1>5, <2>1, <2>3 DEF Leaves
<1>6. CASE TooBad(s, h) /\ o = Outcome(s, arcs, {h})
  <2>1. BestHeld(s, now)
    <3>1. h.total < s.best
      BY <1>2, <1>3, <1>1, <1>6 DEF TooBad
    <3>2. s.best # NegInf
      BY <1>2, <1>3, <3>1, NegInfAssumption
    <3> QED BY <1>1, <1>2, <1>3, <3>1, <3>2 DEF BestHeld
  <2>2. QuotaKept(h, s)
    <3> DEFINE Y == AsGood(s.hypos, h.cov, h.total)
               X == AsGood(s.hypos, h.cov, s.covWorst[h.cov])
    <3>1. /\ IsFiniteSet(X) /\ Cardinality(X) \in Nat
          /\ IsFiniteSet(Y) /\ Cardinality(Y) \in Nat
      <4>1. s.hypos \in SUBSET s.hypos
        OBVIOUS
      <4> QED BY <1>3, <4>1, AsGoodCounts
    <3>2. CASE s.settings.diversity = 0
      BY <3>1, <3>2 DEF QuotaKept
    <3>3. CASE s.settings.diversity > 0
      <4>1. s.covWorst[h.cov] \in Int
        BY <1>1, <1>2 DEF IsStack
      <4>2. h.total < s.covWorst[h.cov]
        BY <1>2, <1>6, <3>3, <4>1 DEF TooBad
      <4>3. Cardinality(X) >= s.settings.diversity
        BY <1>1, <1>2, <4>1, <4>2, NegInfAssumption DEF QuotaEarned
      <4>4. X \in SUBSET Y
        BY <1>1, <1>2, <4>1, <4>2 DEF AsGood
      <4>5. Cardinality(X) <= Cardinality(Y)
        BY <3>1, <4>4, FS_Subset
      <4> HIDE DEF X, Y
      <4>6. Cardinality(Y) >= s.settings.diversity
        BY <1>3, <3>1, <4>3, <4>5
      <4> QED BY <4>6 DEF Y, QuotaKept
    <3> QED BY <1>3, <3>2, <3>3
  <2>3. NoPlaceFor(h.total, s)
    <3>1. h.total < s.worst
      BY <1>6 DEF TooBad
    <3>2. CASE s.worst <= s.best + s.settings.beam
      <4>1. s.settings.beam \in Int
        BY <1>1, SettingsTypes DEF IsStack
      <4> QED BY <1>2, <1>3, <3>1, <3>2, <4>1 DEF NoPlaceFor
    <3>3. CASE \E K \in SUBSET s.hypos : Fills(K, s, s.worst)
      <4>1. h.total <= s.worst
        BY <1>2, <1>3, <3>1
      <4> QED BY <1>1, <1>2, <1>3, <3>3, <4>1, FilledHasNoPlace
    <3> QED BY <1>1, <1>2, <1>3, <3>1, <3>2, <3>3, NegInfAssumption DEF WorstEarned
  <2> QED BY <1>5, <1>6, <2>1, <2>2, <2>3 DEF Superfluous
<1>7. CASE equivalent = {} /\ o \in Add(s, arcs, h)
  <2> DEFINE out == {}
  <2>1. s = [s EXCEPT !.hypos = @ \ out] /\ (s.hypos \ out) \cup {h} = s.hypos \cup {h}
    BY <1>1 DEF IsStack
  <2>2. Owned((s.hypos \ out) \cup {h}, arcs, freed, now)
    BY <1>1, <1>7, <2>1, NewOwned
  <2>3. o \in Add([s EXCEPT !.hypos = @ \ out], arcs, h)
    BY <1>7, <2>1
  <2>4. Replaces(h, out, arcs, freed, s, arcs, freed, all)
    BY <1>1, <1>4, <2>2 DEF Replaces
  <2> HIDE DEF out
  <2>5. Adds(s, arcs, freed, now, o)
    BY <2>3, <2>4, AddConsistent
  <2> QED BY <2>5 DEF Adds
<1>8. ASSUME NEW g \in equivalent, o \in Recombine(s, arcs, h, g)
      PROVE  Leaves(s, arcs, freed, now, o) /\ (NotTooLarge(o.stack) \/ o.stack = s)
  <2>1. g \in s.hypos /\ Equivalent(g, h) /\ g.total \in Int /\ g.total <= s.best
    BY <1>1, <1>8 DEF IsStack
  <2> DEFINE out == {g}
             S == (s.hypos \ {g}) \cup {h}
  <2>2. out \in SUBSET s.hypos /\ \E x \in s.hypos : out = {x}
    BY <2>1
  <2>3. ASSUME ~Beats(h, g) PROVE BestHeld(s, now) /\ Recombined(h, now)
    <3>1. h.total <= g.total
      BY <1>2, <2>1, <2>3 DEF Beats
    <3>2. h.total <= s.best
      BY <1>2, <1>3, <2>1, <3>1
    <3>3. BestHeld(s, now)
      BY <1>1, <2>1, <3>2 DEF BestHeld
    <3> QED BY <1>1, <1>2, <2>1, <3>1, <3>3 DEF Recombined
  <2>4. CASE Beats(h, g) /\ s.settings.nBest
    <3> DEFINE b == AddArc(arcs, h, g)
    <3>1. Owned(S, b, freed, now) /\ Numbered(now, b) /\ Elsewhere(arcs, b, now)
      BY <1>1, <2>1, <2>4, WinnerOwned
    <3>7. Losers(S, b)
      BY <1>1, <2>1, <2>4, LosersStay
    <3>2. o \in Add([s EXCEPT !.hypos = @ \ out], b, h)
      BY <1>8, <2>4 DEF Recombine
    <3>3. \A x \in out : Equivalent(x, h) /\ Beats(h, x)
      BY <2>1, <2>4
    <3>4. Owned((s.hypos \ out) \cup {h}, b, freed, now) /\ Losers((s.hypos \ out) \cup {h}, b)
      BY <3>1, <3>7
    <3> HIDE DEF out, b
    <3>5. Replaces(h, out, b, freed, s, arcs, freed, all)
      BY <1>1, <2>2, <2>4, <3>1, <3>3, <3>4 DEF Replaces
    <3>6. Adds(s, arcs, freed, now, o)
      BY <3>2, <3>5, AddConsistent
    <3> QED BY <3>6 DEF Adds
  <2>5. CASE Beats(h, g) /\ ~s.settings.nBest
    <3> DEFINE gone == freed \cup {g}
    <3>1. PICK p \in Add([s EXCEPT !.hypos = @ \ out], arcs, h) :
                 o = [p EXCEPT !.freed = @ \cup {g}]
      BY <1>8, <2>5 DEF Recombine
    <3>2. arcs[g.id] = {}
      BY <1>1, <2>1, <2>5 DEF Numbered
    <3>3. Owned((s.hypos \ out) \cup {h}, arcs, gone, now) /\ Losers((s.hypos \ out) \cup {h}, arcs)
      BY <1>1, <1>4, <2>1, <3>2, SoleWinnerOwned DEF Losers
    <3>4. \A x \in out : Equivalent(x, h) /\ Beats(h, x)
      BY <2>1, <2>5
    <3> HIDE DEF out, gone
    <3>5. /\ Leaves(s, arcs, gone, now, p) /\ NotTooLarge(p.stack)
          /\ p = Outcome(p.stack, p.arcs, p.freed)
      <4>1. Replaces(h, out, arcs, gone, s, arcs, freed, all)
        BY <1>1, <1>4, <2>2, <2>5, <3>3, <3>4 DEF Replaces
      <4>2. p \in Add([s EXCEPT !.hypos = @ \ out], arcs, h)
        BY <3>1
      <4>3. Adds(s, arcs, gone, now, p)
        BY <4>1, <4>2, AddConsistent
      <4> QED BY <4>3 DEF Adds
    <3>6. o.stack = p.stack /\ o.arcs = p.arcs /\ o.freed = p.freed \cup {g}
      BY <3>1, <3>5 DEF Outcome
    <3>7. gone \cup p.freed = freed \cup o.freed
      BY <3>6 DEF gone
    <3>8. Recombined(g, now)
      BY <1>2, <2>1, <2>5 DEF Recombined, Equivalent, Beats
    <3>9. Leaves(s, arcs, freed, now, o)
      BY <3>5, <3>6, <3>7, <3>8 DEF Leaves
    <3> QED BY <3>5, <3>6, <3>9
  <2>6. CASE ~Beats(h, g) /\ s.settings.nBest
    <3> DEFINE b == AddArc(arcs, g, h)
    <3>1. Owned(s.hypos, b, freed, now) /\ Numbered(now, b) /\ Elsewhere(arcs, b, now)
      BY <1>1, <2>1, <2>6, LoserOwned
    <3>6. Losers(s.hypos, b)
      BY <1>1, <2>1, <2>6, LosersStay
    <3>2. o = Outcome(s, b, {})
      BY <1>8, <2>6 DEF Recombine
    <3>3. o.stack = s /\ o.arcs = b /\ o.freed = {}
      BY <3>2 DEF Outcome
    <3>4. Consistent(s, b, freed, now)
      BY <1>1, <2>3, <2>6, <3>1, <3>6 DEF Consistent
    <3>5. freed \cup o.freed = freed
      BY <3>3
    <3> QED BY <3>1, <3>3, <3>4, <3>5 DEF Leaves
  <2>7. CASE ~Beats(h, g) /\ ~s.settings.nBest
    <3>1. o = Outcome(s, arcs, {h})
      BY <1>8, <2>7 DEF Recombine
    <3> QED BY <1>5, <2>3, <2>7, <3>1
  <2> QED BY <2>4, <2>5, <2>6, <2>7
<1>9. \/ TooBad(s, h) /\ o = Outcome(s, arcs, {h})
      \/ equivalent = {} /\ o \in Add(s, arcs, h)
      \/ \E g \in equivalent : o \in Recombine(s, arcs, h, g)
  BY DEF AddPrune
<1> HIDE DEF equivalent
<1>10. Leaves(s, arcs, freed, now, o) /\ (NotTooLarge(o.stack) \/ o.stack = s)
  BY <1>5, <1>6, <1>7, <1>8, <1>9
<1> QED BY <1>10 DEF now

\* CleanupArcList deletes arcs, and these were recombined.
LEMMA CleanupConsistent ==
  ASSUME NEW s, NEW arcs, NEW freed, NEW all, Consistent(s, arcs, freed, all),
         NEW o \in CleanupArcList(s, arcs)
  PROVE  /\ Leaves(s, arcs, freed, all, o) /\ o.stack = s
         /\ o = Outcome(o.stack, o.arcs, o.freed)
<1>1. /\ Owned(s.hypos, o.arcs, freed \cup o.freed, all) /\ Numbered(all, o.arcs)
      /\ o.stack = s /\ Elsewhere(arcs, o.arcs, all)
      /\ \A i \in DOMAIN arcs : o.arcs[i] \subseteq arcs[i]
      /\ \A x \in o.freed : \E h \in s.hypos : x \in arcs[h.id]
      /\ o = Outcome(o.stack, o.arcs, o.freed)
  <2>1. Owned(s.hypos, arcs, freed, all) /\ Numbered(all, arcs)
    BY DEF Consistent
  <2>2. Trims(s, arcs, freed, all, o)
    BY <2>1, CleanedOwned
  <2> QED BY <2>2 DEF Trims
<1>2. \A x \in o.freed : Recombined(x, all)
  BY <1>1, ArcsRecombined DEF Consistent
<1>3. ~s.settings.nBest => \A i \in DOMAIN o.arcs : o.arcs[i] = {}
  BY <1>1 DEF Consistent, Elsewhere
<1>5. Losers(s.hypos, o.arcs)
  <2>1. \A h \in s.hypos : h.id \in DOMAIN arcs
    BY DEF Consistent, Owned, Numbered
  <2> QED BY <1>1, <2>1 DEF Losers, Consistent
<1>4. Consistent(s, o.arcs, freed \cup o.freed, all)
  BY <1>1, <1>3, <1>5 DEF Consistent
<1> QED BY <1>1, <1>2, <1>4 DEF Leaves

-----------------------------------------------------------------------------
(* The life of a stack *)

\* A stack begins empty.
LEMMA EmptyConsistent ==
  ASSUME NEW option \in Settings,
         NEW arcs, arcs = [i \in DOMAIN arcs |-> arcs[i]], \A i \in DOMAIN arcs : arcs[i] = {}
  PROVE  Consistent(EmptyStack(option), arcs, {}, {})
<1> DEFINE s == EmptyStack(option)
<1>1. /\ s.hypos = {} /\ s.best = NegInf /\ s.worst = NegInf
      /\ s.covWorst = [c \in Coverages |-> NegInf] /\ s.settings = option
      /\ s = [hypos |-> s.hypos, best |-> s.best, worst |-> s.worst,
              covWorst |-> s.covWorst, settings |-> s.settings]
  BY DEF EmptyStack
<1> HIDE DEF s
<1>2. IsFiniteSet({})
  BY FS_EmptySet
<1>3. IsStack(s) /\ s.worst <= s.best
  BY <1>1, <1>2, NegInfAssumption DEF IsStack, Sortable
<1>4. Owned(s.hypos, arcs, {}, {}) /\ Numbered({}, arcs)
  BY <1>1 DEF Owned, Numbered, ArcsOf
<1>5. BestHeld(s, {}) /\ QuotaEarned(s) /\ WorstEarned(s)
  BY <1>1 DEF BestHeld, QuotaEarned, WorstEarned
<1>6. Consistent(s, arcs, {}, {})
  BY <1>1, <1>3, <1>4, <1>5 DEF Consistent, Scored, Losers
<1> QED BY <1>6 DEF s

\* When its turn comes, PruneToSize and CleanupArcList, one after the other.
LEMMA TurnConsistent ==
  ASSUME NEW s, NEW arcs, NEW freed, NEW all, Consistent(s, arcs, freed, all),
         NEW p \in PruneToSize(s, arcs, s.settings.maxSize),
         NEW q \in CleanupArcList(p.stack, p.arcs)
  PROVE  LET o == [q EXCEPT !.freed = @ \cup p.freed]
         IN  /\ Leaves(s, arcs, freed, all, o)
             /\ Cardinality(o.stack.hypos) <= s.settings.maxSize \/ OnlyDiverse(o.stack)
<1> DEFINE o == [q EXCEPT !.freed = @ \cup p.freed]
<1>1. /\ Consistent(p.stack, p.arcs, freed \cup p.freed, all)
      /\ Elsewhere(arcs, p.arcs, all) /\ p.stack.settings = s.settings
      /\ Cardinality(p.stack.hypos) <= s.settings.maxSize \/ OnlyDiverse(p.stack)
      /\ \A x \in p.freed : Recombined(x, all) \/ Superfluous(x, p.stack)
  BY PruneConsistent
<1>2. /\ Leaves(p.stack, p.arcs, freed \cup p.freed, all, q) /\ q.stack = p.stack
      /\ q = Outcome(q.stack, q.arcs, q.freed)
  BY <1>1, CleanupConsistent
<1>3. o.stack = p.stack /\ o.arcs = q.arcs /\ o.freed = p.freed \cup q.freed
  BY <1>2 DEF Outcome
<1> HIDE DEF o
<1>4. Consistent(o.stack, o.arcs, freed \cup o.freed, all)
  <2>1. freed \cup o.freed = (freed \cup p.freed) \cup q.freed
    BY <1>3
  <2> QED BY <1>2, <1>3, <2>1 DEF Leaves
<1>5. Elsewhere(arcs, o.arcs, all)
  BY <1>1, <1>2, <1>3 DEF Leaves, Elsewhere
<1>6. \A x \in o.freed : Recombined(x, all) \/ Superfluous(x, o.stack)
  BY <1>1, <1>2, <1>3 DEF Leaves
<1>7. Leaves(s, arcs, freed, all, o)
  BY <1>1, <1>3, <1>4, <1>5, <1>6 DEF Leaves
<1> QED BY <1>1, <1>3, <1>7 DEF o

\* What changes elsewhere does not concern a stack.
LEMMA OthersConsistent ==
  ASSUME NEW s, NEW arcs, NEW freed, NEW all, Consistent(s, arcs, freed, all),
         NEW b, NEW others, Elsewhere(arcs, b, others), b = [i \in DOMAIN b |-> b[i]],
         \A g \in all, h \in others : g.id # h.id,
         ~s.settings.nBest => \A i \in DOMAIN b : b[i] = {}
  PROVE  Consistent(s, b, freed, all)
<1>0. Owned(s.hypos, arcs, freed, all) /\ Numbered(all, arcs) /\ Losers(s.hypos, arcs)
  BY DEF Consistent
<1>1. \A h \in all : b[h.id] = arcs[h.id]
  BY <1>0 DEF Numbered, Elsewhere
<1>2. Numbered(all, b)
  BY <1>0 DEF Numbered, Elsewhere
<1>3. s.hypos \subseteq all
  BY <1>0 DEF Owned
<1>4. \A h \in s.hypos : b[h.id] = arcs[h.id]
  BY <1>1, <1>3
<1>5. ArcsOf(s.hypos, b) = ArcsOf(s.hypos, arcs)
  BY <1>4 DEF ArcsOf
<1>6. Owned(s.hypos, b, freed, all)
  BY <1>0, <1>1, <1>3, <1>5 DEF Owned
<1>7. Losers(s.hypos, b)
  BY <1>0, <1>4 DEF Losers
<1> QED BY <1>2, <1>6, <1>7 DEF Consistent
=============================================================================
