----------------------- MODULE SearchCubePruningProofs -----------------------
(***************************************************************************)
(* The cube pruning search of one sentence, for every length, every set of *)
(* translation options, every pop limit, stack size and beam: each         *)
(* hypothesis has one owner, what the edges and the predecessors point to  *)
(* is never deleted, and a translation is found.                           *)
(***************************************************************************)
EXTENDS SearchCubePruning, HypothesisStackProofs, HypothesisScoringProofs

-----------------------------------------------------------------------------
(* The stack of cube pruning *)

\* What its operations keep: the hypotheses it was given, all, are on it, on its
\* arc lists or deleted, and the best of them is on it.
CubeConsistent(s, arcLists, gone, all) ==
  /\ IsStack(s) /\ s.worst <= s.best
  /\ Numbered(all, arcLists) /\ Owned(s.hypos, arcLists, gone, all)
  /\ Scored(all) /\ BestHeld(s, all)
  /\ ~s.settings.nBest => \A i \in DOMAIN arcLists : arcLists[i] = {}

\* An operation on the stack s has made o of it.
CubeLeaves(s, arcLists, gone, all, o) ==
  /\ CubeConsistent(o.stack, o.arcs, gone \cup o.freed, all)
  /\ Elsewhere(arcLists, o.arcs, all) /\ o.stack.settings = s.settings

\* The hypotheses that are taken from the stack s, whose new form is t, are deleted.
LEMMA CubeFreeing ==
  ASSUME NEW s, NEW lists, NEW gone, NEW all, CubeConsistent(s, lists, gone, all),
         NEW t, IsStack(t), t.worst <= t.best, t.hypos \subseteq s.hypos,
         t.settings = s.settings, t.best = s.best,
         \A w \in s.hypos : w.total = s.best => w \in t.hypos
  PROVE  CubeLeaves(s, lists, gone, all, Freeing(t, lists, s.hypos))
<1> DEFINE o == Freeing(t, lists, s.hypos)
<1>1. /\ Owned(t.hypos, o.arcs, gone \cup o.freed, all) /\ Numbered(all, o.arcs)
      /\ o.stack = t /\ Elsewhere(lists, o.arcs, all)
      /\ \A i \in DOMAIN lists : o.arcs[i] \subseteq lists[i]
  <2>1. Owned(s.hypos, lists, gone, all) /\ Numbered(all, lists)
    BY DEF CubeConsistent
  <2>2. Deletes(s.hypos, lists, gone, all, t, o)
    BY <2>1, FreeingOwned
  <2> QED BY <2>2 DEF Deletes
<1> HIDE DEF o
<1>2. BestHeld(t, all)
  BY DEF BestHeld, CubeConsistent
<1>3. ~t.settings.nBest => \A i \in DOMAIN o.arcs : o.arcs[i] = {}
  BY <1>1 DEF CubeConsistent, Elsewhere
<1>4. CubeConsistent(o.stack, o.arcs, gone \cup o.freed, all)
  BY <1>1, <1>2, <1>3 DEF CubeConsistent
<1>5. CubeLeaves(s, lists, gone, all, o)
  BY <1>1, <1>4 DEF CubeLeaves
<1> QED BY <1>5 DEF o

\* PruneToSize leaves a hypothesis with the best score: its threshold is the score
\* of one that is within the beam.
LEMMA CubePruneConsistent ==
  ASSUME NEW s, NEW lists, NEW gone, NEW all, CubeConsistent(s, lists, gone, all),
         NEW n \in Nat \ {0}, NEW o \in PruneCubeToSize(s, lists, n)
  PROVE  /\ CubeLeaves(s, lists, gone, all, o)
         /\ o = Outcome(o.stack, o.arcs, o.freed)
<1> DEFINE B == {h \in s.hypos : h.total > s.best + s.settings.beam}
<1>1. /\ IsStack(s) /\ s.worst <= s.best /\ BestHeld(s, all)
      /\ s.best \in Int /\ s.settings.beam \in Int /\ s.settings.beam < 0 /\ Sortable(s.hypos)
      /\ \A h \in s.hypos : h.total <= s.best
  BY SettingsTypes DEF CubeConsistent, IsStack
<1>2. CASE Cardinality(s.hypos) <= n /\ o = Outcome(s, lists, {})
  <2>1. o.stack = s /\ o.arcs = lists /\ o.freed = {} /\ gone \cup o.freed = gone
    BY <1>2 DEF Outcome
  <2>2. Elsewhere(lists, o.arcs, all)
    BY <2>1 DEF Elsewhere
  <2> QED BY <1>2, <2>1, <2>2 DEF CubeLeaves
<1>3. ASSUME ~(Cardinality(s.hypos) <= n), NEW threshold \in Thresholds(s, n),
             o = Freeing([s EXCEPT !.hypos = {h \in @ : h.total >= threshold}, !.worst = threshold],
                         lists, s.hypos)
      PROVE  CubeLeaves(s, lists, gone, all, o) /\ o = Outcome(o.stack, o.arcs, o.freed)
  <2>1. PICK T \in TopSets(B, n) : threshold = LeastScore(T)
    BY <1>3 DEF Thresholds
  <2>2. PICK w \in s.hypos : w.total = s.best
    <3>1. s.hypos # {}
      <4>1. Cardinality({}) = 0
        BY FS_EmptySet
      <4> QED BY <1>3, <4>1
    <3>2. all # {}
      BY <3>1 DEF CubeConsistent, Owned
    <3> QED BY <1>1, <3>2 DEF BestHeld
  <2>3. w \in B
    BY <1>1, <2>2
  <2>4. Sortable(B)
    <3>1. B \in SUBSET s.hypos
      OBVIOUS
    <3>2. IsFiniteSet(B)
      BY <1>1, <3>1, FS_Subset DEF Sortable
    <3> QED BY <1>1, <3>2 DEF Sortable
  <2>5. /\ (T \subseteq B /\ Cardinality(T) = n) \/ T = B
        /\ T \subseteq B
    BY <2>1, <2>4, TopSetsKeepBest
  <2> HIDE DEF B
  <2>6. T # {} /\ Sortable(T)
    <3>1. Cardinality({}) = 0
      BY FS_EmptySet
    <3>2. T \in SUBSET B
      BY <2>5
    <3>3. IsFiniteSet(T)
      BY <2>4, <3>2, FS_Subset DEF Sortable
    <3> QED BY <2>3, <2>4, <2>5, <3>1, <3>3 DEF Sortable
  <2>7. threshold \in Int /\ threshold <= s.best
    <3>1. LeastScore(T) \in Int /\ \E h \in T : h.total = LeastScore(T)
      BY <2>6, LeastScoreIsWorst
    <3>2. T \subseteq s.hypos
      BY <2>5 DEF B
    <3> QED BY <1>1, <2>1, <3>1, <3>2
  <2> DEFINE U == {h \in s.hypos : h.total >= threshold}
             t == [s EXCEPT !.hypos = U, !.worst = threshold]
  <2>8. /\ t.hypos = U /\ t.worst = threshold /\ t.best = s.best /\ t.settings = s.settings
        /\ t.covWorst = s.covWorst
        /\ t = [hypos |-> t.hypos, best |-> t.best, worst |-> t.worst,
                covWorst |-> t.covWorst, settings |-> t.settings]
    <3>1. s = [hypos |-> s.hypos, best |-> s.best, worst |-> s.worst,
               covWorst |-> s.covWorst, settings |-> s.settings]
      BY DEF CubeConsistent, IsStack
    <3>2. t = [s EXCEPT !.hypos = U, !.worst = threshold]
      OBVIOUS
    <3> HIDE DEF t, U
    <3>3. t = [hypos |-> U, best |-> s.best, worst |-> threshold,
               covWorst |-> s.covWorst, settings |-> s.settings]
      BY <3>1, <3>2
    <3> QED BY <3>3
  <2>9. U \in SUBSET s.hypos /\ IsFiniteSet(U)
    <3>1. U \in SUBSET s.hypos
      OBVIOUS
    <3> QED BY <1>1, <3>1, FS_Subset DEF Sortable
  <2>10. \A g \in s.hypos : g.total = s.best => g \in U
    BY <2>7
  <2>11. o = Freeing(t, lists, s.hypos)
    <3> DEFINE K == {h \in s.hypos : h.total >= threshold}
    <3>1. o = Freeing([s EXCEPT !.hypos = K, !.worst = threshold], lists, s.hypos)
      BY <1>3
    <3>2. K = U
      OBVIOUS
    <3> QED BY <3>1, <3>2
  <2> HIDE DEF t, U
  <2>12. IsStack(t) /\ t.worst <= t.best
    <3>1. Sortable(U)
      BY <1>1, <2>9 DEF Sortable
    <3> QED BY <1>1, <2>7, <2>8, <2>9, <3>1 DEF IsStack
  <2>13. CubeLeaves(s, lists, gone, all, o)
    BY <2>8, <2>9, <2>10, <2>11, <2>12, CubeFreeing
  <2>14. o = Outcome(o.stack, o.arcs, o.freed)
    BY <2>11 DEF Freeing, Outcome
  <2> QED BY <2>13, <2>14
<1> QED BY <1>2, <1>3 DEF PruneCubeToSize

\* Add's stack before any pruning: h is on it instead of those it has beaten.
CubeTakes(e, s, out, h, all) ==
  /\ IsStack(e) /\ e.worst <= e.best /\ BestHeld(e, all \cup {h})
  /\ e.settings = s.settings /\ e.hypos = (s.hypos \ out) \cup {h}

LEMMA CubeInserted ==
  ASSUME NEW s, IsStack(s), s.worst <= s.best,
         NEW all, BestHeld(s, all), s.hypos \subseteq all, \A g \in all : g.total \in Int,
         NEW h, h.total \in Int, h.cov \in Coverages, h.total >= NegInf,
         NEW out \in SUBSET s.hypos, \A g \in out : Beats(h, g)
  PROVE  CubeTakes(Inserted([s EXCEPT !.hypos = @ \ out], h), s, out, h, all)
<1> DEFINE u == [s EXCEPT !.hypos = @ \ out]
           e == Inserted(u, h)
           T == (s.hypos \ out) \cup {h}
<1>1. /\ s.settings.beam \in Int /\ s.settings.beam < 0 /\ s.settings \in Settings
      /\ Sortable(s.hypos) /\ s.best \in Int /\ s.worst \in Int
      /\ s.covWorst \in [Coverages -> Int]
      /\ \A g \in s.hypos : g.cov \in Coverages /\ g.total <= s.best
  BY SettingsTypes DEF IsStack
<1>2. /\ u.hypos = s.hypos \ out /\ u.best = s.best /\ u.worst = s.worst
      /\ u.covWorst = s.covWorst /\ u.settings = s.settings
      /\ u = [hypos |-> u.hypos, best |-> u.best, worst |-> u.worst,
              covWorst |-> u.covWorst, settings |-> u.settings]
  <2>1. s = [hypos |-> s.hypos, best |-> s.best, worst |-> s.worst,
             covWorst |-> s.covWorst, settings |-> s.settings]
    BY DEF IsStack
  <2> DEFINE W == s.hypos \ out
  <2>2. u = [s EXCEPT !.hypos = W]
    OBVIOUS
  <2> HIDE DEF u, W
  <2>3. u = [hypos |-> W, best |-> s.best, worst |-> s.worst,
             covWorst |-> s.covWorst, settings |-> s.settings]
    BY <2>1, <2>2
  <2> QED BY <2>3 DEF W
<1> HIDE DEF u
<1>3. /\ e.hypos = T /\ e.settings = s.settings /\ e.covWorst = s.covWorst
      /\ e.best = (IF h.total > s.best THEN h.total ELSE s.best)
      /\ e.worst = (IF h.total > s.best THEN RaisedWorst(u, h.total) ELSE s.worst)
      /\ e = [hypos |-> e.hypos, best |-> e.best, worst |-> e.worst,
              covWorst |-> e.covWorst, settings |-> e.settings]
  <2> DEFINE H == u.hypos \cup {h}
             b == IF h.total > u.best THEN h.total ELSE u.best
             w == IF h.total > u.best THEN RaisedWorst(u, h.total) ELSE u.worst
  <2>1. e = [u EXCEPT !.hypos = H, !.best = b, !.worst = w]
    BY DEF Inserted
  <2> HIDE DEF e, H, b, w
  <2>2. e = [hypos |-> H, best |-> b, worst |-> w, covWorst |-> u.covWorst, settings |-> u.settings]
    BY <1>2, <2>1
  <2>3. H = T
    BY <1>2 DEF H
  <2> HIDE DEF T
  <2> QED BY <1>2, <2>2, <2>3 DEF b, w
<1> HIDE DEF e
<1>4. RaisedWorst(u, h.total) \in Int /\ (h.total > s.best => RaisedWorst(u, h.total) <= h.total)
  BY <1>1, <1>2 DEF RaisedWorst
<1>5. e.best \in Int /\ e.worst \in Int /\ e.worst <= e.best
  BY <1>1, <1>3, <1>4
<1>6. Sortable(T) /\ \A g \in T : g.cov \in Coverages /\ g.total <= e.best
  <2>1. s.hypos \ out \in SUBSET s.hypos
    OBVIOUS
  <2>2. IsFiniteSet(s.hypos \ out)
    BY <1>1, <2>1, FS_Subset DEF Sortable
  <2>3. IsFiniteSet(T)
    BY <2>2, FS_AddElement
  <2> QED BY <1>1, <1>3, <2>3 DEF Sortable
<1>7. BestHeld(e, all \cup {h})
  <2>1. \A g \in all \cup {h} : g.total <= e.best
    BY <1>1, <1>3 DEF BestHeld
  <2>2. \E w \in T : w.total = e.best
    <3>1. CASE h.total >= s.best
      BY <1>1, <1>3, <3>1
    <3>2. CASE ~(h.total >= s.best) /\ \E w \in s.hypos : w.total = s.best
      <4>1. PICK w \in s.hypos : w.total = s.best
        BY <3>2
      <4>2. w \notin out
        BY <1>1, <3>2, <4>1 DEF Beats
      <4> QED BY <1>1, <1>3, <3>2, <4>1, <4>2
    <3>3. CASE s.best = NegInf
      BY <1>1, <1>3, <3>3, <3>1
    <3> QED BY <3>1, <3>2, <3>3 DEF BestHeld
  <2> QED BY <1>3, <2>1, <2>2 DEF BestHeld
<1>8. IsStack(e)
  BY <1>1, <1>3, <1>5, <1>6 DEF IsStack
<1>9. CubeTakes(e, s, out, h, all)
  BY <1>3, <1>5, <1>7, <1>8 DEF CubeTakes
<1> QED BY <1>9 DEF e, u

\* The new hypothesis h takes the place of at most one that it has beaten, whose
\* fate is settled in the arc lists b and the deleted hypotheses gone.
CubeReplaces(h, out, b, gone, s, lists, freedNow, all) ==
  /\ CubeConsistent(s, lists, freedNow, all) /\ h.total >= NegInf
  /\ out \in SUBSET s.hypos /\ \A g \in out : Beats(h, g)
  /\ Owned((s.hypos \ out) \cup {h}, b, gone, all \cup {h})
  /\ Scored(all \cup {h}) /\ Numbered(all \cup {h}, b) /\ Elsewhere(lists, b, all \cup {h})
  /\ ~s.settings.nBest => \A i \in DOMAIN b : b[i] = {}

\* Add puts h on the stack, and the stack is pruned when it has grown too large.
LEMMA AddCubeConsistent ==
  ASSUME NEW s, NEW lists, NEW freedNow, NEW all, NEW h, NEW out, NEW b, NEW gone,
         CubeReplaces(h, out, b, gone, s, lists, freedNow, all),
         NEW o \in AddCube([s EXCEPT !.hypos = @ \ out], b, h)
  PROVE  /\ CubeLeaves(s, lists, gone, all \cup {h}, o)
         /\ o = Outcome(o.stack, o.arcs, o.freed)
<1> DEFINE u == [s EXCEPT !.hypos = @ \ out]
           e == Inserted(u, h)
           now == all \cup {h}
<1>1. /\ IsStack(s) /\ s.worst <= s.best /\ BestHeld(s, all)
      /\ s.hypos \subseteq all /\ \A g \in all : g.total \in Int
  BY DEF CubeReplaces, CubeConsistent, Owned, Scored
<1>2. /\ h.total \in Int /\ h.cov \in Coverages /\ h.total >= NegInf
      /\ out \in SUBSET s.hypos /\ \A g \in out : Beats(h, g)
  BY DEF CubeReplaces, Scored
<1>3. CubeTakes(e, s, out, h, all)
  BY <1>1, <1>2, CubeInserted
<1>4. u.settings = s.settings
  BY <1>1 DEF IsStack
<1>5. \/ o = Outcome(e, b, {})
      \/ o \in PruneCubeToSize(e, b, s.settings.maxSize)
  <2>1. o \in AddCube(u, b, h)
    OBVIOUS
  <2> HIDE DEF u
  <2> QED BY <1>4, <2>1 DEF AddCube
<1> HIDE DEF e
<1>6. CubeConsistent(e, b, gone, now)
  BY <1>3 DEF CubeConsistent, CubeReplaces, CubeTakes
<1>7. e.settings = s.settings /\ Elsewhere(lists, b, now)
  BY <1>3 DEF CubeTakes, CubeReplaces
<1> HIDE DEF now
<1>8. CASE o = Outcome(e, b, {})
  <2>1. o.stack = e /\ o.arcs = b /\ o.freed = {} /\ gone \cup o.freed = gone
    BY <1>8 DEF Outcome
  <2> QED BY <1>6, <1>7, <1>8, <2>1 DEF CubeLeaves, now
<1>9. CASE o \in PruneCubeToSize(e, b, s.settings.maxSize)
  <2>1. s.settings.maxSize \in Nat \ {0}
    BY <1>1, SettingsTypes DEF IsStack
  <2>2. CubeLeaves(e, b, gone, now, o) /\ o = Outcome(o.stack, o.arcs, o.freed)
    BY <1>6, <1>9, <2>1, CubePruneConsistent
  <2>3. Elsewhere(lists, o.arcs, now)
    BY <1>7, <2>2 DEF CubeLeaves, Elsewhere
  <2> QED BY <1>7, <2>2, <2>3 DEF CubeLeaves, now
<1> QED BY <1>5, <1>8, <1>9

\* AddPrune.
LEMMA AddPruneCubeConsistent ==
  ASSUME NEW s, NEW lists, NEW gone, NEW all, CubeConsistent(s, lists, gone, all),
         NEW h, IsNew(h, all, lists), h.total \in Int, h.total >= NegInf, h.cov \in Coverages,
         NEW o \in AddPruneCube(s, lists, h)
  PROVE  CubeLeaves(s, lists, gone, all \cup {h}, o)
<1> DEFINE now == all \cup {h}
           equivalent == {g \in s.hypos : Equivalent(g, h)}
<1>1. /\ IsStack(s) /\ s.worst <= s.best /\ BestHeld(s, all)
      /\ s.hypos \subseteq all /\ \A g \in all : g.total \in Int
      /\ Owned(s.hypos, lists, gone, all) /\ Numbered(all, lists) /\ Scored(now)
      /\ ~s.settings.nBest => \A i \in DOMAIN lists : lists[i] = {}
  BY DEF CubeConsistent, Owned, Scored
<1>2. /\ s.best \in Int /\ s.worst \in Int /\ s.settings.nBest \in BOOLEAN
  BY <1>1, SettingsTypes DEF IsStack
<1>3. Numbered(now, lists) /\ Elsewhere(lists, lists, now)
  BY <1>1, NewNumbered DEF Elsewhere
<1>4. ASSUME BestHeld(s, now), NEW p, p = Outcome(s, lists, {h})
      PROVE  CubeLeaves(s, lists, gone, now, p)
  <2>1. p.stack = s /\ p.arcs = lists /\ p.freed = {h}
    BY <1>4 DEF Outcome
  <2>2. Owned(s.hypos, lists, gone \cup {h}, now)
    BY <1>1, NewOwned
  <2>3. CubeConsistent(s, lists, gone \cup {h}, now)
    BY <1>1, <1>3, <1>4, <2>2 DEF CubeConsistent
  <2> QED BY <1>3, <2>1, <2>3 DEF CubeLeaves
<1>5. ASSUME TooBadForCube(s, h) PROVE BestHeld(s, now)
  <2>1. h.total < s.best /\ s.best # NegInf
    BY <1>1, <1>2, <1>5, NegInfAssumption DEF TooBadForCube
  <2> QED BY <1>1, <2>1 DEF BestHeld
<1>6. ASSUME equivalent = {}, NEW p \in AddCube(s, lists, h)
      PROVE  CubeLeaves(s, lists, gone, now, p)
  <2> DEFINE out == {}
  <2>1. s = [s EXCEPT !.hypos = @ \ out] /\ (s.hypos \ out) \cup {h} = s.hypos \cup {h}
    BY <1>1 DEF IsStack
  <2>2. Owned((s.hypos \ out) \cup {h}, lists, gone, now)
    BY <1>1, <1>6, <2>1, NewOwned
  <2>3. p \in AddCube([s EXCEPT !.hypos = @ \ out], lists, h)
    BY <1>6, <2>1
  <2>4. CubeReplaces(h, out, lists, gone, s, lists, gone, all)
    BY <1>1, <1>3, <2>2 DEF CubeReplaces
  <2> HIDE DEF out
  <2> QED BY <2>3, <2>4, AddCubeConsistent
<1>7. ASSUME NEW g \in equivalent, NEW p \in RecombineCube(s, lists, h, g)
      PROVE  CubeLeaves(s, lists, gone, now, p)
  <2>1. g \in s.hypos /\ Equivalent(g, h) /\ g.total \in Int /\ g.total <= s.best
    BY <1>1, <1>7 DEF IsStack
  <2> DEFINE out == {g}
             S == (s.hypos \ {g}) \cup {h}
  <2>2. out \in SUBSET s.hypos /\ (Beats(h, g) => \A x \in out : Beats(h, x))
    BY <2>1
  <2>3. ASSUME ~Beats(h, g) PROVE BestHeld(s, now)
    <3>1. h.total <= s.best
      BY <1>2, <2>1, <2>3 DEF Beats
    <3> QED BY <1>1, <2>1, <3>1 DEF BestHeld
  <2>4. CASE Beats(h, g) /\ s.settings.nBest
    <3> DEFINE b == AddArc(lists, h, g)
    <3>1. Owned(S, b, gone, now) /\ Numbered(now, b) /\ Elsewhere(lists, b, now)
      BY <1>1, <2>1, <2>4, WinnerOwned
    <3>2. p \in AddCube([s EXCEPT !.hypos = @ \ out], b, h)
      BY <1>7, <2>4 DEF RecombineCube
    <3>3. Owned((s.hypos \ out) \cup {h}, b, gone, now)
      BY <3>1
    <3> HIDE DEF out, b
    <3>4. CubeReplaces(h, out, b, gone, s, lists, gone, all)
      BY <1>1, <2>2, <2>4, <3>1, <3>3 DEF CubeReplaces
    <3> QED BY <3>2, <3>4, AddCubeConsistent
  <2>5. CASE Beats(h, g) /\ ~s.settings.nBest
    <3> DEFINE more == gone \cup {g}
    <3>1. PICK q \in AddCube([s EXCEPT !.hypos = @ \ out], lists, h) :
                 p = [q EXCEPT !.freed = @ \cup {g}]
      <4> DEFINE W == [s EXCEPT !.hypos = @ \ out]
      <4>1. p \in UNION {IF s.settings.nBest
                         THEN AddCube(without, AddArc(lists, h, g), h)
                         ELSE {[q EXCEPT !.freed = @ \cup {g}] : q \in AddCube(without, lists, h)} :
                         without \in {W}}
        BY <1>7, <2>5 DEF RecombineCube
      <4> HIDE DEF W
      <4>2. p \in {[q EXCEPT !.freed = @ \cup {g}] : q \in AddCube(W, lists, h)}
        BY <2>5, <4>1
      <4>3. PICK q \in AddCube(W, lists, h) : p = [q EXCEPT !.freed = @ \cup {g}]
        BY <4>2
      <4>4. q \in AddCube([s EXCEPT !.hypos = @ \ out], lists, h)
        BY DEF W
      <4> QED BY <4>3, <4>4
    <3>2. lists[g.id] = {}
      BY <1>1, <2>1, <2>5 DEF Numbered
    <3>3. Owned((s.hypos \ out) \cup {h}, lists, more, now)
      BY <1>1, <2>1, <3>2, SoleWinnerOwned
    <3> HIDE DEF out, more
    <3>4. CubeLeaves(s, lists, more, now, q) /\ q = Outcome(q.stack, q.arcs, q.freed)
      <4>1. CubeReplaces(h, out, lists, more, s, lists, gone, all)
        BY <1>1, <1>3, <2>2, <2>5, <3>3 DEF CubeReplaces
      <4> QED BY <3>1, <4>1, AddCubeConsistent
    <3>5. p.stack = q.stack /\ p.arcs = q.arcs /\ p.freed = q.freed \cup {g}
      BY <3>1, <3>4 DEF Outcome
    <3>6. more \cup q.freed = gone \cup p.freed
      BY <3>5 DEF more
    <3> QED BY <3>4, <3>5, <3>6 DEF CubeLeaves
  <2>6. CASE ~Beats(h, g) /\ s.settings.nBest
    <3> DEFINE b == AddArc(lists, g, h)
    <3>1. Owned(s.hypos, b, gone, now) /\ Numbered(now, b) /\ Elsewhere(lists, b, now)
      BY <1>1, <2>1, <2>6, LoserOwned
    <3>2. p = Outcome(s, b, {})
      BY <1>7, <2>6 DEF RecombineCube
    <3>3. p.stack = s /\ p.arcs = b /\ p.freed = {} /\ gone \cup p.freed = gone
      BY <3>2 DEF Outcome
    <3>4. CubeConsistent(s, b, gone, now)
      BY <1>1, <2>3, <2>6, <3>1 DEF CubeConsistent
    <3> QED BY <3>1, <3>3, <3>4 DEF CubeLeaves
  <2>7. CASE ~Beats(h, g) /\ ~s.settings.nBest
    <3>1. p = Outcome(s, lists, {h})
      BY <1>7, <2>7 DEF RecombineCube
    <3> QED BY <1>4, <2>3, <2>7, <3>1
  <2> QED BY <2>4, <2>5, <2>6, <2>7
<1>8. PICK p : /\ o.stack = p.stack /\ o.arcs = p.arcs /\ o.freed = p.freed
               /\ \/ TooBadForCube(s, h) /\ p = Outcome(s, lists, {h})
                  \/ equivalent = {} /\ p \in AddCube(s, lists, h)
                  \/ \E g \in equivalent : p \in RecombineCube(s, lists, h, g)
  BY DEF AddPruneCube, Returning
<1> HIDE DEF equivalent
<1>9. CubeLeaves(s, lists, gone, now, p)
  BY <1>4, <1>5, <1>6, <1>7, <1>8
<1> QED BY <1>8, <1>9 DEF CubeLeaves, now

\* When its turn is over, PruneToSize and CleanupArcList, one after the other.
LEMMA CubeTurnConsistent ==
  ASSUME NEW s, NEW lists, NEW gone, NEW all, CubeConsistent(s, lists, gone, all),
         NEW n \in Nat \ {0}, NEW p \in PruneCubeToSize(s, lists, n),
         NEW q \in CleanupArcList(p.stack, p.arcs)
  PROVE  CubeLeaves(s, lists, gone, all, Outcome(q.stack, q.arcs, p.freed \cup q.freed))
<1>1. CubeLeaves(s, lists, gone, all, p)
  BY CubePruneConsistent
<1>2. CubeConsistent(p.stack, p.arcs, gone \cup p.freed, all)
  BY <1>1 DEF CubeLeaves
<1>3. Trims(p.stack, p.arcs, gone \cup p.freed, all, q)
  BY <1>2, CleanedOwned DEF CubeConsistent
<1>4. ~p.stack.settings.nBest => \A i \in DOMAIN q.arcs : q.arcs[i] = {}
  BY <1>2, <1>3 DEF CubeConsistent, Trims, Elsewhere
<1>5. CubeConsistent(q.stack, q.arcs, (gone \cup p.freed) \cup q.freed, all)
  BY <1>2, <1>3, <1>4 DEF CubeConsistent, Trims
<1>6. Elsewhere(lists, q.arcs, all) /\ q.stack.settings = s.settings
  BY <1>1, <1>3 DEF CubeLeaves, Trims, Elsewhere
<1> DEFINE o == Outcome(q.stack, q.arcs, p.freed \cup q.freed)
<1>7. o.stack = q.stack /\ o.arcs = q.arcs /\ o.freed = p.freed \cup q.freed
  BY DEF Outcome
<1>8. gone \cup o.freed = (gone \cup p.freed) \cup q.freed
  BY <1>7
<1> HIDE DEF o
<1>9. CubeLeaves(s, lists, gone, all, o)
  BY <1>5, <1>6, <1>7, <1>8 DEF CubeLeaves
<1> QED BY <1>9 DEF o

\* A stack begins empty.
LEMMA CubeEmpty ==
  ASSUME NEW option \in Settings,
         NEW lists, lists = [i \in DOMAIN lists |-> lists[i]], \A i \in DOMAIN lists : lists[i] = {}
  PROVE  CubeConsistent(EmptyStack(option), lists, {}, {})
<1>1. Consistent(EmptyStack(option), lists, {}, {})
  BY EmptyConsistent
<1> QED BY <1>1 DEF Consistent, CubeConsistent

\* What changes elsewhere does not concern a stack.
LEMMA CubeOthers ==
  ASSUME NEW s, NEW lists, NEW gone, NEW all, CubeConsistent(s, lists, gone, all),
         NEW b, NEW others, Elsewhere(lists, b, others), b = [i \in DOMAIN b |-> b[i]],
         \A g \in all, h \in others : g.id # h.id,
         ~s.settings.nBest => \A i \in DOMAIN b : b[i] = {}
  PROVE  CubeConsistent(s, b, gone, all)
<1>0. Owned(s.hypos, lists, gone, all) /\ Numbered(all, lists)
  BY DEF CubeConsistent
<1>1. \A h \in all : b[h.id] = lists[h.id]
  BY <1>0 DEF Numbered, Elsewhere
<1>2. Numbered(all, b)
  BY <1>0 DEF Numbered, Elsewhere
<1>3. s.hypos \subseteq all
  BY <1>0 DEF Owned
<1>4. \A h \in s.hypos : b[h.id] = lists[h.id]
  BY <1>1, <1>3
<1>5. ArcsOf(s.hypos, b) = ArcsOf(s.hypos, lists)
  BY <1>4 DEF ArcsOf
<1>6. Owned(s.hypos, b, gone, all)
  BY <1>0, <1>1, <1>3, <1>5 DEF Owned
<1> QED BY <1>2, <1>6 DEF CubeConsistent

-----------------------------------------------------------------------------
(* The inductive invariant *)

\* The hypotheses created, those of k words that have left their queues for the
\* stack, and those of them that were deleted.
AllHypos   == {hypos[i] : i \in 1 .. Len(hypos)}
Popped(k)  == {h \in AllHypos \ Queued : Cardinality(h.cov) = k}
FreedOf(k) == {h \in freed : Cardinality(h.cov) = k}

\* The turn of stack k is over.
Finished(k) == k < current \/ result = "done"

\* Hypotheses are numbered in the order of their creation; those to come have no
\* arcs yet.
NumberedInOrder ==
  /\ hypos \in Seq(AllHypos) /\ Len(hypos) \in 1 .. MaxHypos
  /\ \A i \in 1 .. Len(hypos) : hypos[i].id = i
  /\ DOMAIN arcs = 1 .. MaxHypos
  /\ \A i \in 1 .. MaxHypos : i > Len(hypos) => arcs[i] = {}

\* The sentence stays, and all hypotheses are for it.
SentenceKept ==
  /\ options \in OptionLists
  /\ futureScore = FutureScoreMatrix(OptionScoresOf(options))
  /\ \A h \in AllHypos : WellMade(options, h)

\* Stack k is consistent with the hypotheses that were put on it.
StacksOwn ==
  /\ stacks = [k \in 0 .. SourceSize |-> stacks[k]]
  /\ \A k \in 0 .. SourceSize : /\ CubeConsistent(stacks[k], arcs, FreedOf(k), Popped(k))
                                /\ stacks[k].settings = settings
  /\ freed \subseteq AllHypos \ Queued

\* An item of a container's queue: where in which grid its hypothesis was made.
ItemKept(cov, item) ==
  /\ item.edge \in DOMAIN edges /\ Target(item.edge) = cov /\ item.x \in Nat /\ item.y \in Nat
  /\ item.hypo \in AllHypos /\ item.hypo.cov = cov /\ arcs[item.hypo.id] = {}
  /\ item.hypo.total \in Int /\ item.hypo.total >= NegInf

\* The containers of the coverages, and their queues.
ContainersKept ==
  /\ containers = [cov \in DOMAIN containers |-> containers[cov]]
  /\ \A cov \in DOMAIN containers :
       /\ containers[cov] = [queue |-> containers[cov].queue,
                             hypotheses |-> containers[cov].hypotheses,
                             insertions |-> containers[cov].insertions]
       /\ \A item \in containers[cov].queue : ItemKept(cov, item)
       /\ \A a, b \in containers[cov].queue : a.hypo = b.hypo => a = b

\* An edge leads from a finished stack to a container.
EdgeKept(edge) ==
  /\ edge[1] \in SUBSET Positions /\ edge \in ForwardEdges(edge[1])
  /\ Finished(Cardinality(edge[1])) /\ Target(edge) \in DOMAIN containers
  /\ edges[edge] = [candidates |-> edges[edge].candidates, hypotheses |-> edges[edge].hypotheses,
                    seen |-> edges[edge].seen, initialized |-> edges[edge].initialized]
  /\ edges[edge].candidates \subseteq
       {h \in stacks[Cardinality(edge[1])].hypos : h.cov = edge[1] /\ InReach(h, edge[2])}
  /\ edges[edge].hypotheses \in Seq(edges[edge].candidates)

EdgesKept ==
  /\ edges = [edge \in DOMAIN edges |-> edges[edge]]
  /\ \A edge \in DOMAIN edges : EdgeKept(edge)

\* The turns of the stacks, one after the other.
TurnsKept ==
  /\ current \in 0 .. SourceSize /\ popping \in BOOLEAN
  /\ bcQueue \subseteq Accessor(current)
  /\ result = "done" => current = SourceSize

\* Predecessors are on stacks whose turn is over.
ExtendedInTurn ==
  \A h \in AllHypos :
    /\ h.prev \in 0 .. Len(hypos)
    /\ h.prev # 0 => \E k \in 0 .. SourceSize : hypos[h.prev] \in stacks[k].hypos /\ Finished(k)

IInv ==
  /\ NumberedInOrder /\ SentenceKept /\ StacksOwn
  /\ ContainersKept /\ EdgesKept /\ TurnsKept /\ ExtendedInTurn

\* A stack that is finished, or of which something was popped, has been given
\* hypotheses.
StacksReached ==
  /\ \A k \in 0 .. SourceSize : Finished(k) => Popped(k) # {}
  /\ popping /\ (numPops > 0 \/ current = 0) => Popped(current) # {}

\* An edge to the current stack that has something to queue, or has queued it.
EdgeFilled ==
  \E edge \in EdgesHere : IF edges[edge].initialized THEN containers[Target(edge)].queue # {}
                                                     ELSE edges[edge].candidates # {}

\* There is something to pop for the current stack.
StackFilled ==
  result = "running" =>
    IF popping THEN numPops = 0 /\ current > 0 => \E cov \in bcQueue : containers[cov].queue # {}
               ELSE current > 0 /\ EdgeFilled

Progress == numPops \in Nat /\ StacksReached /\ StackFilled

-----------------------------------------------------------------------------
(* The grids *)

\* The options of a span are numbered by how many precede them: there is one for
\* every row of the grid.
LEMMA TranslationsOfSpan ==
  ASSUME options \in OptionLists, NEW edge, <<edge[2], edge[3]>> \in OptionSpans
  PROVE  /\ Len(Translations(edge)) \in Nat \ {0}
         /\ \A n \in 1 .. Len(Translations(edge)) : Translations(edge)[n] \in OptionsOf(edge)
<1> DEFINE O == OptionsOf(edge)
           N == Cardinality(O)
           Before(i) == {j \in O : Precedes(j, i)}
           rank == [i \in O |-> Cardinality(Before(i))]
<1>1. /\ Len(options) \in Nat /\ DOMAIN options = 1 .. Len(options)
      /\ {<<options[i].s, options[i].e>> : i \in DOMAIN options} = OptionSpans
      /\ \A i \in 1 .. Len(options) : options[i].score \in Int
  BY OptionsAssumption
<1>2. IsFiniteSet(O) /\ N \in Nat /\ O # {} /\ N # 0
  <2>1. 1 \in Int /\ Len(options) \in Int
    BY <1>1
  <2>2. IsFiniteSet(1 .. Len(options))
    BY <2>1, FS_Interval
  <2>3. O \in SUBSET (1 .. Len(options))
    BY DEF OptionsOf
  <2>4. IsFiniteSet(O)
    BY <2>2, <2>3, FS_Subset
  <2>5. PICK i \in 1 .. Len(options) : <<options[i].s, options[i].e>> = <<edge[2], edge[3]>>
    BY <1>1
  <2>6. i \in O
    BY <2>5 DEF OptionsOf
  <2> HIDE DEF O
  <2> QED BY <2>4, <2>6, FS_EmptySet, FS_CardinalityType
<1>3. \A i \in O : i \in Nat /\ options[i].score \in Int
  BY <1>1 DEF OptionsOf
<1>4. /\ \A i \in O : ~Precedes(i, i)
      /\ \A i, j \in O : i = j \/ Precedes(i, j) \/ Precedes(j, i)
      /\ \A i, j, k \in O : Precedes(i, j) /\ Precedes(j, k) => Precedes(i, k)
  <2> HIDE DEF O
  <2> QED BY <1>3 DEF Precedes
<1> HIDE DEF O
<1>5. \A i \in O : IsFiniteSet(Before(i)) /\ Cardinality(Before(i)) \in 0 .. N - 1
  <2>1. TAKE i \in O
  <2>2. Before(i) \in SUBSET (O \ {i})
    BY <1>4
  <2>3. IsFiniteSet(O \ {i}) /\ Cardinality(O \ {i}) = N - 1
    BY <1>2, FS_RemoveElement
  <2> HIDE DEF Before, N
  <2>4. /\ IsFiniteSet(Before(i)) /\ Cardinality(Before(i)) \in Nat
        /\ Cardinality(Before(i)) <= N - 1
    BY <2>2, <2>3, FS_Subset, FS_CardinalityType
  <2> QED BY <1>2, <2>4
<1>6. ASSUME NEW i \in O, NEW j \in O, Precedes(i, j)
      PROVE  Cardinality(Before(i)) < Cardinality(Before(j))
  <2>1. i \in Before(j) /\ i \notin Before(i) /\ Before(i) \in SUBSET Before(j)
    BY <1>4, <1>6
  <2>2. IsFiniteSet(Before(i)) /\ IsFiniteSet(Before(j))
    BY <1>5
  <2> HIDE DEF Before, N
  <2>3. /\ Cardinality(Before(i)) <= Cardinality(Before(j))
        /\ Cardinality(Before(i)) # Cardinality(Before(j))
    BY <2>1, <2>2, FS_Subset
  <2> QED BY <1>2, <1>5, <2>3
<1>7. rank \in Injection(O, 0 .. N - 1)
  <2>1. rank \in [O -> 0 .. N - 1]
    BY <1>5
  <2>2. \A i, j \in O : rank[i] = rank[j] => i = j
    <3> HIDE DEF Before, N
    <3>3. \A i \in O : Cardinality(Before(i)) \in Int
      BY <1>2, <1>5
    <3>1. \A i \in O : rank[i] = Cardinality(Before(i)) /\ rank[i] \in Int
      BY <3>3
    <3> HIDE DEF rank
    <3>2. \A i, j \in O : Precedes(i, j) => rank[i] # rank[j]
      <4>1. TAKE i, j \in O
      <4>2. HAVE Precedes(i, j)
      <4>3. rank[i] < rank[j]
        BY <1>6, <3>1, <4>2
      <4> QED BY <3>1, <4>3
    <3> QED BY <1>4, <3>2
  <2> QED BY <2>1, <2>2 DEF Injection, IsInjective
<1>8. IsFiniteSet(0 .. N - 1) /\ Cardinality(0 .. N - 1) = N
  <2> HIDE DEF N
  <2>1. 0 \in Int /\ N - 1 \in Int
    BY <1>2
  <2>2. /\ IsFiniteSet(0 .. N - 1)
        /\ Cardinality(0 .. N - 1) = IF 0 > N - 1 THEN 0 ELSE (N - 1) - 0 + 1
    BY <2>1, FS_Interval
  <2> QED BY <1>2, <2>2
<1>9. rank \in Surjection(O, 0 .. N - 1)
  <2>1. Cardinality(O) = Cardinality(0 .. N - 1)
    BY <1>8
  <2> HIDE DEF rank, N
  <2> QED BY <1>7, <1>8, <2>1, FS_Injection
<1>10. \A n \in 1 .. N : \E i \in O : Cardinality(Before(i)) = n - 1
  <2>1. TAKE n \in 1 .. N
  <2>2. n - 1 \in 0 .. N - 1
    <3> HIDE DEF N
    <3> QED BY <1>2
  <2>3. PICK i \in O : rank[i] = n - 1
    BY <1>9, <2>2 DEF Surjection
  <2> QED BY <2>3
<1>11. /\ Translations(edge) = [n \in 1 .. N |-> CHOOSE i \in O : Cardinality(Before(i)) = n - 1]
       /\ Len(Translations(edge)) = N
  <2>1. Translations(edge) = [n \in 1 .. N |-> CHOOSE i \in O : Cardinality(Before(i)) = n - 1]
    BY DEF Translations, O
  <2> HIDE DEF N, Before
  <2>2. Len(Translations(edge)) = N
    BY <1>2, <2>1
  <2> QED BY <2>1, <2>2
<1>12. ASSUME NEW n \in 1 .. N PROVE Translations(edge)[n] \in O
  <2>1. Translations(edge)[n] = CHOOSE i \in O : Cardinality(Before(i)) = n - 1
    BY <1>11
  <2>2. \E i \in O : Cardinality(Before(i)) = n - 1
    BY <1>10
  <2> HIDE DEF Before, N
  <2> QED BY <2>1, <2>2
<1> HIDE DEF N
<1> QED BY <1>2, <1>11, <1>12 DEF O

\* The edges out of a container are the same as long as the sentence is.
LEMMA ForwardEdgesStay ==
  ASSUME options' = options
  PROVE  \A cov : ForwardEdges(cov)' = ForwardEdges(cov)
BY DEF ForwardEdges, CheckDistortion

\* An edge has the span of an option.
LEMMA CandidateSpan ==
  ASSUME NEW cov, NEW edge \in ForwardEdges(cov)
  PROVE  edge[1] = cov /\ <<edge[2], edge[3]>> \in OptionSpans
<1>1. PICK span \in OptionSpans : edge = <<cov, span[1], span[2]>>
  BY DEF ForwardEdges
<1>2. span = <<span[1], span[2]>>
  BY OptionsAssumption DEF UpperCells
<1> QED BY <1>1, <1>2

\* CheckDistortion and the constructor of BackwardsEdge, together, let a hypothesis
\* be extended exactly as the distortion limit does.
LEMMA CandidateCanExpand ==
  ASSUME NEW cov \in SUBSET Positions, NEW edge \in ForwardEdges(cov), NEW lists,
         NEW h, WellMade(lists, h), h.cov = cov, InReach(h, edge[2])
  PROVE  /\ edge[1] = cov /\ <<edge[2], edge[3]>> \in OptionSpans
         /\ CanExpand(ConstraintOf[options], h.cov, h.range, edge[2], edge[3])
<1>1. PICK span \in OptionSpans :
        /\ edge = <<cov, span[1], span[2]>> /\ span[2] - span[1] < MaxPhraseLength
        /\ ~Overlap(cov, span[1], span[2]) /\ CheckDistortion(cov, span[1], span[2])
  BY DEF ForwardEdges
<1>2. span \in UpperCells
  BY OptionsAssumption
<1>3. span = <<span[1], span[2]>> /\ span[1] \in Positions /\ span[2] \in Positions
      /\ span[1] <= span[2]
  BY <1>2 DEF UpperCells
<1>4. PICK s, e : s = span[1] /\ e = span[2]
  OBVIOUS
<1>5. /\ s \in Positions /\ e \in Positions /\ s <= e /\ s \in Nat /\ e \in Nat /\ e < SourceSize
      /\ <<s, e>> \in OptionSpans /\ edge[1] = cov /\ edge[2] = s /\ edge[3] = e
      /\ e - s < MaxPhraseLength /\ ~Overlap(cov, s, e) /\ CheckDistortion(cov, s, e)
  BY <1>1, <1>3, <1>4, SourceSizeAssumption DEF Positions
<1>6. s \notin cov
  BY <1>5 DEF Overlap
<1>7. s >= FirstGapPos(cov)
  <2>1. cov # Positions /\ s \in Positions \ cov
    BY <1>5, <1>6
  <2>2. FirstGapPos(cov) <= s
    BY <2>1, FirstGap
  <2> QED BY <2>2
<1>8. Translatable(ConstraintOf[options], cov, s, e)
  BY <1>5, <1>7 DEF Translatable, CheckDistortion
<1>9. WithinDistortionLimit(cov, h.range, s, e)
  <2>1. CASE MaxDistortion < 0
    BY <2>1 DEF WithinDistortionLimit
  <2>2. CASE ~(MaxDistortion < 0)
    <3>1. MaxDistortion # -1
      BY <2>2
    <3>2. DistortionDistance(h.range, Span(s, s)) <= MaxDistortion
      <4>1. CASE cov = {}
        <5>1. h.range = EmptyRange /\ s <= MaxDistortion
          BY <1>5, <3>1, <4>1 DEF WellMade, InReach
        <5>2. DistortionDistance(EmptyRange, Span(s, s)) = s
          BY <1>5 DEF DistortionDistance, EmptyRange, Span, NumWordsCovered, Abs
        <5> QED BY <5>1, <5>2
      <4>2. CASE cov # {}
        BY <1>5, <3>1, <4>2 DEF InReach
      <4> QED BY <4>1, <4>2
    <3> QED BY <1>5, <2>2, <3>2 DEF WithinDistortionLimit, CheckDistortion
  <2> QED BY <2>1, <2>2
<1> QED BY <1>5, <1>8, <1>9 DEF CanExpand

-----------------------------------------------------------------------------
(* What a step does to the hypotheses and the queues *)

\* Numbers tell hypotheses apart.
LEMMA NumbersDiffer ==
  ASSUME NumberedInOrder
  PROVE  /\ \A g, h \in AllHypos : g.id = h.id => g = h
         /\ \A h \in AllHypos : h.id \in 1 .. Len(hypos) /\ hypos[h.id] = h /\ h.id \in 1 .. MaxHypos
<1>1. Len(hypos) \in Nat /\ Len(hypos) <= MaxHypos /\ MaxHypos \in Nat
  BY BoundAssumption DEF NumberedInOrder
<1>2. \A i \in 1 .. Len(hypos) : hypos[i].id = i
  BY DEF NumberedInOrder
<1>3. ASSUME NEW h \in AllHypos
      PROVE  h.id \in 1 .. Len(hypos) /\ hypos[h.id] = h
  <2>1. PICK i \in 1 .. Len(hypos) : h = hypos[i]
    BY DEF AllHypos
  <2> QED BY <1>2, <2>1
<1>4. ASSUME NEW h \in AllHypos PROVE h.id \in 1 .. MaxHypos
  <2>1. h.id \in 1 .. Len(hypos)
    BY <1>3
  <2> QED BY <1>1, <2>1
<1>5. ASSUME NEW g \in AllHypos, NEW h \in AllHypos, g.id = h.id PROVE g = h
  BY <1>3, <1>5
<1> QED BY <1>3, <1>4, <1>5

\* A hypothesis on a stack has left its queue and was not deleted.
LEMMA StackedPopped ==
  ASSUME StacksOwn, NEW k \in 0 .. SourceSize, NEW h \in stacks[k].hypos \cup ArcsOf(stacks[k].hypos, arcs)
  PROVE  h \in Popped(k) /\ h \in AllHypos /\ h \notin Queued /\ Cardinality(h.cov) = k /\ h \notin freed
<1>1. CubeConsistent(stacks[k], arcs, FreedOf(k), Popped(k))
  BY DEF StacksOwn
<1>2. h \in Popped(k) /\ h \notin FreedOf(k)
  BY <1>1 DEF CubeConsistent, Owned
<1> QED BY <1>2 DEF Popped, FreedOf

\* What is in the queues.
LEMMA QueuedItems ==
  ASSUME ContainersKept
  PROVE  /\ \A h : h \in Queued <=> \E cov \in DOMAIN containers :
                                       \E item \in containers[cov].queue : h = item.hypo
         /\ Queued \subseteq AllHypos
<1>1. \A h : h \in Queued <=> \E cov \in DOMAIN containers :
                                 \E item \in containers[cov].queue : h = item.hypo
  BY DEF Queued
<1> QED BY <1>1 DEF ContainersKept, ItemKept

\* Hypotheses made from the grid of an edge, the next in number.
ItemsMade(edge, items) ==
  /\ items = [n \in 1 .. Len(items) |-> items[n]] /\ Len(items) \in Nat
  /\ \A n \in 1 .. Len(items) :
       /\ items[n].edge = edge /\ items[n].x \in Nat /\ items[n].y \in Nat
       /\ items[n].hypo.id = Len(hypos) + n /\ items[n].hypo.cov = Target(edge)
       /\ items[n].hypo.total \in Int /\ items[n].hypo.total >= NegInf
       /\ WellMade(options, items[n].hypo)
       /\ items[n].hypo.prev \in 1 .. Len(hypos)
       /\ hypos[items[n].hypo.prev] \in stacks[Cardinality(edge[1])].hypos

\* Positions that are in the grid of an edge.
InGrid(edge, order, positions) ==
  /\ positions \in Seq(Nat \X Nat)
  /\ \A n \in 1 .. Len(positions) : /\ positions[n][1] < Len(order)
                                    /\ positions[n][2] < Len(Translations(edge))

\* CreateHypothesis, for positions of a grid.
LEMMA ItemsAreMade ==
  ASSUME IInv, NEW edge \in DOMAIN edges, NEW order \in Seq(edges[edge].candidates),
         NEW positions, InGrid(edge, order, positions)
  PROVE  /\ ItemsMade(edge, Items(edge, order, positions))
         /\ Len(Items(edge, order, positions)) = Len(positions)
<1> DEFINE items == Items(edge, order, positions)
           k == Cardinality(edge[1])
<1>1. /\ DOMAIN positions = 1 .. Len(positions) /\ Len(positions) \in Nat
      /\ \A n \in 1 .. Len(positions) : /\ positions[n][1] \in Nat /\ positions[n][2] \in Nat
                                        /\ positions[n][1] < Len(order)
                                        /\ positions[n][2] < Len(Translations(edge))
  BY DEF InGrid
<1>2. /\ DOMAIN items = 1 .. Len(positions)
      /\ \A n \in 1 .. Len(positions) :
           items[n] = [edge |-> edge, x |-> positions[n][1], y |-> positions[n][2],
                       hypo |-> NextHypothesis(options, futureScore, Len(hypos) + n,
                                               order[positions[n][1] + 1],
                                               Translations(edge)[positions[n][2] + 1])]
      /\ items = [n \in 1 .. Len(positions) |-> items[n]]
  BY <1>1 DEF Items
<1> HIDE DEF items
<1>3. Len(items) = Len(positions)
  BY <1>1, <1>2
<1>4. /\ NumberedInOrder /\ SentenceKept /\ StacksOwn /\ EdgeKept(edge)
      /\ edge[1] \in SUBSET Positions /\ edge \in ForwardEdges(edge[1])
      /\ edges[edge].candidates \subseteq
           {h \in stacks[k].hypos : h.cov = edge[1] /\ InReach(h, edge[2])}
  BY DEF IInv, EdgesKept, EdgeKept
<1>5. k \in 0 .. SourceSize
  BY <1>4, PositionsFinite
<1>6. ASSUME NEW n \in 1 .. Len(positions)
      PROVE  /\ items[n].edge = edge /\ items[n].x \in Nat /\ items[n].y \in Nat
             /\ items[n].hypo.id = Len(hypos) + n /\ items[n].hypo.cov = Target(edge)
             /\ items[n].hypo.total \in Int /\ items[n].hypo.total >= NegInf
             /\ WellMade(options, items[n].hypo)
             /\ items[n].hypo.prev \in 1 .. Len(hypos)
             /\ hypos[items[n].hypo.prev] \in stacks[Cardinality(edge[1])].hypos
  <2>1. PICK x, y : x = positions[n][1] /\ y = positions[n][2]
    OBVIOUS
  <2>2. x \in Nat /\ y \in Nat /\ x < Len(order) /\ y < Len(Translations(edge))
    BY <1>1, <2>1
  <2>3. PICK g, i : g = order[x + 1] /\ i = Translations(edge)[y + 1]
    OBVIOUS
  <2>4. items[n] = [edge |-> edge, x |-> x, y |-> y,
                    hypo |-> NextHypothesis(options, futureScore, Len(hypos) + n, g, i)]
    BY <1>2, <2>1, <2>3
  <2>5. g \in edges[edge].candidates
    <3>1. x + 1 \in 1 .. Len(order)
      BY <2>2
    <3> QED BY <2>3, <3>1
  <2>6. g \in stacks[k].hypos /\ g.cov = edge[1] /\ InReach(g, edge[2])
    BY <1>4, <2>5
  <2>7. g \in AllHypos
    BY <1>4, <1>5, <2>6, StackedPopped
  <2>8. g.id \in 1 .. Len(hypos) /\ hypos[g.id] = g /\ WellMade(options, g)
    BY <1>4, <2>7, NumbersDiffer DEF SentenceKept
  <2>9. /\ <<edge[2], edge[3]>> \in OptionSpans
        /\ CanExpand(ConstraintOf[options], g.cov, g.range, edge[2], edge[3])
    BY <1>4, <2>6, <2>8, CandidateCanExpand
  <2>10. i \in OptionsOf(edge)
    <3>1. options \in OptionLists
      BY <1>4 DEF SentenceKept
    <3>2. Len(Translations(edge)) \in Nat
      BY <2>9, <3>1, TranslationsOfSpan
    <3>3. y + 1 \in 1 .. Len(Translations(edge))
      BY <2>2, <3>2
    <3> QED BY <2>3, <2>9, <3>1, <3>3, TranslationsOfSpan
  <2>11. i \in 1 .. Len(options) /\ options[i].s = edge[2] /\ options[i].e = edge[3]
    BY <2>10 DEF OptionsOf
  <2>12. PICK h : h = NextHypothesis(options, futureScore, Len(hypos) + n, g, i)
    OBVIOUS
  <2>13. WellMade(options, h) /\ h.total \in Int /\ h.total >= NegInf
    <3>1. options \in OptionLists /\ futureScore = FutureScoreMatrix(OptionScoresOf(options))
      BY <1>4 DEF SentenceKept
    <3>2. CanExpand(ConstraintOf[options], g.cov, g.range, options[i].s, options[i].e)
      BY <2>9, <2>11
    <3> QED BY <2>8, <2>11, <2>12, <3>1, <3>2, NextWellMade
  <2>14. h.id = Len(hypos) + n /\ h.prev = g.id /\ h.cov = Target(edge)
    BY <2>6, <2>11, <2>12 DEF NextHypothesis, Target
  <2>15. items[n].edge = edge /\ items[n].x = x /\ items[n].y = y /\ items[n].hypo = h
    BY <2>4, <2>12
  <2> QED BY <2>2, <2>6, <2>8, <2>13, <2>14, <2>15
<1>7. ItemsMade(edge, items)
  BY <1>1, <1>2, <1>3, <1>6 DEF ItemsMade
<1> QED BY <1>3, <1>7 DEF items

\* The hypotheses of items.
HyposOf(items) == {items[n].hypo : n \in 1 .. Len(items)}

\* The hypotheses of items are the next in number.
HyposGrow(items) ==
  /\ Len(hypos') = Len(hypos) + Len(items) /\ Len(hypos') \in 1 .. MaxHypos
  /\ hypos' \in Seq(AllHypos') /\ \A n \in 1 .. Len(hypos) : hypos'[n] = hypos[n]
  /\ \A n \in 1 .. Len(hypos') : hypos'[n].id = n
  /\ AllHypos' = AllHypos \cup HyposOf(items)
  /\ \A h \in HyposOf(items) : h \notin AllHypos /\ h.id > Len(hypos)
  /\ \A g, h \in AllHypos' : g.id = h.id => g = h
  /\ \A h \in AllHypos' : h.id \in 1 .. Len(hypos') /\ h.id \in 1 .. MaxHypos

\* Two sequences, one after the other.
LEMMA Concatenation ==
  ASSUME NEW S, NEW s \in Seq(S), NEW t \in Seq(S), NEW u, u = s \o t
  PROVE  /\ Len(u) = Len(s) + Len(t)
         /\ \A n \in 1 .. Len(s) : u[n] = s[n]
         /\ \A n \in 1 .. Len(t) : u[Len(s) + n] = t[n]
<1>1. Len(s) \in Nat /\ Len(t) \in Nat /\ Len(u) = Len(s) + Len(t)
  OBVIOUS
<1>2. ASSUME NEW n \in 1 .. Len(s) PROVE u[n] = s[n]
  BY <1>1
<1>3. ASSUME NEW n \in 1 .. Len(t) PROVE u[Len(s) + n] = t[n]
  <2>1. Len(s) + n \in 1 .. Len(s) + Len(t) /\ Len(s) + n > Len(s) /\ (Len(s) + n) - Len(s) = n
    BY <1>1
  <2> QED BY <2>1
<1> QED BY <1>1, <1>2, <1>3

LEMMA CreatedGrow ==
  ASSUME NumberedInOrder, NEW edge, NEW items, ItemsMade(edge, items), Created(items),
         Len(hypos) + Len(items) <= MaxHypos
  PROVE  HyposGrow(items)
<1> DEFINE new == [n \in 1 .. Len(items) |-> items[n].hypo]
           N == Len(hypos)
           M == Len(items)
<1>1. N \in Nat \ {0} /\ M \in Nat /\ MaxHypos \in Nat /\ hypos \in Seq(AllHypos) /\ N + M <= MaxHypos
  BY BoundAssumption DEF NumberedInOrder, ItemsMade
<1>2. DOMAIN items = 1 .. M
  BY DEF ItemsMade
<1>3. hypos' = hypos \o new
  BY <1>2 DEF Created
<1>4. new \in Seq(HyposOf(items)) /\ Len(new) = M /\ \A n \in 1 .. M : new[n] = items[n].hypo
  BY <1>1 DEF HyposOf
<1> HIDE DEF new
<1>5. /\ Len(hypos') = N + M /\ \A n \in 1 .. N : hypos'[n] = hypos[n]
      /\ \A n \in 1 .. M : hypos'[N + n] = items[n].hypo
  <2>1. hypos \in Seq(AllHypos \cup HyposOf(items)) /\ new \in Seq(AllHypos \cup HyposOf(items))
    BY <1>1, <1>4
  <2>2. /\ Len(hypos') = N + M /\ \A n \in 1 .. N : hypos'[n] = hypos[n]
        /\ \A n \in 1 .. M : hypos'[N + n] = new[n]
    <3>1. PICK a, b, u : a = hypos /\ b = new /\ u = hypos'
      OBVIOUS
    <3>2. a \in Seq(AllHypos \cup HyposOf(items)) /\ b \in Seq(AllHypos \cup HyposOf(items)) /\ u = a \o b
      BY <1>3, <2>1, <3>1
    <3>3. /\ Len(u) = Len(a) + Len(b)
          /\ \A n \in 1 .. Len(a) : u[n] = a[n]
          /\ \A n \in 1 .. Len(b) : u[Len(a) + n] = b[n]
      BY <3>2, Concatenation
    <3> QED BY <1>4, <3>1, <3>3
  <2> QED BY <1>4, <2>2
<1>6. \A n \in 1 .. M : items[n].hypo.id = N + n
  BY DEF ItemsMade
<1>7. \A m \in 1 .. N + M : m \in 1 .. N \/ \E n \in 1 .. M : m = N + n
  <2>1. TAKE m \in 1 .. N + M
  <2>2. CASE m <= N
    BY <1>1, <2>2
  <2>3. CASE ~(m <= N)
    <3> HIDE DEF N, M
    <3>1. m \in Int /\ m > N
      BY <1>1, <2>3
    <3>2. m - N \in 1 .. M /\ m = N + (m - N)
      BY <1>1, <3>1
    <3> QED BY <3>2
  <2> QED BY <2>2, <2>3
<1>8. \A m \in 1 .. N + M : hypos'[m].id = m
  <2>1. \A n \in 1 .. N : hypos'[n].id = n
    BY <1>5 DEF NumberedInOrder
  <2>2. \A n \in 1 .. M : hypos'[N + n].id = N + n
    BY <1>5, <1>6
  <2> HIDE DEF N, M
  <2> QED BY <1>7, <2>1, <2>2
<1>9. AllHypos' = AllHypos \cup HyposOf(items)
  <2>1. AllHypos' = {hypos'[m] : m \in 1 .. N + M}
    BY <1>5 DEF AllHypos
  <2>2. \A m \in 1 .. N : m \in 1 .. N + M
    BY <1>1
  <2>3. \A n \in 1 .. M : N + n \in 1 .. N + M
    BY <1>1
  <2>4. ASSUME NEW h \in AllHypos' PROVE h \in AllHypos \cup HyposOf(items)
    <3>1. PICK m \in 1 .. N + M : h = hypos'[m]
      BY <2>1
    <3>2. CASE m \in 1 .. N
      BY <1>5, <3>1, <3>2 DEF AllHypos
    <3>3. CASE \E n \in 1 .. M : m = N + n
      <4>1. PICK n \in 1 .. M : m = N + n
        BY <3>3
      <4>2. h = items[n].hypo
        BY <1>5, <3>1, <4>1
      <4> QED BY <4>2 DEF HyposOf
    <3> QED BY <1>7, <3>2, <3>3
  <2>5. ASSUME NEW h \in AllHypos PROVE h \in AllHypos'
    BY <1>5, <2>1, <2>2 DEF AllHypos
  <2>6. ASSUME NEW h \in HyposOf(items) PROVE h \in AllHypos'
    BY <1>5, <2>1, <2>3 DEF HyposOf
  <2> QED BY <2>4, <2>5, <2>6
<1>10. hypos' \in Seq(AllHypos')
  <2>1. hypos \in Seq(AllHypos \cup HyposOf(items)) /\ new \in Seq(AllHypos \cup HyposOf(items))
    BY <1>1, <1>4
  <2> QED BY <1>3, <1>9, <2>1
<1>11. \A h \in AllHypos : h.id \in 1 .. N
  BY NumbersDiffer
<1>12. \A h \in HyposOf(items) : h.id > N /\ h \notin AllHypos
  <2>1. \A h \in HyposOf(items) : h.id > N
    BY <1>1, <1>6 DEF HyposOf
  <2> QED BY <1>1, <1>11, <2>1
<1>13. \A h \in AllHypos' : h.id \in 1 .. N + M /\ hypos'[h.id] = h
  BY <1>5, <1>8 DEF AllHypos
<1>14. \A g, h \in AllHypos' : g.id = h.id => g = h
  BY <1>13
<1>15. Len(hypos') \in 1 .. MaxHypos /\ \A h \in AllHypos' : h.id \in 1 .. MaxHypos
  BY <1>1, <1>5, <1>13
<1> QED BY <1>5, <1>8, <1>9, <1>10, <1>12, <1>13, <1>14, <1>15 DEF HyposGrow

\* Items out leave the queue of a container, and items from the grid of an edge
\* enter it.
QueueStep(cov, edge, out, items) ==
  /\ edge \in DOMAIN edges /\ cov \in DOMAIN containers /\ cov = Target(edge)
  /\ out \subseteq containers[cov].queue
  /\ ItemsMade(edge, items) /\ Created(items) /\ Len(hypos) + Len(items) <= MaxHypos
  /\ DOMAIN containers' = DOMAIN containers
  /\ containers' = [c \in DOMAIN containers' |-> containers'[c]]
  /\ containers'[cov] = [queue |-> containers'[cov].queue, hypotheses |-> containers'[cov].hypotheses,
                         insertions |-> containers'[cov].insertions]
  /\ containers'[cov].queue = (containers[cov].queue \ out) \cup ToSet(items)
  /\ \A c \in DOMAIN containers \ {cov} : containers'[c] = containers[c]
  /\ DOMAIN edges' = DOMAIN edges

\* What is popped is what has left a queue.
QueuesGive(out, items) ==
  /\ Queued' = (Queued \ {item.hypo : item \in out}) \cup HyposOf(items)
  /\ AllHypos \ Queued \subseteq AllHypos' \ Queued'
  /\ \A k : Popped(k)' = Popped(k) \cup {h \in {item.hypo : item \in out} : Cardinality(h.cov) = k}

LEMMA QueueStepPopped ==
  ASSUME NumberedInOrder, ContainersKept, NEW cov, NEW edge, NEW out, NEW items,
         QueueStep(cov, edge, out, items)
  PROVE  QueuesGive(out, items) /\ HyposGrow(items)
<1> DEFINE gone == {item.hypo : item \in out}
<1>1. HyposGrow(items)
  BY CreatedGrow DEF QueueStep
<1>2. \A x : x \in ToSet(items) <=> \E n \in 1 .. Len(items) : x = items[n]
  BY DEF QueueStep, ItemsMade, ToSet
<1>3. /\ \A h : h \in Queued <=> \E c \in DOMAIN containers :
                                    \E item \in containers[c].queue : h = item.hypo
      /\ Queued \subseteq AllHypos
  BY QueuedItems
<1>4. \A h : h \in Queued' <=> \E c \in DOMAIN containers :
                                  \E item \in containers'[c].queue : h = item.hypo
  BY DEF Queued, QueueStep
<1>5. ASSUME NEW c \in DOMAIN containers, NEW item \in containers[c].queue, item \notin out
      PROVE  item.hypo \notin gone
  <2>1. SUFFICES ASSUME NEW other \in out, other.hypo = item.hypo PROVE FALSE
    OBVIOUS
  <2>2. other \in containers[cov].queue /\ cov \in DOMAIN containers
    BY DEF QueueStep
  <2>3. other.hypo.cov = cov /\ item.hypo.cov = c
    BY <2>2 DEF ContainersKept, ItemKept
  <2>4. item \in containers[cov].queue
    BY <2>1, <2>3
  <2>5. item = other
    BY <2>1, <2>2, <2>4 DEF ContainersKept
  <2> QED BY <1>5, <2>5
<1>6. gone \subseteq Queued
  BY <1>3 DEF QueueStep
<1> HIDE DEF gone
<1>7. ASSUME NEW h \in Queued' PROVE h \in (Queued \ gone) \cup HyposOf(items)
  <2>1. PICK c \in DOMAIN containers : \E item \in containers'[c].queue : h = item.hypo
    BY <1>4
  <2>2. PICK item \in containers'[c].queue : h = item.hypo
    BY <2>1
  <2>3. CASE c # cov
    <3>1. item \in containers[c].queue
      BY <2>2, <2>3 DEF QueueStep
    <3>2. item \notin out
      <4>1. SUFFICES ASSUME item \in out PROVE FALSE
        OBVIOUS
      <4>2. item \in containers[cov].queue /\ cov \in DOMAIN containers
        BY <4>1 DEF QueueStep
      <4> QED BY <2>3, <3>1, <4>2 DEF ContainersKept, ItemKept
    <3> QED BY <1>3, <1>5, <2>2, <3>1, <3>2
  <2>4. CASE c = cov /\ item \in containers[cov].queue \ out
    BY <1>3, <1>5, <2>2, <2>4
  <2>5. CASE c = cov /\ item \in ToSet(items)
    BY <1>2, <2>2, <2>5 DEF HyposOf
  <2> QED BY <2>2, <2>3, <2>4, <2>5 DEF QueueStep
<1>8. ASSUME NEW h \in Queued, h \notin gone PROVE h \in Queued'
  <2>1. PICK c \in DOMAIN containers : \E item \in containers[c].queue : h = item.hypo
    BY <1>3
  <2>2. PICK item \in containers[c].queue : h = item.hypo
    BY <2>1
  <2>3. item \notin out
    BY <1>8, <2>2 DEF gone
  <2>4. item \in containers'[c].queue
    BY <2>2, <2>3 DEF QueueStep
  <2> QED BY <1>4, <2>2, <2>4
<1>9. ASSUME NEW h \in HyposOf(items) PROVE h \in Queued'
  <2>1. PICK n \in 1 .. Len(items) : h = items[n].hypo
    BY DEF HyposOf
  <2>2. items[n] \in containers'[cov].queue /\ cov \in DOMAIN containers
    BY <1>2 DEF QueueStep
  <2> QED BY <1>4, <2>1, <2>2
<1>10. Queued' = (Queued \ gone) \cup HyposOf(items)
  BY <1>7, <1>8, <1>9
<1>11. AllHypos' \ Queued' = (AllHypos \ Queued) \cup gone
  BY <1>1, <1>3, <1>6, <1>10 DEF HyposGrow
<1>12. \A k : Popped(k)' = Popped(k) \cup {h \in gone : Cardinality(h.cov) = k}
  BY <1>11 DEF Popped
<1>13. AllHypos \ Queued \subseteq AllHypos' \ Queued'
  BY <1>11
<1> QED BY <1>1, <1>10, <1>12, <1>13 DEF QueuesGive, gone

-----------------------------------------------------------------------------
(* What a step does to the stacks *)

\* Stack k and the arc lists of its hypotheses change; hypotheses may have been
\* popped for it, but for no other stack.
StackStep(k, o) ==
  /\ CubeLeaves(stacks[k], arcs, FreedOf(k), Popped(k)', o)
  /\ stacks' = [stacks EXCEPT ![k] = o.stack] /\ arcs' = o.arcs /\ freed' = freed \cup o.freed
  /\ AllHypos \ Queued \subseteq AllHypos' \ Queued'
  /\ \A j : j # k => Popped(j)' = Popped(j)
  /\ \A g, h \in AllHypos' : g.id = h.id => g = h

\* The stacks still own the hypotheses popped for them, and the arc lists of
\* those that were not are as they were.
LEMMA StepStacksOwn ==
  ASSUME StacksOwn, NEW k \in 0 .. SourceSize, NEW o, StackStep(k, o)
  PROVE  /\ StacksOwn' /\ Elsewhere(arcs, arcs', Popped(k)')
         /\ \A j \in 0 .. SourceSize : j # k => stacks'[j] = stacks[j]
<1>1. /\ stacks' = [j \in 0 .. SourceSize |-> stacks'[j]]
      /\ stacks'[k] = o.stack /\ \A j \in 0 .. SourceSize \ {k} : stacks'[j] = stacks[j]
  BY DEF StackStep, StacksOwn
<1>2. /\ CubeConsistent(o.stack, arcs', FreedOf(k) \cup o.freed, Popped(k)')
      /\ Elsewhere(arcs, arcs', Popped(k)') /\ o.stack.settings = stacks[k].settings
  BY DEF StackStep, CubeLeaves
<1>3. o.freed \subseteq Popped(k)'
  BY <1>2 DEF CubeConsistent, Owned
<1>4. \A h \in o.freed : h \in AllHypos' \ Queued' /\ Cardinality(h.cov) = k
  BY <1>3 DEF Popped
<1>5. FreedOf(k)' = FreedOf(k) \cup o.freed
  BY <1>4 DEF FreedOf, StackStep
<1>6. ASSUME NEW j \in 0 .. SourceSize, j # k
      PROVE  FreedOf(j)' = FreedOf(j) /\ Popped(j)' = Popped(j)
  BY <1>4, <1>6 DEF FreedOf, StackStep
<1>7. settings' = settings /\ \A j \in 0 .. SourceSize : stacks'[j].settings = settings
  <2>1. SourceSize \in 0 .. SourceSize
    BY SourceSizeAssumption
  <2> QED BY <1>1, <1>2, <2>1 DEF settings, StacksOwn
<1>8. ASSUME NEW j \in 0 .. SourceSize, j # k
      PROVE  CubeConsistent(stacks'[j], arcs', FreedOf(j)', Popped(j)')
  <2>1. CubeConsistent(stacks[j], arcs, FreedOf(j), Popped(j))
    BY DEF StacksOwn
  <2>2. \A g \in Popped(j), h \in Popped(k)' : g.id # h.id
    <3>1. \A g \in Popped(j) : g \in AllHypos' /\ Cardinality(g.cov) = j
      BY DEF Popped, StackStep
    <3>2. \A h \in Popped(k)' : h \in AllHypos' /\ Cardinality(h.cov) = k
      BY DEF Popped
    <3> QED BY <1>8, <3>1, <3>2 DEF StackStep
  <2>3. arcs' = [i \in DOMAIN arcs' |-> arcs'[i]]
    BY <1>2 DEF CubeConsistent, Numbered
  <2>4. ~stacks[j].settings.nBest => \A i \in DOMAIN arcs' : arcs'[i] = {}
    <3>1. stacks[j].settings = o.stack.settings
      BY <1>2 DEF StacksOwn
    <3> QED BY <1>2, <3>1 DEF CubeConsistent
  <2>5. CubeConsistent(stacks[j], arcs', FreedOf(j), Popped(j))
    BY <1>2, <2>1, <2>2, <2>3, <2>4, CubeOthers
  <2> QED BY <1>1, <1>6, <1>8, <2>5
<1>9. CubeConsistent(stacks'[k], arcs', FreedOf(k)', Popped(k)')
  BY <1>1, <1>2, <1>5
<1>10. freed' \subseteq AllHypos' \ Queued'
  BY <1>4 DEF StackStep, StacksOwn
<1>11. StacksOwn'
  BY <1>1, <1>7, <1>8, <1>9, <1>10 DEF StacksOwn
<1> QED BY <1>1, <1>2, <1>11

\* Hypotheses to come still have no arcs.
LEMMA StepNumbered ==
  ASSUME NumberedInOrder, NEW items, HyposGrow(items), NEW k, Elsewhere(arcs, arcs', Popped(k)')
  PROVE  NumberedInOrder'
<1>1. Len(hypos) \in Nat /\ Len(hypos') \in 1 .. MaxHypos /\ Len(hypos) <= Len(hypos') /\ MaxHypos \in Nat
  <2>1. Len(hypos') = Len(hypos) + Len(items) /\ Len(items) \in Nat
    BY DEF HyposGrow
  <2> QED BY <2>1, BoundAssumption DEF NumberedInOrder, HyposGrow
<1>2. \A i \in 1 .. MaxHypos : i > Len(hypos') => \A g \in Popped(k)' : g.id # i
  <2>1. \A g \in Popped(k)' : g.id \in 1 .. Len(hypos')
    BY DEF Popped, HyposGrow
  <2> QED BY <1>1, <2>1
<1>3. DOMAIN arcs' = 1 .. MaxHypos /\ \A i \in 1 .. MaxHypos : i > Len(hypos') => arcs'[i] = {}
  <2>1. ASSUME NEW i \in 1 .. MaxHypos, i > Len(hypos') PROVE i > Len(hypos)
    BY <1>1, <2>1
  <2> QED BY <1>2, <2>1 DEF NumberedInOrder, Elsewhere
<1> QED BY <1>1, <1>3 DEF NumberedInOrder, HyposGrow

\* The sentence stays, and so does what is known of the hypotheses.
LEMMA StepSentenceKept ==
  ASSUME SentenceKept, options' = options, futureScore' = futureScore,
         NEW items, HyposGrow(items), \A h \in HyposOf(items) : WellMade(options, h)
  PROVE  SentenceKept'
BY DEF SentenceKept, HyposGrow, WellMade

\* The candidates of the edges stay.
EdgesStay ==
  /\ edges' = [x \in DOMAIN edges |-> edges'[x]]
  /\ \A x \in DOMAIN edges :
       /\ edges'[x] = [candidates |-> edges[x].candidates, hypotheses |-> edges'[x].hypotheses,
                       seen |-> edges'[x].seen, initialized |-> edges'[x].initialized]
       /\ edges'[x].hypotheses \in Seq(edges[x].candidates)

\* The items of the queues: those that stay have no arcs yet, and those that are
\* new neither.
LEMMA StepContainersKept ==
  ASSUME NumberedInOrder, ContainersKept, NEW cov, NEW edge, NEW out, NEW items,
         QueueStep(cov, edge, out, items), NEW k, Elsewhere(arcs, arcs', Popped(k)')
  PROVE  ContainersKept'
<1>1. HyposGrow(items)
  BY QueueStepPopped
<1>2. \A x : x \in ToSet(items) <=> \E n \in 1 .. Len(items) : x = items[n]
  BY DEF QueueStep, ItemsMade, ToSet
<1>3. \A c \in DOMAIN containers : \A item \in containers'[c].queue : item.hypo \in Queued'
  BY DEF QueueStep, Queued
<1>4. ASSUME NEW h \in AllHypos', h \in Queued' PROVE arcs'[h.id] = arcs[h.id]
  <2>1. \A g \in Popped(k)' : g.id # h.id
    <3>1. SUFFICES ASSUME NEW g \in Popped(k)', g.id = h.id PROVE FALSE
      OBVIOUS
    <3>2. g \in AllHypos' /\ g \notin Queued'
      BY DEF Popped
    <3>3. g = h
      BY <1>1, <3>1, <3>2 DEF HyposGrow
    <3> QED BY <1>4, <3>2, <3>3
  <2>2. h.id \in DOMAIN arcs
    BY <1>1 DEF HyposGrow, NumberedInOrder
  <2> QED BY <2>1, <2>2 DEF Elsewhere
<1>5. ASSUME NEW c \in DOMAIN containers, NEW item \in containers'[c].queue, item \in containers[c].queue
      PROVE  ItemKept(c, item)'
  <2>1. ItemKept(c, item)
    BY <1>5 DEF ContainersKept
  <2>2. item.hypo \in AllHypos' /\ item.hypo \in Queued'
    BY <1>1, <1>3, <2>1 DEF HyposGrow, ItemKept
  <2>3. arcs'[item.hypo.id] = {}
    BY <1>4, <2>1, <2>2 DEF ItemKept
  <2>4. DOMAIN edges' = DOMAIN edges
    BY DEF QueueStep
  <2> QED BY <2>1, <2>2, <2>3, <2>4 DEF ItemKept
<1>6. ASSUME NEW n \in 1 .. Len(items)
      PROVE  ItemKept(cov, items[n])' /\ items[n].hypo \notin AllHypos
  <2>1. /\ items[n].edge = edge /\ items[n].x \in Nat /\ items[n].y \in Nat
        /\ items[n].hypo.cov = Target(edge)
        /\ items[n].hypo.total \in Int /\ items[n].hypo.total >= NegInf
        /\ edge \in DOMAIN edges' /\ cov = Target(edge) /\ cov \in DOMAIN containers
    BY DEF QueueStep, ItemsMade
  <2>2. items[n].hypo \in HyposOf(items)
    BY DEF HyposOf
  <2>3. /\ items[n].hypo \in AllHypos' /\ items[n].hypo \notin AllHypos
        /\ items[n].hypo.id > Len(hypos) /\ items[n].hypo.id \in 1 .. MaxHypos
    BY <1>1, <2>2 DEF HyposGrow
  <2>4. items[n].hypo \in Queued'
    BY <1>2, <1>3, <2>1 DEF QueueStep
  <2>5. arcs'[items[n].hypo.id] = {}
    BY <1>4, <2>3, <2>4 DEF NumberedInOrder
  <2> QED BY <2>1, <2>3, <2>5 DEF ItemKept
<1>7. ASSUME NEW c \in DOMAIN containers
      PROVE  /\ containers'[c] = [queue |-> containers'[c].queue,
                                  hypotheses |-> containers'[c].hypotheses,
                                  insertions |-> containers'[c].insertions]
             /\ \A item \in containers'[c].queue :
                  \/ item \in containers[c].queue
                  \/ c = cov /\ \E n \in 1 .. Len(items) : item = items[n]
  <2>1. CASE c = cov
    BY <1>2, <2>1 DEF QueueStep
  <2>2. CASE c # cov
    BY <2>2 DEF QueueStep, ContainersKept
  <2> QED BY <2>1, <2>2
<1>8. ASSUME NEW c \in DOMAIN containers, NEW item \in containers'[c].queue PROVE ItemKept(c, item)'
  <2>1. CASE item \in containers[c].queue
    BY <1>5, <2>1
  <2>2. CASE c = cov /\ \E n \in 1 .. Len(items) : item = items[n]
    BY <1>6, <2>2
  <2> QED BY <1>7, <2>1, <2>2
<1>9. ASSUME NEW c \in DOMAIN containers,
             NEW a \in containers'[c].queue, NEW b \in containers'[c].queue, a.hypo = b.hypo
      PROVE  a = b
  <2>1. \A item \in containers[c].queue : item.hypo \in AllHypos
    BY DEF ContainersKept, ItemKept
  <2>2. CASE a \in containers[c].queue /\ b \in containers[c].queue
    BY <1>9, <2>2 DEF ContainersKept
  <2>3. CASE (\E n \in 1 .. Len(items) : a = items[n]) /\ (\E n \in 1 .. Len(items) : b = items[n])
    <3>1. PICK m, n \in 1 .. Len(items) : a = items[m] /\ b = items[n]
      BY <2>3
    <3>2. a.hypo.id = Len(hypos) + m /\ b.hypo.id = Len(hypos) + n
      BY <3>1 DEF QueueStep, ItemsMade
    <3>3. Len(hypos) \in Int
      BY DEF NumberedInOrder
    <3>4. Len(hypos) + m = Len(hypos) + n
      BY <1>9, <3>2
    <3>5. m = n
      BY <3>3, <3>4
    <3> QED BY <3>1, <3>5
  <2>4. CASE a \in containers[c].queue /\ \E n \in 1 .. Len(items) : b = items[n]
    BY <1>6, <1>9, <2>1, <2>4
  <2>5. CASE b \in containers[c].queue /\ \E n \in 1 .. Len(items) : a = items[n]
    BY <1>6, <1>9, <2>1, <2>5
  <2> QED BY <1>7, <2>2, <2>3, <2>4, <2>5
<1>10. containers' = [c \in DOMAIN containers' |-> containers'[c]] /\ DOMAIN containers' = DOMAIN containers
  BY DEF QueueStep
<1> QED BY <1>7, <1>8, <1>9, <1>10 DEF ContainersKept

\* Edges lead from stacks whose turn is over, which stay as they are.
LEMMA StepEdgesKept ==
  ASSUME EdgesKept, EdgesStay, options' = options, DOMAIN containers \subseteq DOMAIN containers',
         \A k \in 0 .. SourceSize : Finished(k) => Finished(k)' /\ stacks'[k] = stacks[k]
  PROVE  EdgesKept'
<1>1. DOMAIN edges' = DOMAIN edges /\ edges' = [x \in DOMAIN edges' |-> edges'[x]]
  BY DEF EdgesStay
<1>2. ASSUME NEW x \in DOMAIN edges PROVE EdgeKept(x)'
  <2>1. EdgeKept(x)
    BY DEF EdgesKept
  <2>2. Cardinality(x[1]) \in 0 .. SourceSize
    BY <2>1, PositionsFinite DEF EdgeKept
  <2>3. Finished(Cardinality(x[1]))' /\ stacks'[Cardinality(x[1])] = stacks[Cardinality(x[1])]
    BY <2>1, <2>2 DEF EdgeKept
  <2>4. /\ edges'[x] = [candidates |-> edges'[x].candidates, hypotheses |-> edges'[x].hypotheses,
                        seen |-> edges'[x].seen, initialized |-> edges'[x].initialized]
        /\ edges'[x].candidates = edges[x].candidates
        /\ edges'[x].hypotheses \in Seq(edges[x].candidates)
    BY DEF EdgesStay
  <2>5. x \in ForwardEdges(x[1])'
    BY <2>1, ForwardEdgesStay DEF EdgeKept
  <2> QED BY <2>1, <2>3, <2>4, <2>5 DEF EdgeKept
<1> QED BY <1>1, <1>2 DEF EdgesKept

\* One step of the queues and the stack whose turn it is.
LEMMA QueueStepIInv ==
  ASSUME IInv, result = "running", options' = options, futureScore' = futureScore,
         current' = current, result' = result, TurnsKept',
         NEW c, c = current, NEW cov, Cardinality(cov) = c, NEW edge, NEW out, NEW items,
         QueueStep(cov, edge, out, items), EdgesStay, NEW o,
         stacks' = [stacks EXCEPT ![c] = o.stack], arcs' = o.arcs, freed' = freed \cup o.freed,
         CubeLeaves(stacks[c], arcs, FreedOf(c), Popped(c) \cup {item.hypo : item \in out}, o)
  PROVE  IInv' /\ QueuesGive(out, items) /\ HyposGrow(items)
<1>1. /\ NumberedInOrder /\ SentenceKept /\ StacksOwn
      /\ ContainersKept /\ EdgesKept /\ TurnsKept /\ ExtendedInTurn
      /\ c \in 0 .. SourceSize
  BY DEF IInv, TurnsKept
<1>2. QueuesGive(out, items) /\ HyposGrow(items)
  BY <1>1, QueueStepPopped
<1>3. \A item \in out : item.hypo.cov = cov /\ item.hypo \in AllHypos
  BY <1>1 DEF QueueStep, ContainersKept, ItemKept
<1>4. /\ Popped(c)' = Popped(c) \cup {item.hypo : item \in out}
      /\ \A j : j # c => Popped(j)' = Popped(j)
  <2>1. \A h \in {item.hypo : item \in out} : Cardinality(h.cov) = c
    BY <1>3
  <2> QED BY <1>2, <2>1 DEF QueuesGive
<1>5. StackStep(c, o)
  BY <1>2, <1>4 DEF StackStep, QueuesGive, HyposGrow
<1>6. /\ StacksOwn' /\ Elsewhere(arcs, arcs', Popped(c)')
      /\ \A j \in 0 .. SourceSize : j # c => stacks'[j] = stacks[j]
  BY <1>1, <1>5, StepStacksOwn
<1>7. NumberedInOrder'
  BY <1>1, <1>2, <1>6, StepNumbered
<1>8. SentenceKept'
  <2>1. \A h \in HyposOf(items) : WellMade(options, h)
    BY DEF HyposOf, QueueStep, ItemsMade
  <2> QED BY <1>1, <1>2, <2>1, StepSentenceKept
<1>9. ContainersKept'
  BY <1>1, <1>6, StepContainersKept
<1>10. \A k \in 0 .. SourceSize : Finished(k) => Finished(k)' /\ stacks'[k] = stacks[k]
  <2>1. ASSUME NEW k \in 0 .. SourceSize, Finished(k) PROVE k # c
    BY <1>1, <2>1 DEF Finished
  <2> QED BY <1>6, <2>1 DEF Finished
<1>11. EdgesKept'
  <2>1. DOMAIN containers \subseteq DOMAIN containers'
    BY DEF QueueStep
  <2> QED BY <1>1, <1>10, <2>1, StepEdgesKept
<1>12. ExtendedInTurn'
  <2>1. \A n \in 1 .. Len(hypos) : hypos'[n] = hypos[n]
    BY <1>2 DEF HyposGrow
  <2>2. \A n \in 0 .. Len(hypos) : n \in 0 .. Len(hypos')
    <3>1. Len(hypos) \in Nat /\ Len(items) \in Nat /\ Len(hypos') = Len(hypos) + Len(items)
      BY <1>1, <1>2 DEF NumberedInOrder, HyposGrow, QueueStep, ItemsMade
    <3> QED BY <3>1
  <2>3. ASSUME NEW h \in AllHypos
        PROVE  /\ h.prev \in 0 .. Len(hypos')
               /\ h.prev # 0 => \E k \in 0 .. SourceSize : hypos'[h.prev] \in stacks'[k].hypos /\ Finished(k)'
    <3>1. h.prev \in 0 .. Len(hypos)
      BY <1>1 DEF ExtendedInTurn
    <3>2. ASSUME h.prev # 0
          PROVE  \E k \in 0 .. SourceSize : hypos'[h.prev] \in stacks'[k].hypos /\ Finished(k)'
      <4>1. PICK k \in 0 .. SourceSize : hypos[h.prev] \in stacks[k].hypos /\ Finished(k)
        BY <1>1, <3>2 DEF ExtendedInTurn
      <4>2. h.prev \in 1 .. Len(hypos)
        BY <1>1, <3>1, <3>2 DEF NumberedInOrder
      <4> QED BY <1>10, <2>1, <4>1, <4>2
    <3> QED BY <2>2, <3>1, <3>2
  <2>4. ASSUME NEW h \in HyposOf(items)
        PROVE  /\ h.prev \in 0 .. Len(hypos')
               /\ \E k \in 0 .. SourceSize : hypos'[h.prev] \in stacks'[k].hypos /\ Finished(k)'
    <3> DEFINE k == Cardinality(edge[1])
    <3>1. h.prev \in 1 .. Len(hypos) /\ hypos[h.prev] \in stacks[k].hypos /\ edge \in DOMAIN edges
      BY DEF HyposOf, QueueStep, ItemsMade
    <3>2. k \in 0 .. SourceSize /\ Finished(k)
      BY <1>1, <3>1, PositionsFinite DEF EdgesKept, EdgeKept
    <3>3. h.prev \in 0 .. Len(hypos) /\ hypos'[h.prev] = hypos[h.prev]
      BY <1>1, <2>1, <3>1 DEF NumberedInOrder
    <3> HIDE DEF k
    <3> QED BY <1>10, <2>2, <3>1, <3>2, <3>3
  <2>5. AllHypos' = AllHypos \cup HyposOf(items)
    BY <1>2 DEF HyposGrow
  <2> QED BY <2>3, <2>4, <2>5 DEF ExtendedInTurn
<1> QED BY <1>2, <1>6, <1>7, <1>8, <1>9, <1>11, <1>12 DEF IInv

-----------------------------------------------------------------------------
(* The steps *)

\* What is on no stack and in no queue changes.
LEMMA StaysIInv ==
  ASSUME IInv, TurnsKept', current' = current, result' = "done" <=> result = "done",
         UNCHANGED <<options, futureScore, hypos, stacks, arcs, freed, containers, edges>>
  PROVE  IInv' /\ \A k : Popped(k)' = Popped(k)
<1>1. AllHypos' = AllHypos /\ Queued' = Queued /\ settings' = settings
  BY DEF AllHypos, Queued, settings
<1>2. \A k : Popped(k)' = Popped(k) /\ FreedOf(k)' = FreedOf(k) /\ Finished(k)' = Finished(k)
  BY <1>1 DEF Popped, FreedOf, Finished
<1>3. NumberedInOrder' /\ StacksOwn' /\ ExtendedInTurn'
  BY <1>1, <1>2 DEF IInv, NumberedInOrder, StacksOwn, ExtendedInTurn
<1>4. SentenceKept'
  BY <1>1 DEF IInv, SentenceKept, WellMade
<1>5. ContainersKept'
  BY <1>1 DEF IInv, ContainersKept, ItemKept
<1>6. EdgesKept'
  <2>1. \A cov : ForwardEdges(cov)' = ForwardEdges(cov)
    BY <1>2, ForwardEdgesStay
  <2> QED BY <1>2, <2>1 DEF IInv, EdgesKept, EdgeKept
<1> QED BY <1>2, <1>3, <1>4, <1>5, <1>6 DEF IInv

\* An operation that leaves the stack as it is.
LEMMA NothingChanges ==
  ASSUME NEW s, NEW lists, NEW gone, NEW all, CubeConsistent(s, lists, gone, all)
  PROVE  CubeLeaves(s, lists, gone, all, Outcome(s, lists, {}))
<1> DEFINE o == Outcome(s, lists, {})
<1>1. o.stack = s /\ o.arcs = lists /\ o.freed = {} /\ gone \cup o.freed = gone
  BY DEF Outcome
<1> HIDE DEF o
<1>2. CubeLeaves(s, lists, gone, all, o)
  BY <1>1 DEF CubeLeaves, Elsewhere
<1> QED BY <1>2 DEF o

\* The candidates of an edge, in an order.
LEMMA OrdersAreSequences ==
  ASSUME IInv, NEW edge \in DOMAIN edges, NEW order \in Orders(edge)
  PROVE  /\ order \in Seq(edges[edge].candidates)
         /\ edges[edge].candidates # {} => Len(order) > 0
<1> DEFINE S == edges[edge].candidates
           k == Cardinality(edge[1])
<1>1. edge[1] \in SUBSET Positions /\ S \subseteq stacks[k].hypos
  BY DEF IInv, EdgesKept, EdgeKept
<1>2. k \in 0 .. SourceSize
  BY <1>1, PositionsFinite
<1>3. IsFiniteSet(stacks[k].hypos)
  BY <1>2 DEF IInv, StacksOwn, CubeConsistent, IsStack, Sortable
<1>4. IsFiniteSet(S)
  <2>1. S \in SUBSET stacks[k].hypos
    BY <1>1
  <2> HIDE DEF S, k
  <2> QED BY <1>3, <2>1, FS_Subset
<1>5. order \in [1 .. Cardinality(S) -> S]
  BY DEF Orders, SetToSeqs
<1> HIDE DEF S
<1>6. Cardinality(S) \in Nat /\ (S # {} => Cardinality(S) # 0)
  BY <1>4, FS_CardinalityType, FS_EmptySet
<1>7. order \in Seq(S) /\ Len(order) = Cardinality(S)
  BY <1>5, <1>6
<1> QED BY <1>6, <1>7 DEF S

\* What InitializeEdge has done: the edge has something to queue no more, or a
\* hypothesis in a queue.
EdgeInitialized ==
  /\ \A k : Popped(k)' = Popped(k)
  /\ DOMAIN containers' = DOMAIN containers /\ DOMAIN edges' = DOMAIN edges
  /\ \A cov \in DOMAIN containers : containers[cov].queue \subseteq containers'[cov].queue
  /\ \E edge \in DOMAIN edges :
       /\ edges'[edge].initialized /\ \A x \in DOMAIN edges \ {edge} : edges'[x] = edges[x]
       /\ ~edges[edge].initialized
       /\ edges[edge].candidates # {} => containers'[Target(edge)].queue # {}

\* The first hypothesis of an edge is queued.
LEMMA InitializeEdgeIInv ==
  ASSUME IInv, InitializeEdge
  PROVE  IInv' /\ EdgeInitialized
<1>0. PICK c : c = current
  OBVIOUS
<1>1. /\ result = "running" /\ ~popping /\ current' = current /\ popping' = popping
      /\ bcQueue' = bcQueue /\ result' = result /\ options' = options /\ futureScore' = futureScore
      /\ stacks' = stacks /\ arcs' = arcs /\ freed' = freed
  BY DEF InitializeEdge, sentence
<1>2. PICK edge, order, start, items :
        /\ edge \in EdgesHere /\ ~edges[edge].initialized /\ order \in Orders(edge)
        /\ start = (IF order = <<>> THEN <<>> ELSE <<<<0, 0>>>>)
        /\ items = Items(edge, order, start)
        /\ Len(hypos) < MaxHypos
        /\ Enqueue(Target(edge), items, containers[Target(edge)].queue)
        /\ edges' = [edges EXCEPT ![edge].hypotheses = order, ![edge].initialized = TRUE,
                                  ![edge].seen = Keys(start)]
  <2>1. PICK pending : /\ pending = {edge \in EdgesHere : ~edges[edge].initialized}
                       /\ pending # {}
                       /\ \E edge \in {CHOOSE edge \in pending : TRUE} :
                            \E order \in Orders(edge) :
                              \E start \in {IF order = <<>> THEN <<>> ELSE <<<<0, 0>>>>} :
                                /\ Len(hypos) < MaxHypos
                                /\ Enqueue(Target(edge), Items(edge, order, start), containers[Target(edge)].queue)
                                /\ edges' = [edges EXCEPT ![edge].hypotheses = order,
                                                          ![edge].initialized = TRUE,
                                                          ![edge].seen = Keys(start)]
    BY DEF InitializeEdge
  <2>2. PICK edge \in {CHOOSE edge \in pending : TRUE} :
          \E order \in Orders(edge) :
            \E start \in {IF order = <<>> THEN <<>> ELSE <<<<0, 0>>>>} :
              /\ Len(hypos) < MaxHypos
              /\ Enqueue(Target(edge), Items(edge, order, start), containers[Target(edge)].queue)
              /\ edges' = [edges EXCEPT ![edge].hypotheses = order, ![edge].initialized = TRUE,
                                        ![edge].seen = Keys(start)]
    BY <2>1
  <2>3. edge \in pending
    BY <2>1
  <2>4. PICK order \in Orders(edge) :
          \E start \in {IF order = <<>> THEN <<>> ELSE <<<<0, 0>>>>} :
            /\ Len(hypos) < MaxHypos
            /\ Enqueue(Target(edge), Items(edge, order, start), containers[Target(edge)].queue)
            /\ edges' = [edges EXCEPT ![edge].hypotheses = order, ![edge].initialized = TRUE,
                                      ![edge].seen = Keys(start)]
    BY <2>2
  <2>5. PICK start, items :
          /\ start = (IF order = <<>> THEN <<>> ELSE <<<<0, 0>>>>)
          /\ items = Items(edge, order, start)
          /\ Len(hypos) < MaxHypos
          /\ Enqueue(Target(edge), items, containers[Target(edge)].queue)
          /\ edges' = [edges EXCEPT ![edge].hypotheses = order, ![edge].initialized = TRUE,
                                    ![edge].seen = Keys(start)]
    BY <2>4
  <2>6. edge \in EdgesHere /\ ~edges[edge].initialized
    BY <2>1, <2>3
  <2> QED BY <2>5, <2>6
<1> DEFINE cov == Target(edge)
<1>3. /\ NumberedInOrder /\ SentenceKept /\ StacksOwn /\ ContainersKept /\ EdgesKept /\ TurnsKept
      /\ edge \in DOMAIN edges /\ cov \in DOMAIN containers /\ Cardinality(cov) = c
      /\ c \in 0 .. SourceSize
  BY <1>0, <1>2 DEF IInv, EdgesHere, EdgesKept, EdgeKept, TurnsKept
<1>4. order \in Seq(edges[edge].candidates) /\ (edges[edge].candidates # {} => Len(order) > 0)
  BY <1>2, <1>3, OrdersAreSequences
<1>5. InGrid(edge, order, start) /\ Len(start) <= 1
  <2>1. CASE order = <<>>
    BY <1>2, <2>1 DEF InGrid
  <2>2. CASE order # <<>>
    <3>1. start = <<<<0, 0>>>> /\ Len(start) = 1 /\ start[1] = <<0, 0>>
      BY <1>2, <2>2
    <3>2. Len(order) > 0
      BY <1>4, <2>2
    <3>3. <<edge[2], edge[3]>> \in OptionSpans
      BY <1>3, CandidateSpan DEF EdgesKept, EdgeKept
    <3>4. Len(Translations(edge)) > 0
      BY <1>3, <3>3, TranslationsOfSpan DEF SentenceKept
    <3>5. start \in Seq(Nat \X Nat)
      BY <3>1
    <3> QED BY <3>1, <3>2, <3>4, <3>5 DEF InGrid
  <2> QED BY <2>1, <2>2
<1>6. ItemsMade(edge, items) /\ Len(items) = Len(start)
  BY <1>2, <1>3, <1>4, <1>5, ItemsAreMade
<1>7. \A x : x \in ToSet(items) <=> \E n \in 1 .. Len(items) : x = items[n]
  BY <1>6 DEF ItemsMade, ToSet
<1> DEFINE Q == containers[cov].queue \cup ToSet(items)
<1>8. containers' = [containers EXCEPT ![cov].queue = Q]
  BY <1>2 DEF Enqueue
<1> HIDE DEF cov, Q
<1>9. /\ DOMAIN containers' = DOMAIN containers
      /\ containers' = [x \in DOMAIN containers' |-> containers'[x]]
      /\ containers'[cov] = [queue |-> containers'[cov].queue, hypotheses |-> containers'[cov].hypotheses,
                             insertions |-> containers'[cov].insertions]
      /\ containers'[cov].queue = Q
      /\ \A x \in DOMAIN containers \ {cov} : containers'[x] = containers[x]
  <2> DEFINE W == [containers[cov] EXCEPT !.queue = Q]
  <2>1. /\ containers[cov] = [queue |-> containers[cov].queue, hypotheses |-> containers[cov].hypotheses,
                              insertions |-> containers[cov].insertions]
        /\ containers = [x \in DOMAIN containers |-> containers[x]]
    BY <1>3 DEF ContainersKept
  <2>2. W = [queue |-> Q, hypotheses |-> containers[cov].hypotheses,
             insertions |-> containers[cov].insertions]
    BY <2>1
  <2>3. containers' = [containers EXCEPT ![cov] = W]
    BY <1>8
  <2> HIDE DEF W
  <2>4. containers'[cov] = W /\ DOMAIN containers' = DOMAIN containers
    BY <1>3, <2>1, <2>3
  <2> QED BY <1>3, <2>1, <2>2, <2>3, <2>4
<1>10. /\ DOMAIN edges' = DOMAIN edges
       /\ edges' = [x \in DOMAIN edges |-> edges'[x]]
       /\ edges'[edge] = [candidates |-> edges[edge].candidates, hypotheses |-> order,
                          seen |-> Keys(start), initialized |-> TRUE]
       /\ \A x \in DOMAIN edges \ {edge} : edges'[x] = edges[x]
  <2>1. PICK keys : keys = Keys(start)
    OBVIOUS
  <2>2. edges' = [edges EXCEPT ![edge].hypotheses = order, ![edge].initialized = TRUE,
                               ![edge].seen = keys]
    BY <1>2, <2>1
  <2>3. edges[edge] = [candidates |-> edges[edge].candidates, hypotheses |-> edges[edge].hypotheses,
                       seen |-> edges[edge].seen, initialized |-> edges[edge].initialized]
    BY <1>3 DEF EdgesKept, EdgeKept
  <2> QED BY <1>3, <2>1, <2>2, <2>3 DEF EdgesKept
<1>11. EdgesStay
  <2>1. edges'[edge].hypotheses = order /\ edges'[edge].initialized = TRUE /\ edges'[edge].seen = Keys(start)
    BY <1>10
  <2>2. /\ edges'[edge] = [candidates |-> edges[edge].candidates, hypotheses |-> edges'[edge].hypotheses,
                           seen |-> edges'[edge].seen, initialized |-> edges'[edge].initialized]
        /\ edges'[edge].hypotheses \in Seq(edges[edge].candidates)
    BY <1>4, <1>10, <2>1
  <2>3. ASSUME NEW x \in DOMAIN edges, x # edge
        PROVE  /\ edges'[x] = [candidates |-> edges[x].candidates, hypotheses |-> edges'[x].hypotheses,
                               seen |-> edges'[x].seen, initialized |-> edges'[x].initialized]
               /\ edges'[x].hypotheses \in Seq(edges[x].candidates)
    BY <1>3, <1>10, <2>3 DEF EdgesKept, EdgeKept
  <2> QED BY <1>10, <2>2, <2>3 DEF EdgesStay
<1>12. QueueStep(cov, edge, {}, items)
  <2>1. Created(items)
    BY <1>2 DEF Enqueue
  <2>2. Len(hypos) + Len(items) <= MaxHypos
    BY <1>2, <1>3, <1>5, <1>6, BoundAssumption DEF NumberedInOrder, ItemsMade
  <2>3. containers'[cov].queue = (containers[cov].queue \ {}) \cup ToSet(items)
    BY <1>9 DEF Q
  <2> QED BY <1>3, <1>6, <1>9, <1>10, <2>1, <2>2, <2>3 DEF QueueStep, cov
<1>13. TurnsKept'
  BY <1>1, <1>3, <1>9 DEF TurnsKept, Accessor
<1> DEFINE o == Outcome(stacks[c], arcs, {})
<1>14. /\ CubeLeaves(stacks[c], arcs, FreedOf(c), Popped(c) \cup {item.hypo : item \in {}}, o)
       /\ stacks' = [stacks EXCEPT ![c] = o.stack] /\ arcs' = o.arcs /\ freed' = freed \cup o.freed
  <2>1. CubeConsistent(stacks[c], arcs, FreedOf(c), Popped(c))
    BY <1>3 DEF StacksOwn
  <2>2. CubeLeaves(stacks[c], arcs, FreedOf(c), Popped(c), o)
    BY <2>1, NothingChanges
  <2>3. o.stack = stacks[c] /\ o.arcs = arcs /\ o.freed = {}
    BY DEF Outcome
  <2>4. Popped(c) \cup {item.hypo : item \in {}} = Popped(c)
    OBVIOUS
  <2> HIDE DEF o
  <2>5. stacks' = [stacks EXCEPT ![c] = o.stack]
    BY <1>1, <1>3, <2>3 DEF StacksOwn
  <2> QED BY <1>1, <2>2, <2>3, <2>4, <2>5
<1> HIDE DEF o
<1>15. IInv' /\ QueuesGive({}, items)
  BY <1>0, <1>1, <1>3, <1>11, <1>12, <1>13, <1>14, QueueStepIInv
<1>16. \A k : Popped(k)' = Popped(k)
  BY <1>15 DEF QueuesGive
<1>17. edges[edge].candidates # {} => containers'[Target(edge)].queue # {}
  <2> SUFFICES ASSUME edges[edge].candidates # {} PROVE containers'[cov].queue # {}
    BY DEF cov
  <2>1. order # <<>>
    BY <1>4
  <2>2. Len(items) = 1
    BY <1>2, <1>6, <2>1
  <2>3. items[1] \in ToSet(items)
    BY <1>7, <2>2
  <2> QED BY <1>9, <2>3 DEF Q
<1>18. \A x \in DOMAIN containers : containers[x].queue \subseteq containers'[x].queue
  BY <1>9 DEF Q
<1> QED BY <1>2, <1>3, <1>9, <1>10, <1>15, <1>16, <1>17, <1>18 DEF EdgeInitialized

\* PushSuccessors keeps to the grid.
LEMMA SuccessorsInGrid ==
  ASSUME NEW edge, NEW item, item.x \in Nat, item.y \in Nat
  PROVE  /\ InGrid(edge, edges[edge].hypotheses, Successors(edge, item))
         /\ Len(Successors(edge, item)) <= 2
<1> DEFINE Visited(x, y) ==
             IF /\ x < Len(edges[edge].hypotheses) /\ y < Len(Translations(edge))
                /\ PositionKey(x, y) \notin edges[edge].seen
             THEN <<<<x, y>>>> ELSE <<>>
           In(s) == /\ s \in Seq(Nat \X Nat) /\ Len(s) <= 1
                    /\ \A n \in 1 .. Len(s) : /\ s[n][1] < Len(edges[edge].hypotheses)
                                              /\ s[n][2] < Len(Translations(edge))
<1>1. ASSUME NEW x \in Nat, NEW y \in Nat PROVE In(Visited(x, y))
  <2>1. CASE /\ x < Len(edges[edge].hypotheses) /\ y < Len(Translations(edge))
             /\ PositionKey(x, y) \notin edges[edge].seen
    <3>1. PICK s : s = <<<<x, y>>>>
      OBVIOUS
    <3>2. Visited(x, y) = s
      BY <2>1, <3>1
    <3> HIDE DEF Visited
    <3>3. s \in Seq(Nat \X Nat) /\ Len(s) = 1 /\ s[1][1] = x /\ s[1][2] = y
      BY <3>1
    <3> QED BY <2>1, <3>2, <3>3
  <2>2. CASE ~(/\ x < Len(edges[edge].hypotheses) /\ y < Len(Translations(edge))
               /\ PositionKey(x, y) \notin edges[edge].seen)
    <3>1. Visited(x, y) = <<>>
      BY <2>2
    <3> HIDE DEF Visited
    <3> QED BY <3>1
  <2> QED BY <2>1, <2>2
<1>2. PICK a, b, s : /\ a = Visited(item.x, item.y + 1) /\ b = Visited(item.x + 1, item.y)
                     /\ s = Successors(edge, item)
  OBVIOUS
<1>3. s = a \o b
  BY <1>2 DEF Successors
<1> HIDE DEF Visited, In
<1>4. In(a) /\ In(b)
  <2>1. item.y + 1 \in Nat /\ item.x + 1 \in Nat
    OBVIOUS
  <2> QED BY <1>1, <1>2, <2>1
<1>9. /\ a \in Seq(Nat \X Nat) /\ Len(a) <= 1 /\ b \in Seq(Nat \X Nat) /\ Len(b) <= 1
  BY <1>4 DEF In
<1>5. /\ s \in Seq(Nat \X Nat) /\ Len(a) \in 0 .. 1 /\ Len(b) \in 0 .. 1
      /\ Len(s) = Len(a) + Len(b)
  <2> DEFINE P == Nat \X Nat
  <2>1. a \in Seq(P) /\ b \in Seq(P) /\ Len(a) <= 1 /\ Len(b) <= 1
    BY <1>9
  <2> HIDE DEF P
  <2>2. s \in Seq(P) /\ Len(a) \in Nat /\ Len(b) \in Nat /\ Len(s) = Len(a) + Len(b)
    BY <1>3, <2>1
  <2>3. Len(a) \in 0 .. 1 /\ Len(b) \in 0 .. 1
    <3>1. PICK m, n : m = Len(a) /\ n = Len(b)
      OBVIOUS
    <3>2. m \in Nat /\ n \in Nat /\ m <= 1 /\ n <= 1
      BY <2>1, <2>2, <3>1
    <3>3. m \in 0 .. 1 /\ n \in 0 .. 1
      BY <3>2
    <3> QED BY <3>1, <3>3
  <2> QED BY <2>2, <2>3 DEF P
<1>6. /\ \A n \in 1 .. Len(a) : s[n] = a[n]
      /\ \A n \in 1 .. Len(b) : s[Len(a) + n] = b[n]
  BY <1>3, <1>9, Concatenation
<1>7. ASSUME NEW n \in 1 .. Len(s)
      PROVE  s[n][1] < Len(edges[edge].hypotheses) /\ s[n][2] < Len(Translations(edge))
  <2>1. CASE n <= Len(a)
    <3>1. n \in 1 .. Len(a)
      BY <1>5, <2>1
    <3> QED BY <1>4, <1>6, <3>1 DEF In
  <2>2. CASE ~(n <= Len(a))
    <3>1. PICK m : m = n - Len(a)
      OBVIOUS
    <3>2. m \in 1 .. Len(b) /\ n = Len(a) + m
      BY <1>5, <2>2, <3>1
    <3>3. s[n] = b[m]
      BY <1>6, <3>2
    <3> QED BY <1>4, <3>2, <3>3 DEF In
  <2> QED BY <2>1, <2>2
<1>8. InGrid(edge, edges[edge].hypotheses, s) /\ Len(s) <= 2
  <2>1. Len(s) <= 2
    <3>1. Len(a) \in 0 .. 1 /\ Len(b) \in 0 .. 1 /\ Len(s) = Len(a) + Len(b)
      BY <1>5
    <3>2. PICK l, m, n : l = Len(s) /\ m = Len(a) /\ n = Len(b)
      OBVIOUS
    <3>3. m \in 0 .. 1 /\ n \in 0 .. 1 /\ l = m + n
      BY <3>1, <3>2
    <3>4. l <= 2
      BY <3>3
    <3> QED BY <3>2, <3>4
  <2>2. InGrid(edge, edges[edge].hypotheses, s)
    BY <1>5, <1>7 DEF InGrid
  <2> QED BY <2>1, <2>2
<1> QED BY <1>2, <1>8

\* ProcessBestHypothesis: the best hypothesis of a container goes on the stack.
LEMMA ProcessedIInv ==
  ASSUME IInv, result = "running", options' = options, futureScore' = futureScore,
         current' = current, result' = result, popping' = popping, bcQueue' \subseteq bcQueue,
         NEW cov \in Accessor(current), ProcessBestHypothesis(cov)
  PROVE  /\ IInv' /\ Popped(current)' # {}
         /\ \A k : Popped(k) \subseteq Popped(k)'
<1>0. PICK c : c = current
  OBVIOUS
<1>20. PICK item, next, items, o :
        /\ item \in Tops(cov) /\ next = Successors(item.edge, item)
        /\ items = Items(item.edge, edges[item.edge].hypotheses, next)
        /\ o \in AddPruneCube(stacks[current], arcs, item.hypo)
        /\ Len(hypos) + 2 <= MaxHypos
        /\ stacks' = [stacks EXCEPT ![current] = o.stack]
        /\ arcs' = o.arcs
        /\ freed' = freed \cup o.freed
        /\ Created(items)
        /\ containers' = [containers EXCEPT
             ![cov].queue = (@ \ {item}) \cup ToSet(items),
             ![cov].insertions = IF o.inserted THEN @ + 1 ELSE @]
        /\ edges' = [edges EXCEPT ![item.edge].seen = @ \cup Keys(next)]
  <2>1. PICK item \in Tops(cov) :
          \E next \in {Successors(item.edge, item)} :
            \E items \in {Items(item.edge, edges[item.edge].hypotheses, next)} :
              \E o \in UNION {AddPruneCube(stack, arcs, item.hypo) : stack \in {stacks[current]}} :
                /\ Len(hypos) + 2 <= MaxHypos
                /\ stacks' = [stacks EXCEPT ![current] = o.stack]
                /\ arcs' = o.arcs
                /\ freed' = freed \cup o.freed
                /\ Created(items)
                /\ containers' = [containers EXCEPT
                     ![cov].queue = (@ \ {item}) \cup ToSet(items),
                     ![cov].insertions = IF o.inserted THEN @ + 1 ELSE @]
                /\ edges' = [edges EXCEPT ![item.edge].seen = @ \cup Keys(next)]
    BY DEF ProcessBestHypothesis
  <2>2. PICK next, items :
          /\ next = Successors(item.edge, item)
          /\ items = Items(item.edge, edges[item.edge].hypotheses, next)
          /\ \E o \in UNION {AddPruneCube(stack, arcs, item.hypo) : stack \in {stacks[current]}} :
                /\ Len(hypos) + 2 <= MaxHypos
                /\ stacks' = [stacks EXCEPT ![current] = o.stack]
                /\ arcs' = o.arcs
                /\ freed' = freed \cup o.freed
                /\ Created(items)
                /\ containers' = [containers EXCEPT
                     ![cov].queue = (@ \ {item}) \cup ToSet(items),
                     ![cov].insertions = IF o.inserted THEN @ + 1 ELSE @]
                /\ edges' = [edges EXCEPT ![item.edge].seen = @ \cup Keys(next)]
    BY <2>1
  <2>3. PICK o \in UNION {AddPruneCube(stack, arcs, item.hypo) : stack \in {stacks[current]}} :
                /\ Len(hypos) + 2 <= MaxHypos
                /\ stacks' = [stacks EXCEPT ![current] = o.stack]
                /\ arcs' = o.arcs
                /\ freed' = freed \cup o.freed
                /\ Created(items)
                /\ containers' = [containers EXCEPT
                     ![cov].queue = (@ \ {item}) \cup ToSet(items),
                     ![cov].insertions = IF o.inserted THEN @ + 1 ELSE @]
                /\ edges' = [edges EXCEPT ![item.edge].seen = @ \cup Keys(next)]
    BY <2>2
  <2>4. o \in AddPruneCube(stacks[current], arcs, item.hypo)
    BY <2>3
  <2> QED BY <2>1, <2>2, <2>3, <2>4
<1>1. o \in AddPruneCube(stacks[c], arcs, item.hypo) /\ stacks' = [stacks EXCEPT ![c] = o.stack]
  BY <1>0, <1>20
<1> DEFINE h == item.hypo
           edge == item.edge
<1>2. /\ NumberedInOrder /\ SentenceKept /\ StacksOwn /\ ContainersKept /\ EdgesKept /\ TurnsKept
      /\ c \in 0 .. SourceSize /\ cov \in DOMAIN containers /\ Cardinality(cov) = c
      /\ item \in containers[cov].queue
  BY <1>0, <1>20 DEF IInv, TurnsKept, Accessor, Tops
<1>3. /\ edge \in DOMAIN edges /\ Target(edge) = cov /\ item.x \in Nat /\ item.y \in Nat
      /\ h \in AllHypos /\ h.cov = cov /\ arcs[h.id] = {}
      /\ h.total \in Int /\ h.total >= NegInf
  BY <1>2 DEF ContainersKept, ItemKept
<1>4. h \in Queued
  BY <1>2 DEF Queued
<1>5. ItemsMade(edge, items) /\ Len(items) <= 2
  <2>1. InGrid(edge, edges[edge].hypotheses, next) /\ Len(next) <= 2
    BY <1>20, <1>3, SuccessorsInGrid
  <2>2. edges[edge].hypotheses \in Seq(edges[edge].candidates)
    BY <1>2, <1>3 DEF EdgesKept, EdgeKept
  <2> QED BY <1>20, <1>3, <2>1, <2>2, ItemsAreMade
<1> HIDE DEF h, edge
<1> DEFINE Q == (containers[cov].queue \ {item}) \cup ToSet(items)
           I == IF o.inserted THEN containers[cov].insertions + 1 ELSE containers[cov].insertions
           W == [containers[cov] EXCEPT !.queue = Q, !.insertions = I]
<1>6. /\ DOMAIN containers' = DOMAIN containers
      /\ containers' = [x \in DOMAIN containers' |-> containers'[x]]
      /\ containers'[cov] = [queue |-> containers'[cov].queue, hypotheses |-> containers'[cov].hypotheses,
                             insertions |-> containers'[cov].insertions]
      /\ containers'[cov].queue = Q
      /\ \A x \in DOMAIN containers \ {cov} : containers'[x] = containers[x]
  <2>1. /\ containers[cov] = [queue |-> containers[cov].queue, hypotheses |-> containers[cov].hypotheses,
                              insertions |-> containers[cov].insertions]
        /\ containers = [x \in DOMAIN containers |-> containers[x]]
    BY <1>2 DEF ContainersKept
  <2>2. containers' = [containers EXCEPT ![cov] = W]
    BY <1>20
  <2> HIDE DEF Q, I
  <2>3. W = [queue |-> Q, hypotheses |-> containers[cov].hypotheses, insertions |-> I]
    <3>1. PICK r, a, b, d, q, i :
            /\ r = containers[cov] /\ a = containers[cov].queue /\ b = containers[cov].hypotheses
            /\ d = containers[cov].insertions /\ q = Q /\ i = I
      OBVIOUS
    <3>2. r = [queue |-> a, hypotheses |-> b, insertions |-> d]
      BY <2>1, <3>1
    <3>3. [r EXCEPT !.queue = q, !.insertions = i] = [queue |-> q, hypotheses |-> b, insertions |-> i]
      <4> DEFINE x == [r EXCEPT !.queue = q]
      <4>1. x = [queue |-> q, hypotheses |-> b, insertions |-> d]
        BY <3>2
      <4>2. [r EXCEPT !.queue = q, !.insertions = i] = [x EXCEPT !.insertions = i]
        BY <3>2
      <4> HIDE DEF x
      <4>3. [x EXCEPT !.insertions = i] = [queue |-> q, hypotheses |-> b, insertions |-> i]
        BY <4>1
      <4> QED BY <4>2, <4>3
    <3> QED BY <3>1, <3>3
  <2> HIDE DEF W
  <2>4. containers'[cov] = W /\ DOMAIN containers' = DOMAIN containers
    BY <1>2, <2>1, <2>2
  <2> QED BY <1>2, <2>1, <2>2, <2>3, <2>4
<1> HIDE DEF I, W
<1>7. /\ DOMAIN edges' = DOMAIN edges
      /\ edges' = [x \in DOMAIN edges |-> edges'[x]]
      /\ edges'[edge] = [candidates |-> edges[edge].candidates, hypotheses |-> edges[edge].hypotheses,
                         seen |-> edges'[edge].seen, initialized |-> edges[edge].initialized]
      /\ \A x \in DOMAIN edges \ {edge} : edges'[x] = edges[x]
  <2>1. PICK keys : keys = edges[edge].seen \cup Keys(next)
    OBVIOUS
  <2> DEFINE V == [edges[edge] EXCEPT !.seen = keys]
  <2>2. edges' = [edges EXCEPT ![edge] = V]
    BY <1>20, <2>1 DEF edge
  <2>3. edges[edge] = [candidates |-> edges[edge].candidates, hypotheses |-> edges[edge].hypotheses,
                       seen |-> edges[edge].seen, initialized |-> edges[edge].initialized]
    BY <1>2, <1>3 DEF EdgesKept, EdgeKept
  <2>4. V = [candidates |-> edges[edge].candidates, hypotheses |-> edges[edge].hypotheses,
             seen |-> keys, initialized |-> edges[edge].initialized]
    BY <2>3
  <2> HIDE DEF V
  <2>5. edges = [x \in DOMAIN edges |-> edges[x]]
    BY <1>2 DEF EdgesKept
  <2>6. edges'[edge] = V /\ DOMAIN edges' = DOMAIN edges
    BY <1>3, <2>2, <2>5
  <2>7. edges'[edge].seen = keys
    BY <2>4, <2>6
  <2> QED BY <1>3, <2>2, <2>4, <2>5, <2>6, <2>7
<1>8. EdgesStay
  <2>1. /\ edges'[edge].hypotheses = edges[edge].hypotheses
        /\ edges'[edge].initialized = edges[edge].initialized
    BY <1>7
  <2>2. \A x \in DOMAIN edges :
          /\ edges[x] = [candidates |-> edges[x].candidates, hypotheses |-> edges[x].hypotheses,
                         seen |-> edges[x].seen, initialized |-> edges[x].initialized]
          /\ edges[x].hypotheses \in Seq(edges[x].candidates)
    BY <1>2 DEF EdgesKept, EdgeKept
  <2>3. /\ edges'[edge] = [candidates |-> edges[edge].candidates, hypotheses |-> edges'[edge].hypotheses,
                           seen |-> edges'[edge].seen, initialized |-> edges'[edge].initialized]
        /\ edges'[edge].hypotheses \in Seq(edges[edge].candidates)
    BY <1>3, <1>7, <2>1, <2>2
  <2>4. ASSUME NEW x \in DOMAIN edges, x # edge
        PROVE  /\ edges'[x] = [candidates |-> edges[x].candidates, hypotheses |-> edges'[x].hypotheses,
                               seen |-> edges'[x].seen, initialized |-> edges'[x].initialized]
               /\ edges'[x].hypotheses \in Seq(edges[x].candidates)
    BY <1>7, <2>2, <2>4
  <2> QED BY <1>7, <2>3, <2>4 DEF EdgesStay
<1>9. QueueStep(cov, edge, {item}, items)
  <2>1. Created(items) /\ {item} \subseteq containers[cov].queue
    BY <1>20, <1>2
  <2>2. Len(hypos) + Len(items) <= MaxHypos
    <3>1. Len(hypos) \in Int
      BY <1>2 DEF NumberedInOrder
    <3>2. Len(items) \in Int /\ Len(items) <= 2
      BY <1>5 DEF ItemsMade
    <3>3. Len(hypos) + 2 <= MaxHypos /\ MaxHypos \in Int
      BY <1>20, BoundAssumption
    <3> QED BY <3>1, <3>2, <3>3
  <2> QED BY <1>2, <1>3, <1>5, <1>6, <1>7, <2>1, <2>2 DEF QueueStep, Q
<1>10. TurnsKept'
  BY <1>0, <1>2, <1>6 DEF TurnsKept, Accessor
<1>11. CubeLeaves(stacks[c], arcs, FreedOf(c), Popped(c) \cup {i.hypo : i \in {item}}, o)
  <2>1. CubeConsistent(stacks[c], arcs, FreedOf(c), Popped(c))
    BY <1>2 DEF StacksOwn
  <2>2. h.cov \in Coverages
    <3>1. h.cov \in SUBSET Positions
      BY <1>2, <1>3 DEF SentenceKept, WellMade
    <3> QED BY <3>1, CoveragesAssumption
  <2>3. IsNew(h, Popped(c), arcs)
    <3>1. h.id \in DOMAIN arcs
      BY <1>2, <1>3, NumbersDiffer DEF NumberedInOrder
    <3>2. ASSUME NEW g \in Popped(c), g.id = h.id PROVE FALSE
      <4>1. g \in AllHypos /\ g \notin Queued
        BY DEF Popped
      <4>2. g = h
        BY <1>2, <1>3, <3>2, <4>1, NumbersDiffer
      <4> QED BY <1>4, <4>1, <4>2
    <3> QED BY <1>3, <3>1, <3>2 DEF IsNew
  <2>4. CubeLeaves(stacks[c], arcs, FreedOf(c), Popped(c) \cup {h}, o)
    BY <1>1, <1>3, <2>1, <2>2, <2>3, AddPruneCubeConsistent DEF h
  <2>5. {i.hypo : i \in {item}} = {h}
    BY DEF h
  <2> QED BY <2>4, <2>5
<1>12. IInv' /\ QueuesGive({item}, items)
  BY <1>0, <1>1, <1>20, <1>2, <1>8, <1>9, <1>10, <1>11, QueueStepIInv
<1>13. \A k : Popped(k) \subseteq Popped(k)'
  BY <1>12 DEF QueuesGive
<1>14. h \in Popped(c)'
  <2>1. h \in {i.hypo : i \in {item}}
    BY DEF h
  <2> QED BY <1>2, <1>3, <1>12, <2>1 DEF QueuesGive
<1>15. Popped(current)' = Popped(c)'
  BY <1>0 DEF Popped
<1> QED BY <1>12, <1>13, <1>14, <1>15

\* A container is popped from BCQueue.
LEMMA PopIInv ==
  ASSUME IInv, Pop
  PROVE  /\ IInv' /\ \A k : Popped(k) \subseteq Popped(k)'
         /\ (\E cov \in bcQueue : containers[cov].queue # {}) => Popped(current)' # {}
<1>1. PICK cov \in bcQueue :
        /\ \A other \in bcQueue : NotWorse(cov, other)
        /\ IF containers[cov].queue = {}
           THEN UNCHANGED <<hypos, stacks, arcs, freed, containers, edges>>
           ELSE ProcessBestHypothesis(cov)
        /\ bcQueue' = IF containers'[cov].queue = {} THEN bcQueue \ {cov} ELSE bcQueue
  BY DEF Pop
<1>2. /\ result = "running" /\ popping /\ result' = result /\ popping' = popping /\ current' = current
      /\ options' = options /\ futureScore' = futureScore /\ bcQueue' \subseteq bcQueue
      /\ TurnsKept /\ cov \in Accessor(current)
  BY <1>1 DEF Pop, sentence, IInv, TurnsKept
<1>3. CASE containers[cov].queue = {}
  <2>1. UNCHANGED <<hypos, stacks, arcs, freed, containers, edges>>
    BY <1>1, <1>3
  <2>2. TurnsKept'
    BY <1>2, <2>1 DEF TurnsKept, Accessor
  <2>3. IInv' /\ \A k : Popped(k)' = Popped(k)
    BY <1>2, <2>1, <2>2, StaysIInv
  <2>4. \A other \in bcQueue : containers[other].queue = {}
    <3>1. Tops(cov) = {}
      BY <1>3 DEF Tops
    <3> QED BY <1>1, <3>1 DEF NotWorse
  <2> QED BY <2>3, <2>4
<1>4. CASE containers[cov].queue # {}
  <2>1. ProcessBestHypothesis(cov)
    BY <1>1, <1>4
  <2> QED BY <1>2, <2>1, ProcessedIInv
<1> QED BY <1>3, <1>4

\* A container has put too few hypotheses on the stack.
LEMMA EnsureDiversityIInv ==
  ASSUME IInv, EnsureDiversity
  PROVE  /\ IInv' /\ \A k : Popped(k) \subseteq Popped(k)'
         /\ Popped(current)' # {}
<1>1. PICK cov \in TooFew : ProcessBestHypothesis(cov)
  BY DEF EnsureDiversity
<1>2. /\ result = "running" /\ result' = result /\ popping' = popping /\ current' = current
      /\ options' = options /\ futureScore' = futureScore /\ bcQueue' \subseteq bcQueue
      /\ cov \in Accessor(current)
  BY <1>1 DEF EnsureDiversity, sentence, TooFew
<1> QED BY <1>1, <1>2, ProcessedIInv

\* The time is up, all edges are initialised, or nothing happens.
LEMMA LoopStepsIInv ==
  ASSUME IInv, TimeOut \/ StartPopping \/ UNCHANGED vars
  PROVE  IInv' /\ \A k : Popped(k)' = Popped(k)
<1>1. /\ UNCHANGED <<options, futureScore, hypos, stacks, arcs, freed, containers, edges>>
      /\ current' = current /\ (result' = "done" <=> result = "done")
  BY DEF TimeOut, StartPopping, vars, sentence
<1>2. TurnsKept'
  <2>1. popping' \in BOOLEAN /\ (bcQueue' = bcQueue \/ bcQueue' = Accessor(current))
    BY DEF TimeOut, StartPopping, vars, IInv, TurnsKept
  <2> QED BY <1>1, <2>1 DEF IInv, TurnsKept, Accessor
<1> QED BY <1>1, <1>2, StaysIInv

\* What FinishStack does: the stack is pruned for the last time, and its
\* hypotheses are given to the edges that lead on from it.
TurnEnds(c, o, newEdges) ==
  /\ CubeLeaves(stacks[c], arcs, FreedOf(c), Popped(c), o)
  /\ stacks' = [stacks EXCEPT ![c] = o.stack] /\ arcs' = o.arcs /\ freed' = freed \cup o.freed
  /\ newEdges = UNION {ForwardEdges(cov) : cov \in {h.cov : h \in o.stack.hypos}}
  /\ containers' =
       [cov \in DOMAIN containers \cup {Target(edge) : edge \in newEdges} |->
          IF cov \in DOMAIN containers
          THEN [containers[cov] EXCEPT !.hypotheses = @ \cup {h \in o.stack.hypos : h.cov = cov}]
          ELSE NewContainer]
  /\ edges' =
       [edge \in DOMAIN edges \cup newEdges |->
          IF edge \in DOMAIN edges THEN edges[edge]
          ELSE [candidates |-> {h \in o.stack.hypos : h.cov = edge[1] /\ InReach(h, edge[2])},
                hypotheses |-> <<>>, seen |-> {}, initialized |-> FALSE]]

LEMMA FinishStackEnds ==
  ASSUME IInv, FinishStack, NEW c, c = current
  PROVE  \E o, newEdges : TurnEnds(c, o, newEdges)
<1>1. c \in 0 .. SourceSize /\ CubeConsistent(stacks[c], arcs, FreedOf(c), Popped(c)) /\ settings = stacks[c].settings
  BY DEF IInv, TurnsKept, StacksOwn
<1>2. settings.maxSize \in Nat \ {0}
  BY <1>1, SettingsTypes DEF CubeConsistent, IsStack
<1>3. PICK p \in PruneCubeToSize(stacks[c], arcs, settings.maxSize) :
        \E q \in CleanupArcList(p.stack, p.arcs) :
          /\ stacks' = [stacks EXCEPT ![c] = q.stack]
          /\ arcs' = q.arcs
          /\ freed' = freed \cup p.freed \cup q.freed
          /\ ForwardTodos(Forwarded(stacks[c], q.stack))
  BY DEF FinishStack
<1>4. PICK q \in CleanupArcList(p.stack, p.arcs) :
          /\ stacks' = [stacks EXCEPT ![c] = q.stack]
          /\ arcs' = q.arcs
          /\ freed' = freed \cup p.freed \cup q.freed
          /\ ForwardTodos(q.stack.hypos)
  BY <1>3 DEF Forwarded
<1> DEFINE o == Outcome(q.stack, q.arcs, p.freed \cup q.freed)
<1>5. CubeLeaves(stacks[c], arcs, FreedOf(c), Popped(c), o)
  BY <1>1, <1>2, CubeTurnConsistent
<1>6. o.stack = q.stack /\ o.arcs = q.arcs /\ o.freed = p.freed \cup q.freed
  BY DEF Outcome
<1> HIDE DEF o
<1>7. ForwardTodos(o.stack.hypos) /\ freed' = freed \cup o.freed
  BY <1>4, <1>6
<1>8. \E newEdges : TurnEnds(c, o, newEdges)
  BY <1>4, <1>5, <1>6, <1>7 DEF ForwardTodos, TurnEnds
<1> QED BY <1>8

\* The queues stay when a turn ends.
LEMMA TurnEndsQueues ==
  ASSUME IInv, NEW c, NEW o, NEW newEdges, TurnEnds(c, o, newEdges), hypos' = hypos
  PROVE  /\ AllHypos' = AllHypos /\ Queued' = Queued /\ \A k : Popped(k)' = Popped(k)
         /\ DOMAIN containers' = DOMAIN containers \cup {Target(edge) : edge \in newEdges}
         /\ containers' = [cov \in DOMAIN containers' |-> containers'[cov]]
         /\ \A cov \in DOMAIN containers' :
              /\ containers'[cov] = [queue |-> containers'[cov].queue,
                                     hypotheses |-> containers'[cov].hypotheses,
                                     insertions |-> containers'[cov].insertions]
              /\ containers'[cov].queue = IF cov \in DOMAIN containers THEN containers[cov].queue ELSE {}
<1> DEFINE D == DOMAIN containers \cup {Target(edge) : edge \in newEdges}
           Given(cov) == {h \in o.stack.hypos : h.cov = cov}
<1>1. containers' = [cov \in D |-> IF cov \in DOMAIN containers
                                   THEN [containers[cov] EXCEPT !.hypotheses = @ \cup Given(cov)]
                                   ELSE NewContainer]
  BY DEF TurnEnds
<1> HIDE DEF D, Given
<1>2. DOMAIN containers' = D /\ containers' = [cov \in DOMAIN containers' |-> containers'[cov]]
  BY <1>1
<1>3. ASSUME NEW cov \in D
      PROVE  /\ containers'[cov] = [queue |-> containers'[cov].queue,
                                    hypotheses |-> containers'[cov].hypotheses,
                                    insertions |-> containers'[cov].insertions]
             /\ containers'[cov].queue = IF cov \in DOMAIN containers THEN containers[cov].queue ELSE {}
  <2>1. CASE cov \in DOMAIN containers
    <3>1. containers[cov] = [queue |-> containers[cov].queue, hypotheses |-> containers[cov].hypotheses,
                             insertions |-> containers[cov].insertions]
      BY <2>1 DEF IInv, ContainersKept
    <3> DEFINE G == containers[cov].hypotheses \cup Given(cov)
               W == [containers[cov] EXCEPT !.hypotheses = G]
    <3>2. containers'[cov] = W
      BY <1>1, <2>1
    <3> HIDE DEF G
    <3>3. W = [queue |-> containers[cov].queue, hypotheses |-> G, insertions |-> containers[cov].insertions]
      BY <3>1
    <3> HIDE DEF W
    <3> QED BY <2>1, <3>2, <3>3
  <2>2. CASE cov \notin DOMAIN containers
    <3>1. containers'[cov] = NewContainer
      BY <1>1, <2>2
    <3> QED BY <2>2, <3>1 DEF NewContainer
  <2> QED BY <2>1, <2>2
<1>4. AllHypos' = AllHypos
  BY DEF AllHypos
<1>5. Queued' = Queued
  <2>1. \A h : h \in Queued' <=> \E cov \in D : \E item \in containers'[cov].queue : h = item.hypo
    BY <1>2 DEF Queued
  <2>2. \A h : h \in Queued <=> \E cov \in DOMAIN containers :
                                   \E item \in containers[cov].queue : h = item.hypo
    BY DEF Queued
  <2>3. ASSUME NEW h \in Queued' PROVE h \in Queued
    <3>1. PICK cov \in D : \E item \in containers'[cov].queue : h = item.hypo
      BY <2>1
    <3> QED BY <1>3, <2>2, <3>1
  <2>4. ASSUME NEW h \in Queued PROVE h \in Queued'
    <3>1. PICK cov \in DOMAIN containers : \E item \in containers[cov].queue : h = item.hypo
      BY <2>2
    <3>2. cov \in D
      BY <3>1 DEF D
    <3> QED BY <1>3, <2>1, <3>1, <3>2
  <2> QED BY <2>3, <2>4
<1>6. \A k : Popped(k)' = Popped(k)
  BY <1>4, <1>5 DEF Popped
<1> QED BY <1>2, <1>3, <1>4, <1>5, <1>6 DEF D

\* The turn of a stack ends.
LEMMA FinishStackIInv ==
  ASSUME IInv, FinishStack
  PROVE  IInv' /\ \A k : Popped(k)' = Popped(k)
<1>0. PICK c : c = current
  OBVIOUS
<1>1. /\ NumberedInOrder /\ SentenceKept /\ StacksOwn
      /\ ContainersKept /\ EdgesKept /\ TurnsKept /\ ExtendedInTurn
      /\ c \in 0 .. SourceSize /\ result = "running" /\ hypos' = hypos
      /\ options' = options /\ futureScore' = futureScore
      /\ popping' = FALSE /\ bcQueue' = {}
      /\ IF c = SourceSize THEN result' = "done" /\ current' = c ELSE current' = c + 1 /\ result' = result
  BY <1>0 DEF IInv, TurnsKept, FinishStack, sentence
<1>2. PICK o, newEdges : TurnEnds(c, o, newEdges)
  BY <1>0, FinishStackEnds
<1>3. /\ AllHypos' = AllHypos /\ Queued' = Queued /\ \A k : Popped(k)' = Popped(k)
      /\ DOMAIN containers' = DOMAIN containers \cup {Target(edge) : edge \in newEdges}
      /\ containers' = [cov \in DOMAIN containers' |-> containers'[cov]]
      /\ \A cov \in DOMAIN containers' :
           /\ containers'[cov] = [queue |-> containers'[cov].queue,
                                  hypotheses |-> containers'[cov].hypotheses,
                                  insertions |-> containers'[cov].insertions]
           /\ containers'[cov].queue = IF cov \in DOMAIN containers THEN containers[cov].queue ELSE {}
  BY <1>1, <1>2, TurnEndsQueues
<1>4. StackStep(c, o)
  <2>1. \A g, h \in AllHypos' : g.id = h.id => g = h
    BY <1>1, <1>3, NumbersDiffer
  <2> QED BY <1>2, <1>3, <2>1 DEF StackStep, TurnEnds
<1>5. /\ StacksOwn' /\ Elsewhere(arcs, arcs', Popped(c)')
      /\ \A j \in 0 .. SourceSize : j # c => stacks'[j] = stacks[j]
  BY <1>1, <1>4, StepStacksOwn
<1>6. NumberedInOrder' /\ SentenceKept'
  <2>1. HyposOf(<<>>) = {} /\ Len(<<>>) = 0
    BY DEF HyposOf
  <2>2. \A h \in AllHypos : h.id \in 1 .. Len(hypos) /\ h.id \in 1 .. MaxHypos
    BY <1>1, NumbersDiffer
  <2>3. \A g, h \in AllHypos : g.id = h.id => g = h
    BY <1>1, NumbersDiffer
  <2>4. Len(hypos) = Len(hypos) + 0
    BY <1>1 DEF NumberedInOrder
  <2> DEFINE none == <<>>
  <2>5. HyposOf(none) = {} /\ Len(none) = 0
    BY <2>1
  <2> HIDE DEF none
  <2>6. HyposGrow(none)
    BY <1>1, <1>3, <2>2, <2>3, <2>4, <2>5 DEF HyposGrow, NumberedInOrder
  <2>7. NumberedInOrder'
    BY <1>1, <1>5, <2>6, StepNumbered
  <2>8. SentenceKept'
    BY <1>1, <2>5, <2>6, StepSentenceKept
  <2> QED BY <2>7, <2>8
<1>7. \A k \in 0 .. SourceSize : Finished(k) => Finished(k)' /\ stacks'[k] = stacks[k]
  <2>1. ASSUME NEW k \in 0 .. SourceSize, Finished(k) PROVE k # c /\ Finished(k)'
    <3>1. k < c
      BY <1>0, <1>1, <2>1 DEF Finished
    <3>2. k < current'
      BY <1>1, <3>1, SourceSizeAssumption
    <3> QED BY <1>1, <3>1, <3>2, SourceSizeAssumption DEF Finished
  <2> QED BY <1>5, <2>1
<1>8. Finished(c)'
  <2>1. c < c + 1
    BY <1>1, SourceSizeAssumption
  <2> QED BY <1>1, <2>1 DEF Finished
<1>9. TurnsKept'
  <2>1. current' \in 0 .. SourceSize
    BY <1>1, SourceSizeAssumption
  <2> QED BY <1>1, <2>1 DEF TurnsKept
<1>10. /\ DOMAIN edges' = DOMAIN edges \cup newEdges
       /\ edges' = [edge \in DOMAIN edges' |-> edges'[edge]]
       /\ \A edge \in DOMAIN edges : edges'[edge] = edges[edge]
       /\ \A edge \in newEdges : edge \in DOMAIN edges \/
            edges'[edge] = [candidates |-> {h \in o.stack.hypos : h.cov = edge[1] /\ InReach(h, edge[2])},
                            hypotheses |-> <<>>, seen |-> {}, initialized |-> FALSE]
  BY <1>2 DEF TurnEnds
<1>11. ContainersKept'
  <2>1. ASSUME NEW cov \in DOMAIN containers', NEW item \in containers'[cov].queue
        PROVE  ItemKept(cov, item)'
    <3>1. cov \in DOMAIN containers /\ item \in containers[cov].queue
      BY <1>3, <2>1
    <3>2. ItemKept(cov, item) /\ item.hypo \in Queued
      BY <1>1, <3>1 DEF ContainersKept, Queued
    <3>3. \A g \in Popped(c)' : g.id # item.hypo.id
      <4>1. \A g \in Popped(c)' : g \in AllHypos /\ g \notin Queued
        BY <1>3 DEF Popped
      <4> QED BY <1>1, <3>2, <4>1, NumbersDiffer DEF ItemKept
    <3>4. item.hypo.id \in DOMAIN arcs
      BY <1>1, <3>2, NumbersDiffer DEF ItemKept, NumberedInOrder
    <3>5. arcs'[item.hypo.id] = {}
      BY <1>5, <3>2, <3>3, <3>4 DEF Elsewhere, ItemKept
    <3> QED BY <1>3, <1>10, <3>2, <3>5 DEF ItemKept
  <2>2. ASSUME NEW cov \in DOMAIN containers',
               NEW a \in containers'[cov].queue, NEW b \in containers'[cov].queue, a.hypo = b.hypo
        PROVE  a = b
    <3>1. cov \in DOMAIN containers /\ a \in containers[cov].queue /\ b \in containers[cov].queue
      BY <1>3, <2>2
    <3> QED BY <1>1, <2>2, <3>1 DEF ContainersKept
  <2> QED BY <1>3, <2>1, <2>2 DEF ContainersKept
<1>12. EdgesKept'
  <2>1. ASSUME NEW edge \in DOMAIN edges PROVE EdgeKept(edge)'
    <3>1. EdgeKept(edge) /\ edges'[edge] = edges[edge]
      BY <1>1, <1>10 DEF EdgesKept
    <3>2. Cardinality(edge[1]) \in 0 .. SourceSize
      BY <3>1, PositionsFinite DEF EdgeKept
    <3>3. Finished(Cardinality(edge[1]))' /\ stacks'[Cardinality(edge[1])] = stacks[Cardinality(edge[1])]
      BY <1>7, <3>1, <3>2 DEF EdgeKept
    <3>4. edge \in ForwardEdges(edge[1])'
      BY <1>1, <3>1, ForwardEdgesStay DEF EdgeKept
    <3> QED BY <1>3, <3>1, <3>3, <3>4 DEF EdgeKept
  <2>2. ASSUME NEW edge \in newEdges, edge \notin DOMAIN edges PROVE EdgeKept(edge)'
    <3>1. PICK h \in o.stack.hypos : edge \in ForwardEdges(h.cov)
      BY <1>2 DEF TurnEnds
    <3>2. stacks'[c] = o.stack
      BY <1>1, <1>2 DEF TurnEnds, StacksOwn
    <3>3. h.cov \in SUBSET Positions /\ Cardinality(h.cov) = c
      <4>1. h \in Popped(c)
        BY <1>2, <3>1 DEF TurnEnds, CubeLeaves, CubeConsistent, Owned
      <4> QED BY <1>1, <4>1 DEF Popped, SentenceKept, WellMade
    <3>4. edge[1] = h.cov
      BY <3>1, CandidateSpan
    <3>5. Target(edge) \in DOMAIN containers'
      BY <1>3
    <3> DEFINE S == {g \in o.stack.hypos : g.cov = edge[1] /\ InReach(g, edge[2])}
    <3>6. edges'[edge] = [candidates |-> S, hypotheses |-> <<>>, seen |-> {}, initialized |-> FALSE]
      BY <1>10, <2>2
    <3>7. S \subseteq {g \in stacks'[Cardinality(edge[1])].hypos : g.cov = edge[1] /\ InReach(g, edge[2])}
      BY <3>2, <3>3, <3>4
    <3> HIDE DEF S
    <3>8. <<>> \in Seq(S)
      OBVIOUS
    <3>9. /\ edges'[edge] = [candidates |-> edges'[edge].candidates, hypotheses |-> edges'[edge].hypotheses,
                             seen |-> edges'[edge].seen, initialized |-> edges'[edge].initialized]
          /\ edges'[edge].candidates = S /\ edges'[edge].hypotheses = <<>>
      BY <3>6
    <3>10. edge \in ForwardEdges(edge[1])' /\ Finished(Cardinality(edge[1]))'
      BY <1>1, <1>8, <3>1, <3>3, <3>4, ForwardEdgesStay
    <3> QED BY <3>3, <3>4, <3>5, <3>7, <3>8, <3>9, <3>10 DEF EdgeKept
  <2> QED BY <1>10, <2>1, <2>2 DEF EdgesKept
<1>13. ExtendedInTurn'
  BY <1>1, <1>3, <1>7 DEF ExtendedInTurn
<1> QED BY <1>3, <1>5, <1>6, <1>9, <1>11, <1>12, <1>13 DEF IInv

\* The seed is on the first stack.
LEMMA SeedOnStack ==
  ASSUME NEW option \in Settings, NEW lists, lists = [i \in 1 .. MaxHypos |-> {}]
  PROVE  /\ CubeConsistent(Inserted(EmptyStack(option), Seed), lists, {}, {Seed})
         /\ Inserted(EmptyStack(option), Seed).settings = option
<1> DEFINE s == EmptyStack(option)
           out == {}
           e == Inserted([s EXCEPT !.hypos = @ \ out], Seed)
<1>1. /\ s = [hypos |-> s.hypos, best |-> s.best, worst |-> s.worst,
              covWorst |-> s.covWorst, settings |-> s.settings]
      /\ s.hypos = {} /\ s.settings = option
  BY DEF EmptyStack
<1>2. Seed.id = 1 /\ Seed.total = 0 /\ Seed.cov \in Coverages /\ Seed.total \in Int /\ Seed.total >= NegInf
  BY CoveragesAssumption, NegInfAssumption DEF Seed
<1>3. /\ lists = [i \in DOMAIN lists |-> lists[i]] /\ 1 \in DOMAIN lists
      /\ \A i \in DOMAIN lists : lists[i] = {}
  BY BoundAssumption
<1>4. CubeConsistent(s, lists, {}, {})
  BY <1>3, CubeEmpty
<1> HIDE DEF s, e
<1>5. IsNew(Seed, {}, lists)
  BY <1>2, <1>3 DEF IsNew
<1>6. e = Inserted(s, Seed)
  <2>1. [s EXCEPT !.hypos = @ \ out] = s
    <3> DEFINE T == s.hypos \ out
    <3>1. T = s.hypos
      OBVIOUS
    <3> HIDE DEF T
    <3>2. [s EXCEPT !.hypos = T] = s
      BY <1>1, <3>1
    <3> QED BY <3>2 DEF T
  <2> QED BY <2>1 DEF e
<1>7. CubeTakes(e, s, out, Seed, {})
  <2>1. IsStack(s) /\ s.worst <= s.best /\ BestHeld(s, {})
    BY <1>4 DEF CubeConsistent
  <2>2. out \in SUBSET s.hypos /\ \A g \in out : Beats(Seed, g)
    OBVIOUS
  <2>3. s.hypos \subseteq {} /\ \A g \in {} : g.total \in Int
    BY <1>1
  <2> HIDE DEF out
  <2> QED BY <1>2, <2>1, <2>2, <2>3, CubeInserted DEF e
<1>8. /\ IsStack(e) /\ e.worst <= e.best /\ BestHeld(e, {Seed})
      /\ e.settings = option /\ e.hypos = {Seed}
  <2>1. {} \cup {Seed} = {Seed}
    OBVIOUS
  <2> QED BY <1>1, <1>7, <2>1 DEF CubeTakes
<1>9. Owned({Seed}, lists, {}, {Seed}) /\ Numbered({Seed}, lists) /\ Scored({Seed})
  BY <1>2, <1>3 DEF Owned, ArcsOf, Numbered, Scored
<1>10. CubeConsistent(e, lists, {}, {Seed})
  BY <1>3, <1>8, <1>9 DEF CubeConsistent
<1> QED BY <1>6, <1>8, <1>10 DEF s

\* At the start the seed is all there is.
LEMMA InitIInv ==
  ASSUME Init
  PROVE  IInv /\ Popped(0) # {}
<1>1. /\ hypos = <<Seed>> /\ arcs = [i \in 1 .. MaxHypos |-> {}] /\ freed = {} /\ current = 0
      /\ popping = TRUE /\ bcQueue = {} /\ result = "running"
      /\ containers = [cov \in {{}} |-> NewContainer] /\ edges = <<>>
  BY DEF Init
<1>2. Len(hypos) = 1 /\ AllHypos = {Seed} /\ hypos[1] = Seed /\ hypos \in Seq({Seed})
  BY <1>1 DEF AllHypos
<1>3. Seed.id = 1 /\ Seed.prev = 0 /\ Seed.cov = {} /\ Cardinality(Seed.cov) = 0
  <2>1. Cardinality({}) = 0
    BY FS_EmptySet
  <2> QED BY <2>1 DEF Seed
<1>4. NumberedInOrder
  BY <1>1, <1>2, <1>3, BoundAssumption DEF NumberedInOrder
<1>5. ContainersKept /\ Queued = {}
  BY <1>1 DEF ContainersKept, NewContainer, Queued
<1>6. Popped(0) = {Seed} /\ \A k \in 0 .. SourceSize : FreedOf(k) = {} /\ (k # 0 => Popped(k) = {})
  BY <1>1, <1>2, <1>3, <1>5 DEF Popped, FreedOf
<1>7. StacksOwn
  <2>1. PICK option \in Settings :
          stacks = [k \in 0 .. SourceSize |->
                      IF k = 0 THEN Inserted(EmptyStack(option), Seed) ELSE EmptyStack(option)]
    BY DEF Init
  <2> DEFINE first == Inserted(EmptyStack(option), Seed)
  <2>2. first.settings = option /\ CubeConsistent(first, arcs, {}, {Seed})
    BY <1>1, SeedOnStack
  <2>3. EmptyStack(option).settings = option /\ CubeConsistent(EmptyStack(option), arcs, {}, {})
    <3>1. arcs = [i \in DOMAIN arcs |-> arcs[i]] /\ \A i \in DOMAIN arcs : arcs[i] = {}
      BY <1>1
    <3> QED BY <3>1, CubeEmpty DEF EmptyStack
  <2>4. 0 \in 0 .. SourceSize /\ SourceSize \in 0 .. SourceSize /\ SourceSize # 0
    BY SourceSizeAssumption
  <2> HIDE DEF first
  <2>5. /\ stacks = [k \in 0 .. SourceSize |-> stacks[k]]
        /\ stacks[0] = first /\ \A k \in 0 .. SourceSize \ {0} : stacks[k] = EmptyStack(option)
    <3> DEFINE initial == [k \in 0 .. SourceSize |-> IF k = 0 THEN first ELSE EmptyStack(option)]
    <3>1. stacks = initial
      BY <2>1 DEF first
    <3>2. /\ initial = [k \in 0 .. SourceSize |-> initial[k]]
          /\ initial[0] = first /\ \A k \in 0 .. SourceSize \ {0} : initial[k] = EmptyStack(option)
      BY <2>4
    <3> HIDE DEF initial
    <3> QED BY <3>1, <3>2
  <2>6. settings = option
    BY <2>3, <2>4, <2>5 DEF settings
  <2>7. ASSUME NEW k \in 0 .. SourceSize
        PROVE  CubeConsistent(stacks[k], arcs, FreedOf(k), Popped(k)) /\ stacks[k].settings = settings
    BY <1>6, <2>2, <2>3, <2>5, <2>6
  <2> QED BY <1>1, <2>5, <2>7 DEF StacksOwn
<1>8. ExtendedInTurn
  BY <1>2, <1>3 DEF ExtendedInTurn
<1>9. SentenceKept
  <2>1. options \in OptionLists /\ futureScore = FutureScoreMatrix(OptionScoresOf(options))
    BY DEF Init
  <2> QED BY <1>2, <2>1, SeedWellMade DEF SentenceKept
<1>10. EdgesKept
  BY <1>1 DEF EdgesKept
<1>11. TurnsKept
  <2>1. current \in 0 .. SourceSize
    BY <1>1, SourceSizeAssumption
  <2> QED BY <1>1, <2>1 DEF TurnsKept
<1>12. Popped(0) # {}
  BY <1>6
<1> QED BY <1>4, <1>5, <1>7, <1>8, <1>9, <1>10, <1>11, <1>12 DEF IInv

\* Every step.
LEMMA StepIInv ==
  ASSUME IInv, [Next]_vars
  PROVE  IInv'
BY InitializeEdgeIInv, PopIInv, EnsureDiversityIInv, LoopStepsIInv, FinishStackIInv DEF Next

\* The inductive invariant.
THEOREM CubeSearchInvariant == Spec => []IInv
<1>1. Init => IInv
  BY InitIInv
<1>2. IInv /\ [Next]_vars => IInv'
  BY StepIInv
<1> QED BY <1>1, <1>2, PTL DEF Spec

-----------------------------------------------------------------------------
(* The theorems *)

\* Only a hypothesis on a stack has arcs.
LEMMA ArcsOfStacked ==
  ASSUME IInv, NEW i \in DOMAIN arcs, NEW h \in arcs[i]
  PROVE  \E k \in 0 .. SourceSize :
           /\ i \in 1 .. Len(hypos) /\ hypos[i] \in stacks[k].hypos /\ hypos[i].id = i
           /\ h \in ArcsOf(stacks[k].hypos, arcs)
<1>1. NumberedInOrder /\ SentenceKept /\ StacksOwn /\ ContainersKept
  BY DEF IInv
<1>2. i \in 1 .. Len(hypos)
  <2>1. i \in 1 .. MaxHypos /\ ~(i > Len(hypos)) /\ Len(hypos) \in Nat
    BY <1>1 DEF NumberedInOrder
  <2> QED BY <2>1, BoundAssumption
<1> DEFINE g == hypos[i]
           k == Cardinality(g.cov)
<1>3. g \in AllHypos /\ g.id = i
  BY <1>1, <1>2 DEF AllHypos, NumberedInOrder
<1>4. g \notin Queued
  <2> SUFFICES ASSUME g \in Queued PROVE FALSE
    OBVIOUS
  <2>1. PICK cov \in DOMAIN containers : \E item \in containers[cov].queue : g = item.hypo
    BY <1>1, QueuedItems
  <2>2. arcs[g.id] = {}
    BY <1>1, <2>1 DEF ContainersKept, ItemKept
  <2> QED BY <1>3, <2>2
<1>5. k \in 0 .. SourceSize
  BY <1>1, <1>3, PositionsFinite DEF SentenceKept, WellMade
<1>6. g \in Popped(k)
  BY <1>3, <1>4 DEF Popped
<1>7. Owned(stacks[k].hypos, arcs, FreedOf(k), Popped(k))
  BY <1>1, <1>5 DEF StacksOwn, CubeConsistent
<1> HIDE DEF k, g
<1>8. g \in stacks[k].hypos
  BY <1>3, <1>6, <1>7 DEF Owned
<1>9. h \in ArcsOf(stacks[k].hypos, arcs)
  BY <1>3, <1>8 DEF ArcsOf
<1> QED BY <1>2, <1>3, <1>5, <1>8, <1>9 DEF g

\* The invariant gives every hypothesis one owner.
LEMMA OneOwner ==
  ASSUME IInv, NEW h \in AllHypos
  PROVE  \E owner :
           {<<"queue", cov>> : cov \in {cov \in DOMAIN containers :
                                          \E item \in containers[cov].queue : item.hypo = h}}
           \cup {<<"stack", k>> : k \in {k \in 0 .. SourceSize : h \in stacks[k].hypos}}
           \cup {<<"arc", i>> : i \in {i \in DOMAIN arcs : h \in arcs[i]}}
           \cup (IF h \in freed THEN {<<"freed">>} ELSE {}) = {owner}
<1> DEFINE Q == {cov \in DOMAIN containers : \E item \in containers[cov].queue : item.hypo = h}
           S == {k \in 0 .. SourceSize : h \in stacks[k].hypos}
           A == {i \in DOMAIN arcs : h \in arcs[i]}
           F == IF h \in freed THEN {<<"freed">>} ELSE {}
           k == Cardinality(h.cov)
<1>1. NumberedInOrder /\ SentenceKept /\ StacksOwn /\ ContainersKept
  BY DEF IInv
<1>2. k \in 0 .. SourceSize
  BY <1>1, PositionsFinite DEF SentenceKept, WellMade
<1>3. \A j \in 0 .. SourceSize : \A g \in stacks[j].hypos \cup ArcsOf(stacks[j].hypos, arcs) :
        g \notin Queued /\ Cardinality(g.cov) = j /\ g \notin freed
  BY <1>1, StackedPopped
<1>4. \A i \in A : \E j \in 0 .. SourceSize :
        /\ hypos[i] \in stacks[j].hypos /\ hypos[i].id = i
        /\ h \in ArcsOf(stacks[j].hypos, arcs)
  BY ArcsOfStacked
<1>5. Owned(stacks[k].hypos, arcs, FreedOf(k), Popped(k))
  BY <1>1, <1>2 DEF StacksOwn, CubeConsistent
<1>6. S \subseteq {k} /\ (h \in stacks[k].hypos => S = {k})
  BY <1>2, <1>3
<1>7. \A i \in A : /\ hypos[i] \in stacks[k].hypos /\ hypos[i].id = i
                   /\ h \in ArcsOf(stacks[k].hypos, arcs)
  BY <1>3, <1>4
<1>8. Q # {} <=> h \in Queued
  BY <1>1, QueuedItems
<1> HIDE DEF k
<1>9. CASE h \in Queued
  <2>1. S = {} /\ A = {} /\ F = {}
    BY <1>1, <1>2, <1>3, <1>6, <1>7, <1>9 DEF StacksOwn
  <2>2. Q = {h.cov}
    <3>1. \A cov \in Q : cov = h.cov
      BY <1>1 DEF ContainersKept, ItemKept
    <3> QED BY <1>8, <1>9, <3>1
  <2> HIDE DEF Q, S, A, F
  <2>3. {<<"queue", cov>> : cov \in Q} \cup {<<"stack", j>> : j \in S} \cup {<<"arc", i>> : i \in A} \cup F
          = {<<"queue", h.cov>>}
    BY <2>1, <2>2
  <2> QED BY <2>3 DEF Q, S, A, F
<1>10. CASE h \notin Queued
  <2>1. Q = {}
    BY <1>8, <1>10
  <2>2. h \in stacks[k].hypos \cup ArcsOf(stacks[k].hypos, arcs) \cup FreedOf(k)
    <3>1. h \in Popped(k)
      BY <1>10 DEF Popped, k
    <3> QED BY <1>5, <3>1 DEF Owned
  <2>3. CASE h \in stacks[k].hypos
    <3>1. S = {k} /\ A = {} /\ F = {}
      BY <1>2, <1>3, <1>5, <1>6, <1>7, <2>3 DEF Owned
    <3> HIDE DEF Q, S, A, F
    <3>2. {<<"queue", cov>> : cov \in Q} \cup {<<"stack", j>> : j \in S} \cup {<<"arc", i>> : i \in A} \cup F
            = {<<"stack", k>>}
      BY <2>1, <3>1
    <3> QED BY <3>2 DEF Q, S, A, F
  <2>4. CASE h \in ArcsOf(stacks[k].hypos, arcs)
    <3>1. PICK g \in stacks[k].hypos : h \in arcs[g.id]
      BY <2>4 DEF ArcsOf
    <3>2. g.id \in DOMAIN arcs
      <4>1. g \in AllHypos
        BY <1>1, <1>2, <3>1, StackedPopped
      <4> QED BY <1>1, <4>1, NumbersDiffer DEF NumberedInOrder
    <3>3. A = {g.id}
      <4>1. ASSUME NEW i \in A PROVE i = g.id
        <5>1. hypos[i] \in stacks[k].hypos /\ hypos[i].id = i /\ h \in arcs[hypos[i].id]
          BY <1>7
        <5>2. hypos[i] = g
          BY <1>5, <3>1, <5>1 DEF Owned
        <5> QED BY <5>1, <5>2
      <4>2. g.id \in A
        BY <3>1, <3>2
      <4> QED BY <4>1, <4>2
    <3>4. S = {} /\ F = {}
      BY <1>2, <1>3, <1>5, <1>6, <2>4 DEF Owned
    <3> HIDE DEF Q, S, A, F
    <3>5. {<<"queue", cov>> : cov \in Q} \cup {<<"stack", j>> : j \in S} \cup {<<"arc", i>> : i \in A} \cup F
            = {<<"arc", g.id>>}
      BY <2>1, <3>3, <3>4
    <3> QED BY <3>5 DEF Q, S, A, F
  <2>5. CASE h \in FreedOf(k)
    <3>1. h \in freed /\ F = {<<"freed">>}
      BY <2>5 DEF FreedOf
    <3>2. S = {} /\ A = {}
      BY <1>2, <1>3, <1>6, <1>7, <3>1
    <3> HIDE DEF Q, S, A, F
    <3>3. {<<"queue", cov>> : cov \in Q} \cup {<<"stack", j>> : j \in S} \cup {<<"arc", i>> : i \in A} \cup F
            = {<<"freed">>}
      BY <2>1, <3>1, <3>2
    <3> QED BY <3>3 DEF Q, S, A, F
  <2> QED BY <2>2, <2>3, <2>4, <2>5
<1> QED BY <1>9, <1>10

\* Whatever a step deletes, keeps or forgets: every hypothesis has exactly one
\* owner that will delete it (the queues of ~BitmapContainer, a stack, an arc list),
\* or it is deleted; and what is in use points to nothing that was deleted.
THEOREM HypothesesOwnedOnce == Spec => []OwnedOnce
<1>1. IInv => OwnedOnce
  <2> SUFFICES ASSUME IInv PROVE OwnedOnce
    OBVIOUS
  <2>1. NumberedInOrder /\ StacksOwn /\ EdgesKept /\ ExtendedInTurn /\ ContainersKept
    BY DEF IInv
  <2>2. ToSet(hypos) = AllHypos
    BY <2>1 DEF NumberedInOrder, ToSet, AllHypos
  <2>3. OnEdges \cap freed = {}
    <3> SUFFICES ASSUME NEW edge \in DOMAIN edges, NEW h \in edges[edge].candidates PROVE h \notin freed
      BY DEF OnEdges
    <3>1. Cardinality(edge[1]) \in 0 .. SourceSize /\ h \in stacks[Cardinality(edge[1])].hypos
      BY <2>1, PositionsFinite DEF EdgesKept, EdgeKept
    <3> QED BY <2>1, <3>1, StackedPopped
  <2>4. ASSUME NEW h \in Live \cup Queued, h.prev # 0 PROVE hypos[h.prev] \notin freed
    <3>1. h \in AllHypos
      <4>1. CASE h \in Live
        BY <2>1, <4>1, StackedPopped DEF Live
      <4>2. CASE h \in Queued
        BY <2>1, <4>2, QueuedItems
      <4> QED BY <4>1, <4>2
    <3>2. PICK k \in 0 .. SourceSize : hypos[h.prev] \in stacks[k].hypos
      BY <2>1, <2>4, <3>1 DEF ExtendedInTurn
    <3> QED BY <2>1, <3>2, StackedPopped
  <2>5. \A h \in ToSet(hypos) :
          Cardinality({<<"queue", cov>> : cov \in {cov \in DOMAIN containers :
                                                     \E item \in containers[cov].queue : item.hypo = h}}
                      \cup {<<"stack", k>> : k \in {k \in 0 .. SourceSize : h \in stacks[k].hypos}}
                      \cup {<<"arc", i>> : i \in {i \in DOMAIN arcs : h \in arcs[i]}}
                      \cup (IF h \in freed THEN {<<"freed">>} ELSE {})) = 1
    BY <2>2, OneOwner, FS_Singleton
  <2> QED BY <2>3, <2>4, <2>5 DEF OwnedOnce
<1> QED BY <1>1, CubeSearchInvariant, PTL

-----------------------------------------------------------------------------
(* The search goes on *)

\* A stack has hypotheses if any was popped for it.
LEMMA StackNotEmpty ==
  ASSUME StacksOwn, NEW k \in 0 .. SourceSize, Popped(k) # {}
  PROVE  stacks[k].hypos # {}
<1>1. CubeConsistent(stacks[k], arcs, FreedOf(k), Popped(k))
  BY DEF StacksOwn
<1>2. BestHeld(stacks[k], Popped(k))
  BY <1>1 DEF CubeConsistent
<1> QED BY <1>2 DEF BestHeld

\* Of a hypothesis that is not complete, the first gap can be translated alone:
\* there is an edge for it, with the hypothesis as a candidate.
LEMMA GapHasEdge ==
  ASSUME EveryWordHasOption, NoZones, MaxDistortion >= -1, options \in OptionLists,
         NEW lists, NEW h, WellMade(lists, h),
         Cardinality(h.cov) < SourceSize
  PROVE  \E edge \in ForwardEdges(h.cov) :
           /\ edge[1] = h.cov /\ InReach(h, edge[2])
           /\ Cardinality(Target(edge)) = Cardinality(h.cov) + 1
<1> DEFINE g == FirstGapPos(h.cov)
           edge == <<h.cov, g, g>>
<1>1. h.cov \in SUBSET Positions /\ GapInReach(h.cov, h.range) /\ (h.cov = {} => h.range = EmptyRange)
  BY DEF WellMade
<1>2. h.cov # Positions
  BY PositionsFinite, SourceSizeAssumption
<1>3. ConstraintOf[options].zones = <<>>
  BY DEF NoZones
<1>4. g \in Positions /\ CanExpand(ConstraintOf[options], h.cov, h.range, g, g)
  BY <1>1, <1>2, <1>3, GapCanBeTranslated
<1>5. Cardinality(h.cov \cup (g .. g)) = Cardinality(h.cov) + 1
  BY <1>1, <1>4, OneWordMore
<1>6. /\ <<g, g>> \in OptionSpans /\ g - g < MaxPhraseLength
      /\ ~Overlap(h.cov, g, g) /\ Check(ConstraintOf[options], h.cov, g, g, MaxDistortion)
      /\ WithinDistortionLimit(h.cov, h.range, g, g)
  BY <1>4 DEF CanExpand, Translatable
<1>7. CheckDistortion(h.cov, g, g)
  BY <1>6 DEF CheckDistortion
<1>8. InReach(h, g)
  <2>1. CASE MaxDistortion = -1
    BY <2>1 DEF InReach
  <2>2. CASE MaxDistortion # -1
    <3>1. ~(MaxDistortion < 0)
      BY <2>2, LimitsAssumption
    <3>2. DistortionDistance(h.range, Span(g, g)) <= MaxDistortion
      BY <1>6, <3>1 DEF WithinDistortionLimit
    <3>3. CASE h.cov = {}
      <4>1. g \in Nat
        BY <1>4, SourceSizeAssumption DEF Positions
      <4> HIDE DEF g
      <4>2. DistortionDistance(EmptyRange, Span(g, g)) = g
        BY <4>1 DEF DistortionDistance, EmptyRange, Span, NumWordsCovered, Abs
      <4> QED BY <1>1, <3>2, <3>3, <4>2 DEF InReach
    <3>4. CASE h.cov # {}
      BY <3>2, <3>4 DEF InReach
    <3> QED BY <3>3, <3>4
  <2> QED BY <2>1, <2>2
<1> HIDE DEF g
<1>9. edge \in ForwardEdges(h.cov)
  <2>1. PICK span : span = <<g, g>>
    OBVIOUS
  <2>2. span \in OptionSpans /\ span[1] = g /\ span[2] = g
    BY <1>6, <2>1
  <2>3. edge = <<h.cov, span[1], span[2]>>
    BY <2>2
  <2> QED BY <1>6, <1>7, <2>2, <2>3 DEF ForwardEdges
<1>10. edge[1] = h.cov /\ edge[2] = g /\ edge[3] = g /\ Target(edge) = h.cov \cup (g .. g)
  BY DEF Target
<1> HIDE DEF edge
<1> QED BY <1>5, <1>8, <1>9, <1>10

\* At the start: the seed.
LEMMA InitProgress ==
  ASSUME Init
  PROVE  Progress
<1>1. current = 0 /\ popping = TRUE /\ numPops = 0 /\ result = "running" /\ Popped(0) # {}
  BY InitIInv DEF Init
<1>2. \A k \in 0 .. SourceSize : ~Finished(k)
  BY <1>1, SourceSizeAssumption DEF Finished
<1>3. StacksReached /\ StackFilled
  BY <1>1, <1>2 DEF StacksReached, StackFilled
<1> QED BY <1>1, <1>3 DEF Progress

\* An edge is initialised: what it has to queue, it has queued.
LEMMA InitializeEdgeProgress ==
  ASSUME IInv, Progress, InitializeEdge
  PROVE  Progress'
<1>1. /\ result = "running" /\ ~popping /\ popping' = popping /\ current' = current
      /\ numPops' = numPops /\ result' = result
  BY DEF InitializeEdge
<1>2. /\ \A k : Popped(k)' = Popped(k)
      /\ DOMAIN containers' = DOMAIN containers /\ DOMAIN edges' = DOMAIN edges
      /\ \A cov \in DOMAIN containers : containers[cov].queue \subseteq containers'[cov].queue
  BY InitializeEdgeIInv DEF EdgeInitialized
<1>3. PICK edge \in DOMAIN edges :
        /\ edges'[edge].initialized /\ \A x \in DOMAIN edges \ {edge} : edges'[x] = edges[x]
        /\ ~edges[edge].initialized
        /\ edges[edge].candidates # {} => containers'[Target(edge)].queue # {}
  BY InitializeEdgeIInv DEF EdgeInitialized
<1>4. StacksReached'
  BY <1>1, <1>2 DEF Progress, StacksReached, Finished
<1>5. PICK x \in EdgesHere : IF edges[x].initialized THEN containers[Target(x)].queue # {}
                                                     ELSE edges[x].candidates # {}
  BY <1>1 DEF Progress, StackFilled, EdgeFilled
<1>6. x \in DOMAIN edges /\ Target(x) \in DOMAIN containers /\ EdgesHere' = EdgesHere
  BY <1>1, <1>2 DEF EdgesHere, IInv, EdgesKept, EdgeKept
<1>7. IF edges'[x].initialized THEN containers'[Target(x)].queue # {} ELSE edges'[x].candidates # {}
  <2>1. CASE x = edge
    BY <1>3, <1>5, <2>1
  <2>2. CASE x # edge
    <3>1. edges'[x] = edges[x]
      BY <1>3, <1>6, <2>2
    <3> QED BY <1>2, <1>5, <1>6, <3>1
  <2> QED BY <2>1, <2>2
<1>8. EdgeFilled'
  BY <1>5, <1>6, <1>7 DEF EdgeFilled
<1>9. StackFilled'
  BY <1>1, <1>8 DEF Progress, StackFilled
<1> QED BY <1>1, <1>4, <1>9 DEF Progress

\* All edges are initialised: there is something to pop.
LEMMA StartPoppingProgress ==
  ASSUME IInv, Progress, StartPopping
  PROVE  Progress'
<1>1. /\ result = "running" /\ ~popping /\ popping' = TRUE /\ current' = current
      /\ numPops' = 0 /\ result' = result /\ containers' = containers
      /\ bcQueue' = Accessor(current) /\ \A edge \in EdgesHere : edges[edge].initialized
  BY DEF StartPopping
<1>2. \A k : Popped(k)' = Popped(k)
  BY LoopStepsIInv
<1>3. current > 0
  BY <1>1 DEF Progress, StackFilled
<1>4. current # 0
  BY <1>3
<1>5. StacksReached'
  BY <1>1, <1>2, <1>4 DEF Progress, StacksReached, Finished
<1>6. PICK edge \in EdgesHere : containers[Target(edge)].queue # {}
  BY <1>1 DEF Progress, StackFilled, EdgeFilled
<1>7. Target(edge) \in Accessor(current)
  BY <1>6 DEF EdgesHere, IInv, EdgesKept, EdgeKept, Accessor
<1>8. StackFilled'
  BY <1>1, <1>6, <1>7 DEF StackFilled
<1> QED BY <1>1, <1>5, <1>8 DEF Progress

\* What was popped before is still popped.
LEMMA StacksStayReached ==
  ASSUME StacksReached, popping, popping' = popping, current' = current, result' = result,
         \A k : Popped(k) \subseteq Popped(k)', Popped(current)' # {}
  PROVE  StacksReached'
BY DEF StacksReached, Finished

\* A container is popped; the first has a queue.
LEMMA PopProgress ==
  ASSUME IInv, Progress, Pop
  PROVE  Progress'
<1>1. /\ result = "running" /\ popping /\ popping' = popping /\ current' = current
      /\ numPops' = numPops + 1 /\ result' = result
  BY DEF Pop
<1>2. /\ \A k : Popped(k) \subseteq Popped(k)'
      /\ (\E cov \in bcQueue : containers[cov].queue # {}) => Popped(current)' # {}
  BY PopIInv
<1>3. numPops \in Nat /\ current \in Nat
  BY SourceSizeAssumption DEF Progress, IInv, TurnsKept
<1>4. Popped(current)' # {}
  <2>1. CASE numPops > 0 \/ current = 0
    <3>1. Popped(current) # {}
      BY <1>1, <2>1 DEF Progress, StacksReached
    <3>2. PICK c : c = current
      OBVIOUS
    <3>3. Popped(c) # {} /\ Popped(c) \subseteq Popped(c)'
      BY <1>2, <3>1, <3>2
    <3>4. Popped(current)' = Popped(c)'
      BY <1>1, <3>2 DEF Popped
    <3> QED BY <3>3, <3>4
  <2>2. CASE ~(numPops > 0 \/ current = 0)
    <3>1. numPops = 0 /\ current > 0
      BY <1>3, <2>2
    <3> QED BY <1>1, <1>2, <3>1 DEF Progress, StackFilled
  <2> QED BY <2>1, <2>2
<1>5. StacksReached'
  BY <1>1, <1>2, <1>4, StacksStayReached DEF Progress
<1>6. numPops' \in Nat /\ numPops' # 0
  BY <1>1, <1>3
<1>7. StackFilled'
  BY <1>1, <1>6 DEF StackFilled
<1> QED BY <1>5, <1>6, <1>7 DEF Progress

\* Where nothing was popped, there is something to pop.
LEMMA PoppedBeforeEnd ==
  ASSUME IInv, Progress, cube.popLimit > 0, result = "running", popping, ~WantsPop
  PROVE  numPops > 0 \/ current = 0
<1> SUFFICES ASSUME ~(numPops > 0 \/ current = 0) PROVE FALSE
  OBVIOUS
<1>1. numPops \in Nat /\ current \in Nat
  BY SourceSizeAssumption DEF Progress, IInv, TurnsKept
<1>2. numPops = 0 /\ current > 0
  BY <1>1
<1>3. bcQueue # {}
  BY <1>2 DEF Progress, StackFilled
<1>4. numPops < cube.popLimit
  BY <1>2
<1> QED BY <1>3, <1>4 DEF WantsPop

\* A container has put too few hypotheses on the stack.
LEMMA EnsureDiversityProgress ==
  ASSUME IInv, Progress, cube.popLimit > 0, EnsureDiversity
  PROVE  Progress'
<1>1. /\ result = "running" /\ popping /\ ~WantsPop /\ popping' = popping /\ current' = current
      /\ numPops' = numPops /\ result' = result
  BY DEF EnsureDiversity
<1>2. (\A k : Popped(k) \subseteq Popped(k)') /\ Popped(current)' # {}
  BY EnsureDiversityIInv
<1>3. StacksReached'
  BY <1>1, <1>2, StacksStayReached DEF Progress
<1>4. ~(numPops = 0 /\ current > 0)
  <2>1. numPops > 0 \/ current = 0
    BY <1>1, PoppedBeforeEnd
  <2> QED BY <2>1
<1>5. StackFilled'
  BY <1>1, <1>4 DEF StackFilled
<1> QED BY <1>1, <1>3, <1>5 DEF Progress

\* The time is up, or nothing happens.
LEMMA TimeOutProgress ==
  ASSUME IInv, Progress, TimeOut \/ UNCHANGED vars
  PROVE  Progress'
<1>1. /\ popping' = popping /\ current' = current /\ numPops' = numPops /\ bcQueue' = bcQueue
      /\ edges' = edges /\ containers' = containers
      /\ (result' = "done" <=> result = "done") /\ (result' = "running" => result = "running")
  BY DEF TimeOut, vars
<1>2. \A k : Popped(k)' = Popped(k)
  BY LoopStepsIInv
<1>3. StacksReached'
  BY <1>1, <1>2 DEF Progress, StacksReached, Finished
<1>4. EdgeFilled' = EdgeFilled
  BY <1>1 DEF EdgeFilled, EdgesHere
<1>5. StackFilled'
  BY <1>1, <1>4 DEF Progress, StackFilled
<1> QED BY <1>1, <1>3, <1>5 DEF Progress

\* The turn of a stack ends: there is an edge to the next one.
LEMMA FinishStackProgress ==
  ASSUME EveryWordHasOption, NoZones, MaxDistortion >= -1,
         IInv, Progress, cube.popLimit > 0, FinishStack
  PROVE  Progress'
<1>0. PICK c : c = current
  OBVIOUS
<1>1. /\ StacksOwn /\ SentenceKept /\ c = current /\ c \in 0 .. SourceSize
      /\ result = "running" /\ popping /\ ~WantsPop /\ hypos' = hypos
      /\ popping' = FALSE /\ numPops' = 0
      /\ IF c = SourceSize THEN result' = "done" /\ current' = c ELSE current' = c + 1 /\ result' = result
  BY <1>0 DEF IInv, TurnsKept, FinishStack, sentence
<1>2. /\ IInv' /\ \A k : Popped(k)' = Popped(k)
  BY FinishStackIInv
<1>3. Popped(c) # {}
  BY <1>1, PoppedBeforeEnd DEF Progress, StacksReached
<1>4. StacksReached'
  <2>1. ASSUME NEW k \in 0 .. SourceSize, Finished(k)' PROVE Popped(k) # {}
    <3>1. CASE k = c
      BY <1>3, <3>1
    <3>2. CASE k # c
      <4>1. k < c
        BY <1>1, <2>1, <3>2, SourceSizeAssumption DEF Finished
      <4> QED BY <1>1, <2>1, <4>1 DEF Progress, StacksReached, Finished
    <3> QED BY <3>1, <3>2
  <2> QED BY <1>1, <1>2, <2>1 DEF StacksReached
<1>5. ASSUME c # SourceSize PROVE EdgeFilled' /\ current' > 0
  <2>1. PICK o, newEdges : TurnEnds(c, o, newEdges)
    BY <1>1, FinishStackEnds
  <2>2. stacks'[c] = o.stack
    BY <1>1, <2>1 DEF TurnEnds, StacksOwn
  <2>3. PICK h : h \in o.stack.hypos
    <3>1. CubeConsistent(o.stack, o.arcs, FreedOf(c) \cup o.freed, Popped(c))
      BY <2>1 DEF TurnEnds, CubeLeaves
    <3>2. BestHeld(o.stack, Popped(c))
      BY <3>1 DEF CubeConsistent
    <3> QED BY <1>3, <3>2 DEF BestHeld
  <2>4. h \in Popped(c)
    BY <2>1, <2>3 DEF TurnEnds, CubeLeaves, CubeConsistent, Owned
  <2>5. /\ options \in OptionLists
        /\ WellMade(options, h) /\ Cardinality(h.cov) = c /\ c < SourceSize
    BY <1>1, <1>5, <2>4, SourceSizeAssumption DEF Popped, SentenceKept
  <2>6. PICK edge \in ForwardEdges(h.cov) :
          edge[1] = h.cov /\ InReach(h, edge[2]) /\ Cardinality(Target(edge)) = c + 1
    BY <2>5, GapHasEdge
  <2>7. edge \in newEdges
    BY <2>1, <2>3, <2>6 DEF TurnEnds
  <2>8. edge \notin DOMAIN edges
    <3> SUFFICES ASSUME edge \in DOMAIN edges PROVE FALSE
      OBVIOUS
    <3>1. Finished(c)
      BY <2>5, <2>6 DEF IInv, EdgesKept, EdgeKept
    <3> QED BY <1>1, <3>1 DEF Finished
  <2> DEFINE S == {g \in o.stack.hypos : g.cov = edge[1] /\ InReach(g, edge[2])}
  <2>9. edges'[edge] = [candidates |-> S, hypotheses |-> <<>>, seen |-> {}, initialized |-> FALSE]
        /\ edge \in DOMAIN edges'
    BY <2>1, <2>7, <2>8 DEF TurnEnds
  <2>10. h \in S
    BY <2>3, <2>6
  <2> HIDE DEF S
  <2>11. edges'[edge].candidates # {} /\ ~edges'[edge].initialized
    BY <2>9, <2>10
  <2>12. current' = c + 1
    BY <1>1, <1>5
  <2>13. edge \in EdgesHere'
    BY <2>6, <2>9, <2>12 DEF EdgesHere
  <2>14. EdgeFilled'
    BY <2>11, <2>13 DEF EdgeFilled
  <2>15. current' > 0
    BY <1>1, <2>12, SourceSizeAssumption
  <2> QED BY <2>14, <2>15
<1>6. StackFilled'
  <2>1. CASE c = SourceSize
    <3>1. result' # "running"
      BY <1>1, <2>1
    <3> QED BY <3>1 DEF StackFilled
  <2>2. CASE c # SourceSize
    BY <1>1, <1>5, <2>2 DEF StackFilled
  <2> QED BY <2>1, <2>2
<1>7. numPops' \in Nat
  BY <1>1
<1> QED BY <1>4, <1>6, <1>7 DEF Progress

\* Every step.
LEMMA StepProgress ==
  ASSUME EveryWordHasOption, NoZones, MaxDistortion >= -1,
         IInv, cube.popLimit > 0 => Progress, [Next]_vars
  PROVE  cube'.popLimit > 0 => Progress'
<1>1. cube' = cube
  BY DEF Next, TimeOut, InitializeEdge, StartPopping, Pop, EnsureDiversity, FinishStack, vars, sentence
<1>2. CASE cube.popLimit > 0
  BY <1>2, InitializeEdgeProgress, StartPoppingProgress, PopProgress, EnsureDiversityProgress,
     TimeOutProgress, FinishStackProgress DEF Next
<1> QED BY <1>1, <1>2

\* A search with a pop limit, of a sentence without zones, goes on: every stack gets hypotheses in its turn.
THEOREM CubeSearchProgress ==
  ASSUME EveryWordHasOption, NoZones, MaxDistortion >= -1
  PROVE  Spec => [](cube.popLimit > 0 => Progress)
<1>1. Init => (cube.popLimit > 0 => Progress)
  BY InitProgress
<1>2. IInv /\ (cube.popLimit > 0 => Progress) /\ [Next]_vars => (cube.popLimit > 0 => Progress)'
  BY StepProgress
<1> QED BY <1>1, <1>2, CubeSearchInvariant, PTL DEF Spec

\* Whatever the pop limit, the stack size and the beam: if every word has a
\* translation option of its own and the sentence has no zones (walls it may have),
\* a search that is not interrupted ends with a translation.  CheckDistortion and the constructor of BackwardsEdge leave every
\* hypothesis an edge to go on by, and no stack loses its best hypothesis.
THEOREM CubeFindsTranslation ==
  ASSUME EveryWordHasOption, NoZones, MaxDistortion >= -1
  PROVE  Spec => []TranslationFound
<1>1. IInv /\ (cube.popLimit > 0 => Progress) => TranslationFound
  <2> SUFFICES ASSUME IInv, Progress, result = "done" PROVE LastStack # {}
    BY DEF TranslationFound
  <2>1. SourceSize \in 0 .. SourceSize
    BY SourceSizeAssumption
  <2>2. Popped(SourceSize) # {}
    BY <2>1 DEF Progress, StacksReached, Finished
  <2> QED BY <2>1, <2>2, StackNotEmpty DEF IInv, LastStack
<1> QED BY <1>1, CubeSearchInvariant, CubeSearchProgress, PTL
=============================================================================
