---------------------------- MODULE TransOptCache ----------------------------
(***************************************************************************)
(* The persistent cache of translation options, which StaticData keeps     *)
(* across sentences and for all threads.                                   *)
(*                                                                         *)
(* A cache is a function from keys to entries: list, the number of the     *)
(* TranslationOptionList it points to, and used, the clock() of its last   *)
(* use.  Only the order of these times matters, and they are kept as       *)
(* ranks; the clock may or may not have advanced between two uses.         *)
(***************************************************************************)
EXTENDS Integers, FiniteSets, FiniteSetsExt

EmptyCache == [key \in {} |-> 0]

Times(cache) == {cache[key].used : key \in DOMAIN cache}

\* clock(): the latest time, or a later one.
ClockTimes(cache) == LET latest == Max({0} \cup Times(cache)) IN {latest, latest + 1}

Ranked(cache) ==
  [key \in DOMAIN cache |->
     [cache[key] EXCEPT !.used = Cardinality({t \in Times(cache) : t <= @})]]

\* FindTransOptListInCache, when the key is there: "update last used time".
Touched(cache, key) ==
  {Ranked([cache EXCEPT ![key].used = t]) : t \in ClockTimes(cache)}

\* The times that the loop in ReduceTransOptCache pops, the latest ones: its
\* bound shrinks with each of them.
Popped(size, maxSize) == (size - maxSize \div 2 + 1) \div 2

\* ReduceTransOptCache: the keys whose lists stay, those used no earlier than the
\* time on top of the heap after the loop.
Kept(cache, maxSize) ==
  LET size == Cardinality(DOMAIN cache)
  IN  IF size <= maxSize THEN DOMAIN cache
      ELSE {key \in DOMAIN cache :
              Cardinality({k \in DOMAIN cache : cache[k].used > cache[key].used})
                <= Popped(size, maxSize)}

\* AddTransOptListToCache.  The list of an entry that is replaced is not deleted.
Added(cache, key, list, maxSize) ==
  {LET entry == [list |-> list, used |-> t]
       added == [k \in DOMAIN cache \cup {key} |-> IF k = key THEN entry ELSE cache[k]]
       kept  == Kept(added, maxSize)
   IN  [cache   |-> Ranked([k \in kept |-> added[k]]),
        deleted |-> {added[k].list : k \in DOMAIN added \ kept}] :
     t \in ClockTimes(cache)}
=============================================================================
