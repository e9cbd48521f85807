----------------------------- MODULE DecodeSteps -----------------------------
(***************************************************************************)
(* How the options of a phrase are put together, factor by factor:         *)
(* DecodeStepTranslation, DecodeStepGeneration and the collections of      *)
(* partial options between the steps (PartialTranslOptColl).               *)
(*                                                                         *)
(* A word is a function from Factors to strings, NoFactor where a factor   *)
(* is not set.  An option is a record of its target, a sequence of words,  *)
(* and its score, the sum of m_scoreBreakdown; xml is 0, or the number of  *)
(* the markup that asked for it.  A decode graph is a sequence of steps: a *)
(* step's out are the factors of its table, and table is                   *)
(*   for a translation, a function from source phrases to sequences of     *)
(*   [target, score], best first, of which limit are looked at;            *)
(*   for a generation, a function from the values of the factor in to      *)
(*   sequences of [word, score].                                           *)
(***************************************************************************)
EXTENDS Scores, SequencesExt

CONSTANTS Factors, NoFactor,
          SurfaceFactor,  \* the factor of the language model
          Fluency         \* surface -> what the language model adds for it

ASSUME DecodeStepsAssumption == SurfaceFactor \in Factors

Total(scores) == FoldLeft(LAMBDA a, b : a + b, 0, scores)

\* TranslationOption::CalcScore: the language model does not count before all
\* words have its factor.
FutureScoreOf(option) ==
  LET surface == [i \in DOMAIN option.target |-> option.target[i][SurfaceFactor]]
  IN  option.score + (IF NoFactor \in ToSet(surface) THEN 0
                      ELSE Total([i \in DOMAIN surface |-> Fluency[surface[i]]]))

-----------------------------------------------------------------------------
(* Partial options: [list, worst, maxSize] *)

NoPartialOptions(maxSize) == [list |-> <<>>, worst |-> NegInf, maxSize |-> maxSize]

\* nth_element: all in front of the place are at least as good as all behind it.
BestFirst(list, kept) ==
  \A i \in DOMAIN list \ ToSet(kept) : \A k \in ToSet(kept) :
    FutureScoreOf(list[k]) >= FutureScoreOf(list[i])

\* The places of the n best, in every order nth_element may leave them in.
Selections(list, n) ==
  {kept \in [1 .. n -> DOMAIN list] : IsInjective(kept) /\ BestFirst(list, kept)}

\* Prune.  m_worstScore is the score of the last of those kept, which need not be
\* the worst.
Prune(coll) ==
  {[coll EXCEPT !.list  = [i \in DOMAIN kept |-> @[kept[i]]],
                !.worst = FutureScoreOf(coll.list[kept[coll.maxSize]])] :
     kept \in Selections(coll.list, coll.maxSize)}

\* Add
Add(coll, option) ==
  LET added == IF FutureScoreOf(option) >= coll.worst
               THEN [coll EXCEPT !.list = Append(@, option)] ELSE coll
  IN  IF Len(added.list) > 2 * coll.maxSize THEN Prune(added) ELSE {added}

\* The options added one after the other, to one collection.
AddAll(options, maxSize) ==
  FoldLeft(LAMBDA colls, option : UNION {Add(coll, option) : coll \in colls},
           {NoPartialOptions(maxSize)}, options)

-----------------------------------------------------------------------------
(* The steps *)

\* DecodeStep's constructor: what the steps in front of step n have set.
OutputFactors(graph, n) == UNION {graph[i].out : i \in 1 .. n - 1}
NewFactors(graph, n)      == graph[n].out \ OutputFactors(graph, n)
ConflictFactors(graph, n) == graph[n].out \cap OutputFactors(graph, n)

\* What the table has for the phrase, up to the table limit.
LookUp(step, phrase, adhereTableLimit) ==
  IF phrase \notin DOMAIN step.table THEN <<>>
  ELSE LET coll == step.table[phrase]
       IN  IF adhereTableLimit /\ step.limit > 0 /\ Len(coll) > step.limit
           THEN SubSeq(coll, 1, step.limit) ELSE coll

\* TranslationOption::IsCompatible and MergeNewFeatures
IsCompatible(option, words, factors) ==
  \A i \in DOMAIN words : \A f \in factors : option.target[i][f] = words[i][f]

MergeNewFeatures(option, words, score, factors) ==
  [option EXCEPT
     !.target = [i \in DOMAIN @ |-> [f \in Factors |-> IF f \in factors THEN words[i][f] ELSE @[i][f]]],
     !.score  = @ + score]

\* The ways to choose one element of each sequence, the first one changing first
\* (IncrementIterators).
Combinations(seqs) ==
  FoldLeft(LAMBDA chosen, seq : FlattenSeq([j \in DOMAIN seq |->
                                  [k \in DOMAIN chosen |-> Append(chosen[k], seq[j])]]),
           <<<<>>>>, seqs)

\* DecodeStepGeneration::Process: what the table has for the words, all of them.
Generated(step, option) ==
  LET values  == [i \in DOMAIN option.target |-> option.target[i][step.in]]
      choices == Combinations([i \in DOMAIN values |-> step.table[values[i]]])
  IN  IF ToSet(values) \subseteq DOMAIN step.table
      THEN [k \in DOMAIN choices |->
              [target |-> [i \in DOMAIN values |-> choices[k][i].word],
               score  |-> Total([i \in DOMAIN values |-> choices[k][i].score])]]
      ELSE <<>>

\* Process of step n for one partial option.
Process(graph, n, option, phrase, adhereTableLimit) ==
  LET step   == graph[n]
      found  == IF step.kind = "translation" THEN LookUp(step, phrase, adhereTableLimit)
                ELSE Generated(step, option)
      usable == SelectSeq(found, LAMBDA t :
                  /\ Len(t.target) = Len(option.target)
                  /\ IsCompatible(option, t.target, ConflictFactors(graph, n)))
  IN  IF option.target = <<>> THEN <<option>>
      ELSE [i \in DOMAIN usable |->
              MergeNewFeatures(option, usable[i].target, usable[i].score, NewFactors(graph, n))]

\* ProcessInitialTranslation
ProcessInitialTranslation(graph, phrase, adhereTableLimit, maxPartial) ==
  LET found == LookUp(graph[1], phrase, adhereTableLimit)
  IN  AddAll([i \in DOMAIN found |->
                [target |-> found[i].target, score |-> found[i].score, xml |-> 0]], maxPartial)

\* The loop over the steps in CreateTranslationOptionsForRange: the lists that
\* may come out.
OptionsOfGraph(graph, phrase, adhereTableLimit, maxPartial) ==
  LET Processed(old, n) ==
        FlattenSeq([i \in DOMAIN old.list |->
                      Process(graph, n, old.list[i], phrase, adhereTableLimit)])
      colls == FoldLeft(LAMBDA olds, n : UNION {AddAll(Processed(old, n), maxPartial) : old \in olds},
                        ProcessInitialTranslation(graph, phrase, adhereTableLimit, maxPartial),
                        [i \in 1 .. Len(graph) - 1 |-> i + 1])
  IN  {coll.list : coll \in colls}
=============================================================================
