-------------------------- MODULE TranslationOptions --------------------------
(***************************************************************************)
(* TranslationOptionCollection::CreateTranslationOptions: before a search  *)
(* begins, the options of all spans of its sentence are collected from the *)
(* decode graphs, from the cache that all decoding threads share, and from *)
(* the markup of the input; words without options get one, the lists are   *)
(* pruned, and the future score matrix is computed.                        *)
(*                                                                         *)
(* Several threads do this, each for its own sentence; they meet at the    *)
(* cache.  A scenario is an input and a configuration:                     *)
(*   sentences  [words, xml], xml a sequence of [span, target, score]      *)
(*   threads    how many decoding threads there are (-threads)             *)
(*   graphs, backoff  the decode graphs, decoding-graph-backoff            *)
(*   xmlInput   "pass-through", "ignore", "exclusive" or "inclusive"       *)
(*   cacheSize  persistent-cache-size, 0 without the cache                 *)
(*   maxPartial  the limit of partial options                             *)
(*   maxOptions, threshold  the limits of a span's list, 0 and NegInf for  *)
(*              none                                                       *)
(*   direct     -always-create-direct-transopt                             *)
(*   dropped    the unknown words that are dropped (-drop-unknown)         *)
(***************************************************************************)
EXTENDS FutureScore, DecodeSteps, TransOptCache

CONSTANTS MaxPhraseLength,
          Scenarios,
          UnknownScore      \* the floor of the unknown word penalty

VARIABLES scenario,
          cache,
          lists,       \* the lists that were put into the cache
          deleted,     \* the numbers of those that were deleted
          taken,       \* the sentences given to threads so far
          work,        \* what each thread does
          results,     \* sentence -> its options and matrix, when complete
          undefined    \* a deleted list was read, or an option deleted twice

vars == <<scenario, cache, lists, deleted, taken, work, results, undefined>>

Spans == {c \in UpperCells : c[2] - c[1] < MaxPhraseLength}

Threads == 1 .. scenario.threads

Idle == [phase |-> "idle"]

Init ==
  /\ scenario \in Scenarios
  /\ cache = EmptyCache
  /\ lists = <<>> /\ deleted = {}
  /\ taken = 0
  /\ work = [t \in Threads |-> Idle]
  /\ results = [i \in {} |-> 0]
  /\ undefined = FALSE

-----------------------------------------------------------------------------
(* The ranges a thread goes through *)

\* CreateTranslationOptions and ProcessUnknownWord: all spans from every graph, by
\* their beginnings; then the words once more, without the table limits.
SpansInOrder ==
  SetToSortSeq(Spans, LAMBDA c, d : c[1] < d[1] \/ (c[1] = d[1] /\ c[2] < d[2]))

Ranges ==
  LET Visit(g) == [i \in DOMAIN SpansInOrder |->
                     [graph |-> g, span |-> SpansInOrder[i], adhere |-> TRUE]]
      Retry(g) == [i \in 1 .. SourceSize |->
                     [graph |-> g, span |-> <<i - 1, i - 1>>, adhere |-> FALSE]]
  IN  FlattenSeq([g \in DOMAIN scenario.graphs |-> Visit(g)])
      \o FlattenSeq([g \in DOMAIN scenario.graphs |-> Retry(g)])

\* A thread takes the next sentence.
TakeSentence(t) ==
  /\ work[t].phase = "idle" /\ taken < Len(scenario.sentences)
  /\ taken' = taken + 1
  /\ work' = [work EXCEPT ![t] =
       [phase |-> "range", sentence |-> taken + 1, ranges |-> Ranges,
        collection |-> [c \in Spans |-> <<>>], found |-> 0]]
  /\ UNCHANGED <<scenario, cache, lists, deleted, results, undefined>>

Sentence(t)   == scenario.sentences[work[t].sentence]
Range1(t)     == Head(work[t].ranges)
OptionList(t) == work[t].collection[Range1(t).span]
Width(span)   == span[2] - span[1] + 1

\* "size exceeds backoff limit or ... no phrases found so far"
NoBackoff(t) ==
  LET backoff == scenario.backoff[Range1(t).graph]
  IN  backoff # 0 /\ (Width(Range1(t).span) >= backoff \/ OptionList(t) # <<>>)

\* The conditions in front of CreateTranslationOptionsForRange.
Skips(t) ==
  IF Range1(t).adhere THEN Range1(t).graph > 1 /\ NoBackoff(t)
                      ELSE OptionList(t) # <<>>

Skip(t) ==
  /\ work[t].phase = "range" /\ work[t].ranges # <<>> /\ Skips(t)
  /\ work' = [work EXCEPT ![t].ranges = Tail(@)]
  /\ UNCHANGED <<scenario, cache, lists, deleted, taken, results, undefined>>

-----------------------------------------------------------------------------
(* CreateTranslationOptionsForRange *)

PhraseOf(sentence, span) == SubSeq(sentence.words, span[1] + 1, span[2] + 1)

\* Sentence's constructor and XmlOverlap; m_xmlCoverageMap is empty when markup is
\* passed through or ignored.
XmlOverlap(sentence, span) ==
  /\ scenario.xmlInput \in {"exclusive", "inclusive"}
  /\ \E i \in DOMAIN sentence.xml :
       (sentence.xml[i].span[1] .. sentence.xml[i].span[2]) \cap (span[1] .. span[2]) # {}

\* Markup is parsed, the graphs are not asked.
OnlyXml(sentence, span) == scenario.xmlInput = "exclusive" /\ XmlOverlap(sentence, span)

\* CreateXmlOptionsForRange: the markup of exactly this span.
XmlOptions(sentence, span) ==
  LET here == SelectSeq([i \in DOMAIN sentence.xml |-> i],
                        LAMBDA i : XmlOverlap(sentence, span) /\ sentence.xml[i].span = span)
  IN  [k \in DOMAIN here |-> [target |-> sentence.xml[here[k]].target,
                              score  |-> sentence.xml[here[k]].score, xml |-> here[k]]]

\* The options go to the collection, those of the markup behind them, and the
\* thread goes on to the next range.
WithOptions(t, options) ==
  [work[t] EXCEPT
     !.phase = "range", !.found = 0, !.ranges = Tail(@),
     !.collection[Range1(t).span] = @ \o options \o XmlOptions(Sentence(t), Range1(t).span)]

Begins(t) ==
  /\ work[t].phase = "range" /\ work[t].ranges # <<>> /\ ~Skips(t)

OnlyMarkup(t) ==
  /\ Begins(t) /\ OnlyXml(Sentence(t), Range1(t).span)
  /\ work' = [work EXCEPT ![t] = WithOptions(t, <<>>)]
  /\ UNCHANGED <<scenario, cache, lists, deleted, taken, results, undefined>>

\* Mutant: the key is the phrase alone.
PhraseKey(graph, phrase) == phrase

\* The key of the cache.
Key(graph, phrase) == <<graph, phrase>>

KeyOf(t) == Key(Range1(t).graph, PhraseOf(Sentence(t), Range1(t).span))

UseCache == scenario.cacheSize > 0

\* FindTransOptListInCache, under its lock.
FindInCache(t) ==
  /\ Begins(t) /\ ~OnlyXml(Sentence(t), Range1(t).span)
  /\ UseCache
  /\ IF KeyOf(t) \in DOMAIN cache
     THEN /\ work' = [work EXCEPT ![t].phase = "found", ![t].found = cache[KeyOf(t)].list]
          /\ cache' \in Touched(cache, KeyOf(t))
     ELSE /\ work' = [work EXCEPT ![t].phase = "create"]
          /\ UNCHANGED cache
  /\ UNCHANGED <<scenario, lists, deleted, taken, results, undefined>>

\* The options found are copied, after the lock was released.
CopyFound(t) ==
  /\ work[t].phase = "found"
  /\ undefined' = (work[t].found \in deleted)
  /\ work' = [work EXCEPT ![t] = WithOptions(t, lists[work[t].found])]
  /\ UNCHANGED <<scenario, cache, lists, deleted, taken, results>>

\* Options are made by the steps of the graph; AddTransOptListToCache stores a
\* copy of all that the span's list holds then.
Create(t) ==
  /\ \/ work[t].phase = "create"
     \/ Begins(t) /\ ~OnlyXml(Sentence(t), Range1(t).span) /\ ~UseCache
  /\ \E options \in OptionsOfGraph(scenario.graphs[Range1(t).graph],
                                   PhraseOf(Sentence(t), Range1(t).span), Range1(t).adhere,
                                   scenario.maxPartial) :
       /\ work' = [work EXCEPT ![t] = WithOptions(t, options)]
       /\ IF UseCache /\ options # <<>>
          THEN LET whole == OptionList(t) \o options
               IN  /\ lists' = Append(lists, [i \in DOMAIN whole |-> [whole[i] EXCEPT !.xml = 0]])
                   /\ \E o \in Added(cache, KeyOf(t), Len(lists'), scenario.cacheSize) :
                        /\ cache' = o.cache
                        /\ deleted' = deleted \cup o.deleted
          ELSE UNCHANGED <<cache, lists, deleted>>
  /\ UNCHANGED <<scenario, taken, results, undefined>>

-----------------------------------------------------------------------------
(* The rest of CreateTranslationOptions *)

\* ProcessOneUnknownWord: the word itself, or nothing in its place.
UnknownOption(sentence, pos) ==
  [target |-> IF sentence.words[pos + 1] \in scenario.dropped THEN <<>>
              ELSE <<[f \in Factors |-> sentence.words[pos + 1]]>>,
   score |-> UnknownScore, xml |-> 0]

\* "create unknown words for 1 word coverage where we don't have any trans options"
WithUnknownWords(sentence, collection) ==
  [c \in Spans |->
     IF c[1] = c[2] /\ (collection[c] = <<>> \/ scenario.direct)
     THEN Append(collection[c], UnknownOption(sentence, c[1])) ELSE collection[c]]

\* Mutant: the threshold is not relative to the best score.
AboveFixedThreshold(list) ==
  SelectSeq(list, LAMBDA o : FutureScoreOf(o) >= scenario.threshold)

\* "remove items that are worse than best score + threshold"
AboveThreshold(list) ==
  LET best == Max({FutureScoreOf(o) : o \in ToSet(list)})
  IN  IF Len(list) <= 1 \/ scenario.threshold = NegInf THEN list
      ELSE SelectSeq(list, LAMBDA o : FutureScoreOf(o) >= best + scenario.threshold)

\* Prune and Sort of one span's list.
PrunedLists(list) ==
  LET n       == scenario.maxOptions
      limited == IF n > 0 /\ Len(list) > n
                 THEN {[i \in 1 .. n |-> list[kept[i]]] : kept \in Selections(list, n)}
                 ELSE {list}
  IN  {SortSeq(AboveThreshold(l), LAMBDA a, b : FutureScoreOf(a) > FutureScoreOf(b)) : l \in limited}

\* The two loops of Prune and Sort over the spans.
PrunedCollections(collection) ==
  FoldSet(LAMBDA c, pruned : {[f EXCEPT ![c] = list] : f \in pruned, list \in PrunedLists(collection[c])},
          {collection}, Spans)

\* An option of the markup is not copied: a list that holds it twice, from two
\* graphs, deletes it twice.
HeldTwice(list) ==
  \E i, j \in DOMAIN list : i # j /\ list[i].xml # 0 /\ list[i].xml = list[j].xml

Complete(t) ==
  /\ work[t].phase = "range" /\ work[t].ranges = <<>>
  /\ LET all == WithUnknownWords(Sentence(t), work[t].collection)
     IN  \E options \in PrunedCollections(all) :
           LET scores == [c \in UpperCells |-> IF c \in Spans
                                               THEN {FutureScoreOf(o) : o \in ToSet(options[c])}
                                               ELSE {}]
           IN  results' = [i \in DOMAIN results \cup {work[t].sentence} |->
                  IF i = work[t].sentence
                  THEN [options |-> options, scores |-> scores,
                        futureScore |-> FutureScoreMatrix(scores)]
                  ELSE results[i]]
  /\ undefined' = \E c \in Spans : HeldTwice(work[t].collection[c])
  /\ work' = [work EXCEPT ![t] = Idle]
  /\ UNCHANGED <<scenario, cache, lists, deleted, taken>>

Step(t) ==
  \/ TakeSentence(t) \/ Skip(t) \/ OnlyMarkup(t)
  \/ FindInCache(t) \/ CopyFound(t) \/ Create(t) \/ Complete(t)

\* What follows is not defined.
Next == ~undefined /\ \E t \in Threads : Step(t)

Spec == Init /\ [][Next]_vars

-----------------------------------------------------------------------------
(* Properties *)

AllDone == taken = Len(scenario.sentences) /\ \A t \in Threads : work[t] = Idle

\* However the limits, the markup, the graphs and the cache interact, every word
\* ends up with an option of its own: what the searches, and their proofs, rely
\* on (ProcessUnknownWord).
EveryWordHasOption ==
  \A i \in DOMAIN results : \A p \in Positions : results[i].options[<<p, p>>] # <<>>

\* The best sum of the scores of options that translate the positions free, one
\* after the other from the left: what the estimate is an estimate of.
BestCompletion(scores) ==
  LET best[free \in SUBSET Positions] ==
        IF free = {} THEN 0
        ELSE LET s    == Least(free)
                 ends == {e \in s .. SourceSize - 1 :
                            s .. e \subseteq free /\ scores[<<s, e>>] # {}}
             IN  IF ends = {} THEN NegInf
                 ELSE Max({Plus(Max(scores[<<s, e>>]), best[free \ (s .. e)]) : e \in ends})
  IN  best

\* The estimate is exact when only the options' own scores count: the search
\* never prunes for an estimate that no completion reaches, nor prefers a
\* hypothesis for one that every completion exceeds (CalcFutureScore of
\* TranslationOptionCollection and SquareMatrix).  And the estimate that early
\* discarding computes before a hypothesis is built is the one it gets when it is
\* built (SearchNormal::ExpandAllHypotheses).
EstimateIsBestCompletion ==
  AllDone => \A i \in DOMAIN results :
    LET matrix == results[i].futureScore
        best   == BestCompletion(results[i].scores)
    IN  \A cov \in SUBSET Positions :
          /\ CalcFutureScore(matrix, cov) = best[Positions \ cov]
          /\ \A c \in UpperCells :
               ~Overlap(cov, c[1], c[2]) =>
                 CalcFutureScoreWith(matrix, cov, c[1], c[2]) =
                   CalcFutureScore(matrix, cov \cup (c[1] .. c[2]))

-----------------------------------------------------------------------------
(* What the options of a span should be *)

\* The rows of a step's table that may translate length words, with the factors
\* they determine.
Determined(step) == step.out \cup (IF step.kind = "generation" THEN {step.in} ELSE {})

Rows(step, phrase, adhereTableLimit, length) ==
  IF step.kind = "translation"
  THEN {row \in ToSet(LookUp(step, phrase, adhereTableLimit)) : Len(row.target) = length}
  ELSE LET cells == UNION {{[word |-> [e.word EXCEPT ![step.in] = v], score |-> e.score] :
                              e \in ToSet(step.table[v])} : v \in DOMAIN step.table}
       IN  {[target |-> [i \in 1 .. length |-> row[i].word],
             score  |-> Total([i \in 1 .. length |-> row[i].score])] :
              row \in [1 .. length -> cells]}

\* A row of each step, so that they agree on all words.
Agreeing(graph, phrase, adhereTableLimit, length) ==
  LET Agrees(rows, step, row) ==
        \A m \in DOMAIN rows : \A f \in Determined(graph[m]) \cap Determined(step) :
          \A i \in 1 .. length : rows[m].target[i][f] = row.target[i][f]
  IN  FoldLeft(LAMBDA chosen, step :
                 UNION {{Append(rows, row) :
                           row \in {r \in Rows(step, phrase, adhereTableLimit, length) :
                                      Agrees(rows, step, r)}} : rows \in chosen},
               {<<>>}, graph)

Combined(graph, rows) ==
  [target |-> [i \in DOMAIN rows[1].target |-> [f \in Factors |->
                 IF \E n \in DOMAIN graph : f \in graph[n].out
                 THEN rows[CHOOSE n \in DOMAIN graph : f \in graph[n].out].target[i][f]
                 ELSE NoFactor]],
   score  |-> Total([n \in DOMAIN graph |-> rows[n].score])]

FromGraph(graph, phrase, adhereTableLimit) ==
  LET lengths == {Len(row.target) : row \in ToSet(LookUp(graph[1], phrase, adhereTableLimit))}
  IN  UNION {{Combined(graph, rows) : rows \in Agreeing(graph, phrase, adhereTableLimit, l)} :
               l \in lengths \ {0}}
      \cup {[target |-> <<>>, score |-> row.score] :
              row \in Rows(graph[1], phrase, adhereTableLimit, 0)}

Plain(list) == {[target |-> o.target, score |-> o.score] : o \in ToSet(list)}

\* What the graphs, the markup and the unknown words contribute to a span, each
\* only where it is asked for.
Wanted(sentence, span) ==
  LET phrase  == PhraseOf(sentence, span)
      xml     == Plain(XmlOptions(sentence, span))
      From(g, adhere) == IF OnlyXml(sentence, span) THEN {}
                         ELSE FromGraph(scenario.graphs[g], phrase, adhere)
      Backs(g, all) == g > 1 /\ scenario.backoff[g] # 0
                         /\ (Width(span) >= scenario.backoff[g] \/ all # {})
      graphs  == [g \in DOMAIN scenario.graphs |-> g]
      visited == FoldLeft(LAMBDA all, g : IF Backs(g, all) THEN all
                                          ELSE all \cup From(g, TRUE) \cup xml, {}, graphs)
      retried == FoldLeft(LAMBDA all, g : IF all # {} \/ Width(span) > 1 THEN all
                                          ELSE From(g, FALSE), visited, graphs)
  IN  IF Width(span) = 1 /\ (retried = {} \/ scenario.direct)
      THEN retried \cup Plain(<<UnknownOption(sentence, span[1])>>)
      ELSE retried

Plenty == 100   \* more partial options than a phrase has

\* The options of a span are what its graphs and its markup say, whatever other
\* sentences and threads have left in the cache (TransOptCache), and the limits
\* take away the worst of them only: an option is missing because maxOptions
\* others are as good, or because it is further below the best than the
\* threshold.  Limits of the partial options may take away more, but, when graphs
\* have one step, not the best.
BestOptionsKept ==
  AllDone /\ ~undefined => \A i \in DOMAIN results : \A c \in Spans :
    LET all  == Wanted(scenario.sentences[i], c)
        kept == Plain(results[i].options[c])
        best == Max({FutureScoreOf(o) : o \in all})
        limitless == scenario.maxPartial >= Plenty
    IN  limitless \/ (\A g \in DOMAIN scenario.graphs : Len(scenario.graphs[g]) = 1) =>
          /\ kept \subseteq all
          /\ all # {} => \E o \in kept : FutureScoreOf(o) = best
          /\ limitless => \A o \in all \ kept :
               \/ /\ scenario.threshold # NegInf
                  /\ FutureScoreOf(o) < best + scenario.threshold
               \/ /\ scenario.maxOptions > 0
                  /\ Cardinality({p \in all \ {o} : FutureScoreOf(p) >= FutureScoreOf(o)})
                       >= scenario.maxOptions

\* The comment on the "persistent (cross-sentence) cache for stored translation
\* options": what is found there is stored there while it is copied.
StoredWhileCopied == ~undefined
=============================================================================
