# A TLA+ model of the Moses decoder

Moses is a statistical machine translation decoder. `moses` reads sentences,
finds for each a translation that scores best under weighted models, and writes
translations, n-best lists, alignments and search graphs. These modules model the
parts of it whose correctness depends on long sequences of steps or on the order
of the steps of several threads: how translation options are made and shared
between threads, the three searches (stack decoding, cube pruning, chart
decoding) with their reordering rules, stacks and estimates, the n-best lists
taken from them, and the threads that run searches in parallel and write results
in order. All paths below are relative to the repository, whose files are under
`src/`; `moses/src/X` is `src/moses/src/X`.

## 1. Inventory

### The parts and how they interact

`moses-cmd/src/Main.cpp` reads a line, makes a `TranslationTask` of it and
submits it to the `ThreadPool`. A worker runs the task: it builds a `Manager`,
which collects translation options (`TranslationOptionCollection`) from the phrase
tables by the steps of the decode graphs, or from a cache that all threads share,
computes the matrix of future scores, and calls a `Search`: `SearchNormal` (stack
decoding) or `SearchCubePruning`. The search makes `Hypothesis` objects, each the
extension of an earlier one by a translation option; stacks prune and recombine
them. The task then asks the manager for the best hypothesis, n-best lists, word
graphs and alignments and gives each text to an `OutputCollector`, which writes it
when all earlier lines have been written. `moses-chart-cmd` does the same with a
chart decoder and `server/mosesserver.cpp` runs searches for XML-RPC requests.

| component | state | operations | hard behaviour | what makes it correct |
|---|---|---|---|---|
| coverage (`WordsBitmap`, `WordsRange`, `InputType`) | one flag per source word | first gap, last word, overlap, numeric IDs, distance of a jump | boundary positions, IDs of a fixed width | distinct coverages have distinct IDs |
| reordering constraints (`ReorderingConstraint`) | walls, local walls, zones of a sentence | `SetWall`, `SetZone`, `SetMonotoneAtPunctuation`, `FinalizeWalls`, `Check` | cases of `Check` interact over several expansions | walls and zones hold for every derivation; no dead ends |
| lexicalised reordering (`LexicalReorderingState`, `ReorderingStack`) | previous range, a stack of blocks, a coverage of its own | `Expand`, `ShiftReduce` | merging of neighbours over many phrases | the models agree where they are defined to |
| options (`TranslationOptionCollection`, `DecodeStep*`, `PartialTranslOptColl`) | lists of options per span, partial options | creation by decoding steps, backoff, markup, retry, unknown words, pruning | limits at four places; each source of options looks at what earlier ones left | an option for every word; only the worst are taken away |
| option cache (`StaticData`) | map with use times, shared by threads | find, add, reduce, clear | pointers used after the lock is released | what comes out is what the graphs would make; no list is deleted while it is read |
| future scores (`SquareMatrix`, `CalcFutureScore`) | a matrix over spans | fill, sum over gaps, sum with an additional span | order of filling, gaps at the edges | estimate equals the best completion |
| phrase-based search (`SearchNormal`, `Hypothesis`) | stacks, back pointers, the stack whose turn it is, timeout | `ProcessSentence`, `ProcessOneHypothesis`, `ExpandHypothesis`, `GetBestHypothesis` | pruning while back pointers exist, dead ends by the distortion limit, timeout between stacks | finds a translation; exact without pruning; no deleted hypothesis is used |
| stacks (`HypothesisStackNormal`, `HypothesisStackCubePruning`) | hypotheses, best and worst score, worst score per coverage, arc lists | `Add`, `AddPrune`, `PruneToSize`, `CleanupArcList`, `AddArc` | lazy pruning, stale bounds, transfer of arc lists | the best survives; each hypothesis has one owner |
| cube pruning (`SearchCubePruning`, `BitmapContainer`) | containers, edges, queues per coverage | seeding, pop, push neighbours, minimum per container | laziness, limit of pops, timeout | nothing made twice or forgotten; exact without limits |
| n-best lists (`Manager`, `TrellisPath*`) | contenders, list | `CalcNBest`, deviations | contenders pruned while they grow | the n best paths, without duplicates |
| chart decoding (`ChartManager`, `ChartCell`, `RuleCubeQueue`, `ChartRuleLookupManagerMemory`) | chart of cells, dotted rules | lookup, filling of cells by cubes, `CalcNBest` | rules completed while lists grow, limits that burst, laziness | all matching rules found; language model scores true; exact without limits |
| language model in the chart (`LM/Implementation`) | prefix, suffix, partial scores of a hypothesis | `EvaluateChart`, `Compare` | words whose context is not known yet | the sum of the parts is the score of the whole |
| thread pool (`ThreadPool`) | task queue, two flags | `Submit`, `Stop`, `Execute` | `if` instead of `while` around a wait, flags read outside the lock | each task once; no lost wakeup; `Stop` returns |
| output (`OutputCollector`, `TranslationTask`) | next line, cache | `Write` | results in any order, missing results, shared streams | lines in order, nothing left at exit |
| server (`mosesserver.cpp`) | updater shared by requests | update, translate | members shared between requests | a request sees its own parameters |
| dynamic models (`DynSAInclude`, `DynSuffixArray`) | filters, suffix array | insert, delete, reorder | in-place updates | array stays sorted |

Language models as such, phrase tables (in memory and on disk), KenLM, `mert`, the
training scripts and the tools are scores, maps, file formats or batch programs;
`PROJECT.json` lists them with the reason why they are not modelled.

The hazards, each at its line with the properties that watch it, are in
`PROJECT.json`.

### Plan

Written, in this order: coverage and constraints; expansion; stacks; future scores;
the search that composes them; pool; collectors; their composition; proofs about
expansion and the pool; lexicalised reordering; n-best lists; cube pruning; chart
decoding with its language model and n-best lists; decoding steps, the cache and
the collection of options; proofs about zones and local walls, the stacks, the collectors and
their refinement of `OrderedOutput`; the proofs that a search never deletes a predecessor and finds
a translation; the same, with ownership, for cube pruning; that coverage IDs are distinct
and that the reordering models agree.

What is left:

1. Theorems: that every word has an option (`EveryWordHasOption` of `TranslationOptions`); ownership in
   the chart.
2. The suffix array's updates against a sorted array; word lattices as inputs of
   the search; the updater of the server.

## 2. Modules and code

| module | code | state and actions |
|---|---|---|
| `Coverage` | `WordsBitmap.h`, `WordsRange.h`, `InputType.cpp` | operators; a bitmap is the set of translated positions |
| `BitmapID` | `WordsBitmap.h` `GetID`, `GetIDPlus` | operators; the width 16 is `PatternBits` |
| `ReorderingConstraint` | `ReorderingConstraint.cpp`, `Sentence.cpp` | operators: how a sentence's constraint is assembled, and `Check` |
| `ExpansionRules` | `SearchNormal::ProcessOneHypothesis` | `CanExpand`: length, options, overlap, constraints, distortion limit |
| `HypothesisExpansion` | the same, as a state machine | one derivation: coverage, last range, constraint; `Expand(s, e)` |
| `CoverageIDs` | composition of the two above | no new state |
| `LexicalReordering` | `LexicalReorderingState.cpp`, `ReorderingStack.cpp` | a derivation with the states of the three models |
| `Scores`, `FutureScore` | `TranslationOptionCollection::CalcFutureScore`, `SquareMatrix.cpp` | operators |
| `DecodeSteps` | `DecodeStepTranslation`, `DecodeStepGeneration`, `PartialTranslOptColl`, `TranslationOption` | operators; those that prune return all outcomes of `nth_element` |
| `TransOptCache` | the cache of `StaticData.cpp` | operators: find, add, reduce |
| `TranslationOptions` | `CreateTranslationOptions` and callees, several threads | `TakeSentence`, `Skip`, `OnlyMarkup`, `FindInCache`, `CopyFound`, `Create`, `Complete` |
| `HypothesisStack` | `HypothesisStackNormal`, `Hypothesis::AddArc`, `CleanupArcList`, `RecombineCompare` | operators that return the set of outcomes (ties in a sort may be broken either way) |
| `StackLifecycle` | one stack while hypotheses arrive, then its turn | `Arrive` (`AddPrune`), `Turn` (`PruneToSize`, `CleanupArcList`) |
| `HypothesisScoring` | `Hypothesis::CreateNext`, `CalcScore`, feature states | operators shared by the two phrase-based searches |
| `SearchNormal` | `SearchNormal::ProcessSentence` and callees | `StartStack`, `ProcessOneHypothesis`, `ExpandHypothesis`, `FinishStack`, `TimeOut`, `Return` |
| `NBestList` | `Manager::CalcNBest`, `TrellisPath` | extends `SearchNormal`: winners of arcs, then contenders and list |
| `HypothesisStackCubePruning` | its class | operators over the record of `HypothesisStack` |
| `SearchCubePruning` | `SearchCubePruning::ProcessSentence`, `BitmapContainer` | containers, edges, queues, stacks; one action per step of the loops |
| `ChartLanguageModel` | `LanguageModelImplementation::EvaluateChart`, `LanguageModelChartState` | operators |
| `ChartHypothesisCollection` | its class | operators over the record of `HypothesisStack` |
| `ChartRuleLookup` | `ChartRuleLookupManagerMemory`, `ChartTranslationOptionList` | operators: dotted rules from span to span, the limits on options |
| `ChartDecoding` | `ChartManager::ProcessSentence`, `ChartCell`, `RuleCubeQueue` | the chart; one action per step of filling a cell |
| `ChartNBestList` | `ChartManager::CalcNBest`, `ChartTrellis*` | extends `ChartDecoding`: contenders and list |
| `ThreadPool` | `ThreadPool.cpp` | one action per section under the lock and per step outside it |
| `OutputCollector` | `OutputCollector.h` | `Write` as an operator |
| `OrderedOutput` | what the collector promises | abstract specification: lines appear in order, in the end all |
| `ParallelTranslation` | `Main.cpp`: `TranslationTask::Run`, the main loop | `ThreadPool` with tasks that translate and write to collectors one after the other |
| `MC*` | | instances for TLC; `MCSentences` holds sentences for both phrase-based searches |
| `HypothesisExpansionProofs`, `StackLifecycleProofs`, `SearchNormalProofs`, `SearchCubePruningProofs`, `ParallelTranslationProofs` | | theorems about the modules of the same names; the first also about `CoverageIDs` and `LexicalReordering`, the last also about `ThreadPool` |
| `HypothesisStackProofs`, `ExpansionRulesProofs`, `HypothesisScoringProofs` | | the lemmas about the operators of `HypothesisStack`, `ExpansionRules` and `HypothesisScoring` |

A hypothesis has an id, its predecessor's id, option, coverage, range, state of the
features, score and total (score plus future score), the members that pruning,
recombination and expansion read. Pointers are ids. The set `freed` records
deletions, so that use after deletion can be stated. Scores are integers. In the
phrase-based searches the language model is a bigram table, the smallest one with a
state; in the chart it is a function of up to `Order` words whose values hardly ever
coincide, so that a word scored with the wrong context shows.

In `TranslationOptions` a thread's lookup in the cache and its copying of what it
found are two steps, because the lock is released in between; everything else about
the cache happens under the lock. Use times matter by their order only and are kept
as ranks; `clock()` may or may not advance between two uses.

`ThreadPool` distinguishes a worker that waits (`waiting`) from one that has been
notified but has not got the lock again (`woken`). A wait may also return without
notification (`SpuriousWakeup`), as boost's condition variables allow.
`m_stopped` is read without the lock at the end of `Execute`'s loop; the read is a
step of its own.

Undefined behaviour ends a behaviour: after the read of a deleted list, of an unset
`m_winningHypo`, or a deletion twice, `undefined` holds and no step follows.

## 3. Runs

Twelve runs, seven that pass and five that show a disagreement between the code
and what its comments say. `CHECK_DEADLOCK FALSE` where the modelled system simply
ends: derivations, searches, `moses` itself. In `chart` deadlock is checked: a
decoder that has not returned has a step to take.

| run | what it checks | bounds |
|---|---|---|
| `expansion` | dead ends, walls, local walls, zones, coverage IDs, orientations | 5 words, limit 3, phrases up to 3, every translated prefix as a seed, all pairs of nested or disjoint zones in both orders with up to two walls or punctuation marks; 68 000 states |
| `stacks` | the best survives, ownership, size, diversity, nothing given up without reason | 5 arrivals, 2 coverages, 2 states, 3 scores; stack size 2 without lists, size 1 with diversity 1 and lists of one; 1 553 000 states |
| `options` | an option for every word, only the worst taken away, estimates exact | 4 words, phrases up to 2; two tables with limits, generation, two graphs in both orders with three kinds of backoff; limits of partial options 1, 2 and none, of options 1, 2 and none, a threshold, direct and dropped words; three treatments of markup; caches of 1, 2, 4 and 10 lists, two sentences by one thread or by two; 432 assignments of scores; 260 000 states |
| `search` | a translation, the optimum, the graph of arcs, the n-best list | 4 words, 33 sentences, one of them with walls and one with a zone and a wall in it, 4 settings from stack size 2 with a narrow beam to none, timeouts at any stack; 30 000 states |
| `cube` | the same for cube pruning, and ownership | 37 sentences, those of `search` among them, 3 stack and 3 cube settings (pop limit 1, 2, 500, diversity 0, 1, 0), time limit; 18 000 states |
| `chart` | matching rules, language model scores, optimum, graph, ownership, n-best scores | 5 words with `<s>` and `</s>`, order 3, 32 grammars with tight limits and with none, lazy scoring or not; tables of span 3 and of any span; a grammar with many ties; 34 000 states |
| `output` | pool and collectors together | 3 workers, 3 lines, 2 collectors; 127 000 states |
| `id_plus`, `search_timeout`, `cache_race`, `output_alignment`, `output_debug` | findings, section 6 | as above; `cache_race` 2 words, 2 threads, a cache of 2 |

Why the bounds are enough:

- `expansion`: 5 words hold two disjoint or properly nested zones, a word outside both and
  a wall between any two words; with limit 3 and phrases of 3 words a window has
  room for two phrases behind the first gap and a jump over a gap. Zones are nested or
  disjoint as tags can nest them. `PatternBits` is scaled from 16 to 2 so that
  the limit is the largest for which the assertion of `GetID` holds: one more word
  in the window would violate it. The orientations differ from the second phrase on,
  and a block left unmerged shows at the fourth.
- `stacks`: 5 arrivals exceed the tolerated size and leave arrivals after a pruning; three
  scores with beam -2 have totals inside, on the edge of and beyond the beam. A
  winner that loses again to a third hypothesis needs three equivalent arrivals.
- `options`: backoff tells spans of one word from spans of two; a list of partial options
  with limit 1 is pruned at the third option and refuses a later one; a cache of
  two or four lists is reduced several times by two sentences with the same
  words in another order. Two graphs are not combined with markup on spans that both
  visit, nor limits of partial options with the claim about every option: section 6
  says what happens there.
- `search`, `cube`: at stack size 2, stacks are pruned lazily and before their turn, and
  there are sentences whose best-scoring hypotheses leave a first gap behind. The two
  sentences with constraints are the same but for the score of one option; without the constraint
  the best order of both begins with the second word, which the walls and the zone forbid.
  `PositionBits` is scaled from 16 to 3 so that grids reach near the limit.
- `chart`: rules begin and end with words and with non-terminals, two non-terminals are
  swapped, a rule's middle word stands between two; targets of one word are shorter
  than the context of order 3, so that prefixes of prefixes occur.
- `output`: three workers are needed: a cache that is not contiguous (line 2 waits
  for 1, line 1 for 0) needs three tasks at the end of their searches at once. Two
  collectors because the writes of a task to them interleave with other tasks'.

The bounds in guards are `MaxHypos` (hypotheses created) and `MaxArrivals` (arrivals at a
stack); `MaxHypos` is beyond what any instance creates, which `ListReturned`,
`SearchReturns` and the deadlock check of `chart` would show otherwise. `NotFound`
stands for the largest `size_t`, `NegInf` for minus infinity.

Each property has a mutant in `PROJECT.json`: a change of one definition, such
as a programmer could make, under which TLC finds the property violated. The
mutated forms are next to the definitions, under "Mutant".

### Fairness

- `SearchNormal`, `NBestList`, `SearchCubePruning`: weak fairness of the whole next-state
  relation. One thread runs them and calls nothing that blocks.
- `ThreadPool`, `ParallelTranslation`: weak fairness of the main thread and of each
  worker, because the operating system schedules threads that can run and
  a search ends (`ListReturned`, `SearchReturns`). Waiting threads get no fairness:
  nothing makes a wait return but a notification; spurious wakeups may happen and need not.
- `TranslationOptions`, `ChartDecoding`, the derivations and stacks: none, no liveness is claimed.
- With no worker thread (`-threads 0`) `Stop(true)` waits for ever if a line was submitted;
  `WorkersAssumption` excludes it.

## 4. What the checks show

- *Reordering.* The distortion rule looks at the jump to the new phrase and at the
  jump back it makes unavoidable, and that is enough: every unfinished hypothesis can
  be continued, if the seed was inside the window. The comment on this rule
  (`moses/src/SearchNormal.cpp:227-233`) says the opposite of its condition, "less than
  the distortion limit, we don't allow": the code skips when the distance is
  *greater*. Seeds outside the window do have dead ends, and so do zones that cross
  each other; both are excluded from the instances (`SeedsInWindow`, `Nested`).
- *Orientations.* The stack of blocks stays reduced, and the hierarchical models
  give the orientation that the set of translated words determines.
- *Options.* Every word ends up with an option, whatever the limits, the markup and the order
  of the graphs: the assumption of the theorem `NoDeadEnds` holds of what the
  searches are given. What comes from the cache is what the graphs would have made,
  also when two threads fill and reduce it, in behaviours in which no deleted list is read.
  The estimates equal the best completions, also in the variant that looks at a
  phrase before its hypothesis is built.
- *Stacks.* A discarded hypothesis was recombined with a better one, is beyond the beam,
  or others that are as good or stay for diversity fill the stack. Pruning may drop any
  of several hypotheses with the same score and the properties hold for every choice.
- *Searches.* Optimality holds for recombination by coverage and feature states;
  with states left out of the comparison TLC finds a better derivation that was lost.
  Cube pruning makes no hypothesis twice and, without limits, builds the same graph as
  the exhaustive search. The n-best list is the best of all derivations in it.
- *Chart.* Every rule that matches a span is found, although rules are completed
  over lists that grow; limits refuse only options that are no better than those that stay;
  the language model score put together from prefixes is that of the words. Pop limits
  cut cells off, but glue rules still lead to a translation.
- *Threads.* The single test around the wait is sound because the code after it tests the queue
  again, because workers loop, and because `Submit` notifies all under the lock.
  `m_stopped` is set while tasks still run; `join_all`
  makes `Stop` wait for them.
- *Output.* The collectors refine `OrderedOutput` (property `OutputOrdered`), with the streams' lines
  as the refinement mapping. The alignment collector is left out of the mapping:
  the code skips it for a line without a translation (section 6).

## 5. Proofs

`tlapm` proves the theorems for all values of the constants that satisfy the named
assumptions (`ASSUME`) of the modules; TLC evaluates these assumptions in every run.

### Reordering: `ExpansionRulesProofs`, `HypothesisExpansionProofs`

The first module holds the lemmas about one coverage and one step: that an expansion within the limit keeps
the first gap in reach and the window narrow (`ExpansionInReach`), and that a gap in reach can be
translated (`GapCanBeTranslated`). A single derivation (the second) and the
searches rest on them. For every sentence length, limit, maximal phrase length, set of option spans, set of
constraints and set of seeds:

- `TypeCorrect`: `Spec => []TypeOK`.
- `DistortionLimitHolds`: `Spec => [](FirstGapInReach /\ WindowWithinLimit)`, from
  seeds inside the window (`SeedsInWindow`). The inductive invariant `DistortionInv` is
  `TypeOK`, `WindowWithinLimit` and `FirstGapInReach` together. Neither of the last two is
  inductive alone: when the first gap is filled, that the new first gap is in reach follows
  from the window, and that the window stays narrow follows from the limit on the jump back
  from the new phrase; this step is `ExpansionInReach`. The least element of a set of positions (`GetFirstGapPos`) comes
  from the well-foundedness of < on the naturals.
- `NoDeadEnds`: every unfinished hypothesis can be expanded, for every limit, negative
  ones included, and all walls, in sentences without zones in which every word has an option
  (`EveryWordHasOption`, checked in the run `options`). Without a limit, `SeedsInWindow` asks
  for seeds that translate a prefix. The witness is the first gap itself: reaching it is allowed by
  `FirstGapInReach`, and a phrase that starts there passes all walls.
- `WallsAreRespected`: `Spec => []WallsHold`, for seeds that respect the walls.
- `ZonesAreFinished`: `Spec => ZonesFinishOnceEntered`, with no condition on zones, limits or
  seeds. `Check` skips its loop over the zones when the phrase continues a translation without gaps;
  then the coverage is a prefix (`MonotonePrefix`) and the phrase starts inside the zone. Otherwise a
  begun zone leaves only the branch for phrases inside (`PhraseInZone`), whose
  comparison of counts means that the phrase takes all that is left (`ZoneFilled`).
- `LocalWallsAreRespected`: `Spec => []LocalWallsHold`, for constraints that `Sentence::Read`
  makes of any punctuation, any walls and any number of nested zones (`ConstraintsOfSentences`),
  and seeds that respect the local walls. That `FinalizeWalls` gives a wall to the innermost zone
  around it (`WallsFinalized`) is an induction over its passes: a wall that k zones have had a chance
  to claim is there only if none of them is around it, and one that was claimed belongs to the
  innermost of them (`Claimed`). Zones that cross each other break it, and tags cannot write them.

- `CoverageIDsDistinct`: `Spec => []IDsDistinct`, for distortion limits up to `PatternBits + 1` (17 in the code) and
  seeds in the window. From the proofs above, the pattern of a coverage has no more than
  `PatternBits` positions (`WindowFits`), so that it stays below the shifted position of the first gap
  (`DoublingBounded`, `PartsOfID`). Two equal patterns have the same bits, read from the last one on
  (`SameNumbers`), and the same length, because each begins with a translated word (`FirstBitCounts`).
  The loop is a recursive function, and these lemmas are inductions over it by way of the least counterexample.
  Without a limit, or with one beyond 17, the assertion of `GetID` fails and IDs collide.
- `ReorderingModelsAgree`: `ReorderingSpec => []OrientationsAgree`, without any condition. The inductive invariant
  `BlocksInv` relates the three states to the hypothesis: the blocks of `ReorderingStack` are disjoint and cannot be
  merged with the one below (`StackSound`), they are the words of the forward model's coverage, which the
  hypothesis has translated, and the previous phrase is inside the block on top. The last part is what lets
  the models agree (`NextModelsAgree`): the next phrase is on one side of the block on top (`TopApart`), and so
  on the same side of the previous phrase in it. That `ShiftReduce` keeps the blocks (`ShiftReduceSound`) rests on the loop
  of `Reduce`: after each turn the merged span is the given one with the blocks taken off so far, and is
  apart from those that are left (`ReduceSound`, by least counterexample). It has to hold the given phrase
  on top also when blocks from both sides have joined it.

### Stacks: `HypothesisStackProofs`, `StackLifecycleProofs`

The lemmas of the first are about the operators of `HypothesisStack` and know nothing of
behaviours; the second proves all five properties of the run `stacks`, for every stack size, beam,
diversity and set of scores, with n-best lists and without, every sequence of arrivals and every
choice among ties:

- `OwnershipHolds` (`OwnedOnce`), `BestIsKept` (`BestNeverLost`), `SizeIsBounded` (`SizeBounded`):
  invariants.
- `NoneGivenUpRashly` (`GivenUpForGoodReason`), `DiversityIsRespected` (`DiversityRespected`): what no
  step may do.

The inductive invariant (`StackInvariant`) is `Consistent`, with the numbering of arrivals and the
size. `Consistent` relates the stack, the arc lists, the deleted hypotheses and all that arrived:

- `Owned`, ownership, needs `Numbered`: arc lists are found by id, and a new
  hypothesis has a number whose list is empty.
- `BestHeld`: the cached best score is that of a hypothesis on the stack.
- `QuotaEarned`: the cached worst score of a coverage is minus infinity, or as many
  hypotheses of that coverage as the diversity asks for are on the stack and at least as good. This is
  why it is right to discard what is below it without looking at the stack.
- `WorstEarned`: the cached worst score of the stack, which later arrivals are compared with, is minus
  infinity, or beyond the beam, or was set by a pruning that filled the stack: there is a set
  `K` of at least the maximal size (`Fills`) whose members are as good, or are there for the diversity of
  their coverage. Between prunings hypotheses are replaced by better equivalent ones, so
  `K` has to be rebuilt when a member goes or when a better one of its coverage arrives: the new one
  takes the place of the worst of its coverage in `K` (`EnteredFills`). The claim about the current
  stack alone (`NoPlaceFor`) is not inductive.

`WorstEarned` was checked by TLC as an invariant of the run's instance before it was proved. The attempt to
prove an earlier form of `GivenUpForGoodReason`, which counted only hypotheses that are as good as
the one given up, failed for a reason: with larger sizes and diversities, places on the stack are also taken by
hypotheses that are worse and stay for the diversity of their coverage. The property now counts
these (`KeptForDiversity`).

Assumptions: those of `HypothesisStack` (stack size above 0, beam below 0), `ArrivalsAssumption`
(scores are not below minus infinity) and `DiversityAssumption`, that the hypotheses which diversity alone
can keep fit into the tolerated size, which is what `Add` computes it for: no more
than `2^StackDistortion` coverages of one length within the distortion limit.

### Searches: `SearchNormalProofs`

For every sentence, every list of options and every size, beam and diversity of the stacks, for the search
(`Spec`) and for the one of which an n-best list is made (`ListSpec`):

- `PredecessorsSurvive`: `[]PredecessorsAlive`.
- `TranslationIsFound`: `[]TranslationFound`, if every word has an option of its own
  (`EveryWordHasOption`, which the run `options` checks of the collection of options) and no sentence
  has zones (`NoZones`). Walls are allowed: a phrase in the first gap passes them.

The inductive invariant (`SearchInvariant`) says what pruning by the code's schedule amounts to:

- `StacksOwn`: stack k is `Consistent`, in the sense of the stacks' proofs, with the hypotheses created that
  translate k words. Several stacks share the arc lists and the numbering, which is why the lemmas say that an
  operation of one stack touches arc lists of its own hypotheses only (`OthersConsistent`), and why
  `NumberedInOrder` is needed.
- `ExtendedInTurn`: every predecessor is on a stack whose turn has begun. From there no hypothesis is
  deleted any more: an option translates at least one word (`ExtensionIsLonger`), so that `AddPrune` only works
  on stacks whose turn is still to come, and `PruneToSize` runs once for each stack, at the beginning
  of its turn, before its hypotheses are listed.
- `LoopsOnStack`: what the two loops still have to do consists of hypotheses of the current stack and of
  options that may extend the base.
- `SentenceKept`: every hypothesis has its first gap within reach and its window within the distortion limit,
  and its score is at least that of as many of the costliest steps as it has translated words, so that the
  stacks never meet a score below minus infinity.

On top of it, `SearchProgress` is the induction over the stacks:
every stack up to the current one has had hypotheses, and each hypothesis of the current stack whose turn
is over has reached the next stack, or the option for its first gap is still to be tried.
It combines the two halves of the decoder. The stacks keep a hypothesis
with the best score (`BestHeld`), so that one that has had hypotheses is not empty, whatever it
pruned or recombined; and whichever hypothesis that is, the distortion rule
has left its first gap in reach and no wall keeps a phrase out of that gap (`GapCanBeTranslated`), so that it can
be extended by one word.

TLC checked `SearchProgress`'s invariant on the whole instance of the run `search`, and the
others on a part of it, before they were proved.

Assumptions: `OptionsAssumption` (the options of a sentence are for its spans), `NegInfAssumption` and
`CostsAssumption` (the scores of steps and the estimates are integers, and minus infinity is an integer that no sum
of them falls below; floats have this by themselves), those of `HypothesisStack`, `CoveragesAssumption` (a stack
accepts every coverage), and `BoundAssumption` of the model (at least the seed fits into `MaxHypos`; a search that
reaches the bound stops there without having returned).

### Cube pruning: `SearchCubePruningProofs`

For every sentence, every list of options, and every pop limit, diversity, size and beam, with lazy pruning
or without, interrupted or not:

- `HypothesesOwnedOnce`: `Spec => []OwnedOnce`. A hypothesis of this search changes hands: it is made for the
  queue of a container, goes from there to a stack or an arc list or is deleted at once, and once
  its stack is pruned, containers and edges keep plain pointers to it.
- `CubeFindsTranslation`: `Spec => []TranslationFound`, if every word has an option of its own
  (`EveryWordHasOption`), no sentence has zones (`NoZones`; walls are allowed), and the distortion
  limit is -1 (none) or above.

The inductive invariant (`CubeSearchInvariant`) is the one of stack decoding for the stacks and the sentence,
with what this search adds to it:

- `StacksOwn`: stack k is `CubeConsistent` (the part of `Consistent` that holds under the `AddPrune` of
  `HypothesisStackCubePruning`, which compares hypotheses on the stack without the cached worst scores of coverages)
  with the hypotheses of k words that left the queues (`Popped`), and nothing in a queue is deleted.
- `ContainersKept`: the hypothesis of an item was made of its edge and has no arcs, and no two items
  have the same hypothesis. Without it a pop could not be known to bring a hypothesis to the stack that the stack
  does not own yet.
- `EdgesKept`: an edge leads from a stack whose turn is over to a container, by options of its span, and its
  candidates are on that stack. Hypotheses are put on edges when their stack has been pruned for the last
  time; that the mutant `ForwardedBeforePruning` breaks this is what the order of lines 136-146 is for.
- `TurnsKept`, `ExtendedInTurn`: the turns of the stacks, and that predecessors are on stacks whose turn is over.

On top of it, `CubeSearchProgress` is the induction over the stacks: each stack whose turn is
over was given a hypothesis, and so the current one has an edge with something to queue, or
something queued, or was given something. Four facts meet in it. A stack that was given something keeps its best
hypothesis. That hypothesis has its first gap in reach and, without zones, no constraint against it, so that the single word there passes
`CheckDistortion` when the container is connected and the test of the edge's constructor again when the edge takes up
its hypotheses. A grid that has a row and a column has a corner (`TranslationsOfSpan`: sorting the options
of a span leaves as many as there are). And a pop limit above 0 takes at least one item from a queue that is not empty.
Below -1 the two tests differ: `CheckDistortion` takes every negative limit for none, the constructor
only -1 (`moses/src/BitmapContainer.cpp:125`), and edges may stay empty; moses documents -1 only.

TLC checked the invariant on the instance of the run `cube`, and on
instances with limits of 2, 1, 0 and -1, before it was proved. Assumptions: those of the searches above,
and `CubeAssumption`.

### Scores and options: `HypothesisScoringProofs`

What both searches need of one hypothesis: that it is `WellMade`, from the seed and by
`CreateNext` (coverage, range, first gap in reach, window, and a score bounded from below by the number of words),
so that the theorems of the two searches rest on the same lemmas.

### Threads: `ParallelTranslationProofs`

The pool by itself, for every set of workers that is not empty and every number of tasks:

- `PoolInvariant`: the inductive invariant `PoolInv` = types, `EachTaskOnce`,
  `NoLostWakeup`, `Holding` (a worker holds a task exactly when it runs it) and
  `Stopping` (what the main thread has done at each point of `Stop`).
  `EachTaskOnce` needs `Holding` to know that the worker that takes a task had none,
  and `NoLostWakeup` needs `Stopping` to know that nobody goes to sleep after
  `m_stopped` is set.
- `TasksRunOnce`, `WakeupsArrive`, `StopWaitsForJobs`: the three safety properties of the pool;
  the last for `Stop(true)`. `Stop()` with its default argument leaves
  queued tasks behind.

The pool with the tasks and any number of collectors:

- `TranslationUsesPool`: every behaviour of the composition is one of the pool, so that lines
  are translated once (`LinesTranslatedOnce`) and all of them before `moses` exits (`AllLinesTranslated`).
- `NoLineLost` (`NothingLost`) and `TranslationTypeCorrect`, from `TranslationInvariant`: the pool's
  invariant, `Writing` (which collectors a task that runs has written to) and `Collecting`: the lines
  written to a collector are those below its `m_nextOutput` together with those in its cache, its stream
  shows exactly the former, and the line it waits for is not cached. Lemmas about `OutputCollector` show that `Write`
  keeps this, for any set of cached lines: the flush stops at the first line that is missing.
- `OutputFollowsInput`: the composition implements `OrderedOutput!Safety`, the abstract specification without
  its fairness: the initial states map to initial states and every step to a step or a stutter. A
  `Write` that flushes maps to one step that shows all flushed lines.

Assumption: the collectors are different objects (`CollectorsAssumption`).

### Only model-checked

- Liveness: `ListReturned`, `SearchReturns`, `StopReturns`, the last clause of `OrderedOutput`, which
  need ENABLED.
- `ChartDecoding`: ownership (`OwnedOnce`) and that it finds a translation. That the
  three searches find the optimum, and that the graphs are complete, which is an induction over derivations.
- Options, future scores and n-best lists, whose definitions fold over spans and lists.
- That every search finds a translation in sentences with zones (`NoDeadEnd` for all pairs of nested
  or disjoint zones, `TranslationFound` for one). The other theorems about the searches hold with zones.

## 6. Findings

- `id_plus`: `WordsBitmap::GetIDPlus` (`moses/src/WordsBitmap.h:233`) computes the
  ID of a coverage with one more span, but moves the first gap only to the end of
  that span and not over the translated words behind it. The ID differs from
  `GetID` of the same coverage when a gap is closed; the lookup of
  the worst score in early discarding then misses.
- `search_timeout`: a search that is out of time before its first stack has no
  expanded stack; `GetBestHypothesis` reads the pointer `actual_hypoStack`, which
  was never assigned. Timeouts measure one timer of the process
  (`moses/src/Util.cpp:45`), reset by the main thread when it reads a line at
  verbosity 1 (`moses-cmd/src/Main.cpp:471-473`), so that the time can be up when a task starts.
- `cache_race`: `FindTransOptListInCache` returns the pointer to a stored list when its lock is
  released; the options are copied from the list afterwards
  (`moses/src/TranslationOptionCollection.cpp:459-463`), while another thread's
  `ReduceTransOptCache` may delete it. Reducing keeps about a quarter of the size
  instead of half, because the bound of the loop at `moses/src/StaticData.cpp:1280` shrinks
  with every pop, which makes this likelier.
- `output_alignment`: the alignment of a line is written only if a translation was
  found (`moses-cmd/src/Main.cpp:151`); after one line without, all later
  alignments stay in the cache at exit.
- `output_debug`: `OutputCollector::Write` uses an iterator after it erased the
  element (`moses/src/OutputCollector.h:67`). The model lets the lookup find the text
  or not.

Seen in the code and in the model, without a run of their own:

- After a timeout `CalcNBest` reads the last stack (`moses/src/Manager.cpp:210`), whose
  arc lists were not cleaned up: `InitScore` follows `m_winningHypo` that was never set
  (`moses/src/TrellisPath.cpp:45`).
- The list that goes into the cache is the span's, not the graph's
  (`moses/src/TranslationOptionCollection.cpp:518`): with several graphs and no backoff,
  options come back twice, and options of one sentence's markup can come back in
  another sentence.
- An option of the markup is added once for each graph that visits its span
  (`moses/src/TranslationOptionCollectionText.cpp:69`), by pointer, and is then deleted twice.
  One that is longer than the maximal phrase length is never used.
- The `m_worstScore` of partial options is the score of an arbitrary one of those kept
  (`moses/src/PartialTranslOptColl.cpp:88`: the element behind which `nth_element` cut), so
  that options better than some of those kept are refused; the best one is not.
- The n-best list of the chart decoder starts from the single best hypothesis
  (`moses/src/ChartManager.cpp:155`) and never combines deviations in sibling sub-trees
  (`moses/src/ChartTrellisPath.cpp:98`): its scores are true, but it is not the list of the best.

Seen in the code, not modelled: minimum Bayes risk decoding with n-best lists on standard
output writes nothing there; two collectors may share standard output while each
has its own mutex; zones of the markup are not cut off at the end of the sentence
as walls are (`moses/src/Sentence.cpp:150-152`); `ClearTransOptionCache` takes no lock;
the out-of-vocabulary score counts twice in the future score of an option
(`moses/src/TranslationOption.cpp:144-150`, `LMList.cpp:62`); the test for digits in dropped
unknown words asks whether the first digit is the second character
(`moses/src/TranslationOptionCollection.cpp:217`); with `-drop-unknown` and several labels the chart
decoder deletes a target phrase once per label (`moses/src/ChartTranslationOptionCollection.cpp:269`).

## 7. Not modelled

Within the modelled parts: word lattices and confusion networks, constraint
decoding (a given output), early discarding (its second stage ends in assertions that it is
unfinished, `moses/src/Hypothesis.cpp:321`), rounding of floating point numbers,
`USE_HYPO_POOL` (a pool that deletes hypotheses later), the destruction of stacks, containers
and charts after a sentence, verbosity and statistics, MBR and lattice MBR decoding, lattice
samples and the output of search graphs, the features of a translation option (its score is
one number), tables on disk, labels of input trees, options outside the assumptions of
`HypothesisStack` (stack size 0, diversity without a distortion limit, a beam that is not
below 0). A distortion limit of -1 is covered by the proofs of `NoDeadEnds`, `TranslationIsFound` and
`CubeFindsTranslation` but by no run.

Whole components, with the reasons in `PROJECT.json`: the server (whether two
requests run at a time is decided by its library), the dynamic models, phrase tables in
memory and on disk, memory pools, KenLM, `mert` and the tools. These are the bulk of the
repository's lines; they are file formats, numerical programs or third-party code.
