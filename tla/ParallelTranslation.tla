------------------------- MODULE ParallelTranslation -------------------------
(***************************************************************************)
(* moses-cmd's Main: the main thread reads the input and submits one       *)
(* TranslationTask per line to the thread pool; the tasks write their      *)
(* results to the output collectors; at the end the pool is flushed and    *)
(* the process exits.                                                      *)
(*                                                                         *)
(* A task's Run translates its line and then calls Write of the collectors *)
(* in a fixed order.  The alignment is written only when the search has    *)
(* found a translation (one-best, MAP decoding).                           *)
(***************************************************************************)
EXTENDS ThreadPool, OutputCollector

CONSTANTS Collectors,     \* the collectors in the order Run writes to them
          Alignment,      \* the collector of -alignment-output-file
          Untranslatable  \* lines for which the search may find nothing

\* Run has one call of Write for each collector.
ASSUME CollectorsAssumption ==
  /\ Collectors \in Seq({Collectors[i] : i \in 1 .. Len(Collectors)})
  /\ \A i, j \in 1 .. Len(Collectors) : Collectors[i] = Collectors[j] => i = j

CollectorSet == {Collectors[i] : i \in 1 .. Len(Collectors)}

VARIABLES collector,  \* the state of each collector
          written,    \* how many of the collectors the worker's task has dealt with
          found       \* Manager::GetBestHypothesis of the worker's task is not null

vars == <<poolVars, collector, written, found>>

Init ==
  /\ PoolInit
  /\ collector = [c \in CollectorSet |-> NewCollector]
  /\ written = [w \in Workers |-> 0]
  /\ found = [w \in Workers |-> FALSE]

\* Manager::ProcessSentence.
Translate(w) ==
  /\ pc[w] = "run" /\ written[w] = 0
  /\ written' = [written EXCEPT ![w] = 1]
  /\ \E f \in BOOLEAN :
       /\ ~f => task[w] \in Untranslatable
       /\ found' = [found EXCEPT ![w] = f]
  /\ UNCHANGED <<poolVars, collector>>

\* Mutant: a task without a translation writes to no collector.
SkipsEverything(c, w) == ~found[w]

\* OutputAlignment is called only "if (bestHypo)".
Skips(c, w) == c = Alignment /\ ~found[w]

\* The next collector's turn in Run.
WriteNext(w) ==
  /\ pc[w] = "run" /\ written[w] \in 1 .. Len(Collectors)
  /\ LET c == Collectors[written[w]]
     IN  IF Skips(c, w) THEN UNCHANGED collector
         ELSE \E o \in Write(collector[c], task[w]) :
                collector' = [collector EXCEPT ![c] = o]
  /\ written' = [written EXCEPT ![w] = @ + 1]
  /\ UNCHANGED <<poolVars, found>>

\* Run returns.
EndRun(w) ==
  /\ written[w] = Len(Collectors) + 1
  /\ FinishTask(w)
  /\ written' = [written EXCEPT ![w] = 0]
  /\ found' = [found EXCEPT ![w] = FALSE]
  /\ UNCHANGED collector

Run(w) == Translate(w) \/ WriteNext(w) \/ EndRun(w)

\* The steps of the pool around Run.
PoolStep(A) == A /\ UNCHANGED <<collector, written, found>>

Next ==
  \/ PoolStep(MainStep)
  \/ \E w \in Workers : PoolStep(WorkerStep(w)) \/ Run(w)
  \/ PoolStep(SpuriousWakeup)

\* Every thread goes on when it can; every search ends.
Spec ==
  /\ Init /\ [][Next]_vars
  /\ WF_vars(PoolStep(MainStep))
  /\ \A w \in Workers : WF_vars(PoolStep(WorkerStep(w)) \/ Run(w))

-----------------------------------------------------------------------------
(* Properties *)

\* A worker is at most behind the last collector, only while its task runs.
TypeOK ==
  /\ PoolTypeOK
  /\ \A c \in CollectorSet :
       /\ collector[c].nextOutput \in 0 .. NumTasks
       /\ collector[c].outputs \subseteq collector[c].nextOutput + 1 .. NumTasks - 1
  /\ written \in [Workers -> 0 .. Len(Collectors) + 1]
  /\ \A w \in Workers : written[w] # 0 => pc[w] = "run"

Streams == CollectorSet \ {Alignment}

Promised == INSTANCE OrderedOutput WITH
              NumLines <- NumTasks, out <- [c \in Streams |-> collector[c].out]

\* Every output stream gets its lines in the order of the input, whatever the
\* order in which the tasks finish, and in the end all of them.
OutputOrdered == Promised!Spec

\* The lines whose tasks are through with the i-th collector.
DoneWith(i) == executed \cup {task[w] : w \in {w \in Workers : written[w] > i}}

\* "Write or cache the output, as appropriate": what a task has written and the
\* stream does not show yet is in the cache, and only that; and nothing is left
\* in a cache when moses exits, since Stop(true) returns only when every task has
\* written ("flush remaining jobs").
NothingLost ==
  \A i \in 1 .. Len(Collectors) :
    LET c == collector[Collectors[i]]
    IN  Collectors[i] # Alignment =>
          /\ ToSet(c.out) \cup c.outputs = DoneWith(i)
          /\ main = "done" => c.outputs = {} /\ c.nextOutput = NumTasks

\* OutputCollector's comment, "Makes sure output goes in the correct order", of
\* the alignment file: a line per sentence.
AlignmentFlushedAtExit == main = "done" => collector[Alignment].outputs = {}

\* The same comment, of the debug stream: no line is overtaken or left out.
DebugOrdered ==
  \A c \in CollectorSet :
    collector[c].debug = [k \in 1 .. Len(collector[c].debug) |-> k - 1]
=============================================================================
