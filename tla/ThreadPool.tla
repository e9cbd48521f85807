----------------------------- MODULE ThreadPool -----------------------------
(***************************************************************************)
(* ThreadPool: the worker threads that run translation tasks, and the main *)
(* thread that submits the tasks and stops the pool.                       *)
(*                                                                         *)
(* A section of the code under m_mutex is one action; waiting on a         *)
(* condition variable ends the section, and what follows the wait is the   *)
(* next one.  m_stopped is also read without the lock (the end of          *)
(* Execute's loop): a step of its own.                                     *)
(***************************************************************************)
EXTENDS Naturals, Sequences, FiniteSets

CONSTANTS Workers,          \* threads of the pool
          NumTasks,         \* tasks the main thread submits
          ProcessRemaining  \* argument of Stop

\* A pool without threads never runs anything.
ASSUME WorkersAssumption == Workers # {}
ASSUME TasksAssumption   == NumTasks \in Nat /\ ProcessRemaining \in BOOLEAN

Tasks  == 0 .. NumTasks - 1
NoTask == NumTasks

VARIABLES tasks,      \* m_tasks
          stopping,   \* m_stopping
          stopped,    \* m_stopped
          pc,         \* where each worker is in Execute
          task,       \* the task each worker holds
          main,       \* where the main thread is
          submitted,  \* number of tasks submitted
          executed    \* tasks that were run to the end

poolVars == <<tasks, stopping, stopped, pc, task, main, submitted, executed>>

PoolInit ==
  /\ tasks = <<>>
  /\ stopping = FALSE /\ stopped = FALSE
  /\ pc = [w \in Workers |-> "fetch"]
  /\ task = [w \in Workers |-> NoTask]
  /\ main = "submit"
  /\ submitted = 0
  /\ executed = {}

\* Mutant: a single thread is woken.
WakeOne(p) ==
  IF \E w \in Workers : p[w] = "waiting"
  THEN [p EXCEPT ![CHOOSE w \in Workers : p[w] = "waiting"] = "woken"] ELSE p

\* m_threadNeeded.notify_all
WakeAll(p) == [w \in Workers |-> IF p[w] = "waiting" THEN "woken" ELSE p[w]]

\* Mutant: the main thread is not notified.
MainNotWoken == main

\* m_threadAvailable.notify_all
MainWoken == IF main = "draining" THEN "woken" ELSE main

-----------------------------------------------------------------------------
(* Execute *)

\* Mutant: the task stays in the queue.
PeekTask(w) ==
  /\ pc' = [pc EXCEPT ![w] = "run"]
  /\ task' = [task EXCEPT ![w] = Head(tasks)]
  /\ UNCHANGED tasks

TakeTask(w) ==
  /\ pc' = [pc EXCEPT ![w] = "run"]
  /\ task' = [task EXCEPT ![w] = Head(tasks)]
  /\ tasks' = Tail(tasks)

\* "Find a job to perform": the rest of the section, with or without a wait.
FindJob(w) ==
  IF ~stopped /\ tasks # <<>> THEN TakeTask(w)
  ELSE /\ pc' = [pc EXCEPT ![w] = "notify"]
       /\ UNCHANGED <<task, tasks>>

Fetch(w) ==
  /\ pc[w] = "fetch"
  /\ IF tasks = <<>> /\ ~stopped
     THEN /\ pc' = [pc EXCEPT ![w] = "waiting"]
          /\ UNCHANGED <<task, tasks>>
     ELSE FindJob(w)
  /\ UNCHANGED <<stopping, stopped, main, submitted, executed>>

\* The wait returns, notified (from = "woken") or not (from = "waiting", a
\* spurious wakeup); the condition is not tested again.
Resume(w, from) ==
  /\ pc[w] = from
  /\ FindJob(w)
  /\ UNCHANGED <<stopping, stopped, main, submitted, executed>>

\* The task's Run returns; the task is deleted.
FinishTask(w) ==
  /\ pc[w] = "run"
  /\ pc' = [pc EXCEPT ![w] = "notify"]
  /\ task' = [task EXCEPT ![w] = NoTask]
  /\ executed' = executed \cup {task[w]}
  /\ UNCHANGED <<tasks, stopping, stopped, main, submitted>>

Notify(w) ==
  /\ pc[w] = "notify"
  /\ pc' = [pc EXCEPT ![w] = "check"]
  /\ main' = MainWoken
  /\ UNCHANGED <<tasks, stopping, stopped, task, submitted, executed>>

CheckStopped(w) ==
  /\ pc[w] = "check"
  /\ pc' = [pc EXCEPT ![w] = IF stopped THEN "exited" ELSE "fetch"]
  /\ UNCHANGED <<tasks, stopping, stopped, task, main, submitted, executed>>

-----------------------------------------------------------------------------
(* The main thread *)

Submit ==
  /\ main = "submit" /\ submitted < NumTasks
  /\ ~stopping
  /\ tasks' = Append(tasks, submitted)
  /\ submitted' = submitted + 1
  /\ pc' = WakeAll(pc)
  /\ UNCHANGED <<stopping, stopped, task, main, executed>>

\* Stop: "prevent more jobs from being added to the queue".
StopAccepting ==
  /\ main = "submit" /\ submitted = NumTasks
  /\ stopping' = TRUE
  /\ main' = IF ProcessRemaining THEN "drain" ELSE "stop"
  /\ UNCHANGED <<tasks, stopped, pc, task, submitted, executed>>

\* Mutant: the queue is not waited for.
NothingToDrain == TRUE

Drained == tasks = <<>> \/ stopped

\* Stop: "wait for queue to drain"; the test of the loop, at first and after
\* every return of the wait, notified ("woken") or not ("draining").
Drain(from) ==
  /\ main = from
  /\ main' = IF Drained THEN "stop" ELSE "draining"
  /\ UNCHANGED <<tasks, stopping, stopped, pc, task, submitted, executed>>

SetStopped ==
  /\ main = "stop"
  /\ stopped' = TRUE
  /\ main' = "wake"
  /\ UNCHANGED <<tasks, stopping, pc, task, submitted, executed>>

NotifyStopped ==
  /\ main = "wake"
  /\ pc' = WakeAll(pc)
  /\ main' = "join"
  /\ UNCHANGED <<tasks, stopping, stopped, task, submitted, executed>>

Join ==
  /\ main = "join" /\ \A w \in Workers : pc[w] = "exited"
  /\ main' = "done"
  /\ UNCHANGED <<tasks, stopping, stopped, pc, task, submitted, executed>>

MainStep ==
  \/ Submit \/ StopAccepting
  \/ Drain("drain") \/ Drain("woken")
  \/ SetStopped \/ NotifyStopped \/ Join

\* What a worker does besides running its task.
WorkerStep(w) ==
  Fetch(w) \/ Resume(w, "woken") \/ Notify(w) \/ CheckStopped(w)

SpuriousWakeup == Drain("draining") \/ \E w \in Workers : Resume(w, "waiting")

PoolNext ==
  \/ MainStep
  \/ \E w \in Workers : WorkerStep(w) \/ FinishTask(w)
  \/ SpuriousWakeup

\* Every thread goes on when it can, and every task's Run returns.  Nothing
\* makes a wait return without a notification.
PoolSpec ==
  /\ PoolInit /\ [][PoolNext]_poolVars
  /\ WF_poolVars(MainStep)
  /\ \A w \in Workers : WF_poolVars(WorkerStep(w) \/ FinishTask(w))

-----------------------------------------------------------------------------
(* Properties *)

PoolTypeOK ==
  /\ tasks \in Seq(Tasks)
  /\ stopping \in BOOLEAN /\ stopped \in BOOLEAN
  /\ pc \in [Workers -> {"fetch", "waiting", "woken", "run", "notify", "check", "exited"}]
  /\ task \in [Workers -> Tasks \cup {NoTask}]
  /\ main \in {"submit", "drain", "draining", "woken", "stop", "wake", "join", "done"}
  /\ submitted \in 0 .. NumTasks
  /\ executed \subseteq Tasks

Held == {task[w] : w \in Workers} \ {NoTask}
Queued == {tasks[i] : i \in 1 .. Len(tasks)}

\* A submitted task is in the queue, or with exactly one worker, or executed,
\* and in one of these places only: none is lost and none is run (and deleted)
\* twice (ThreadPool::Execute, Submit).
EachTaskOnce ==
  /\ Queued \cup Held \cup executed = 0 .. submitted - 1
  /\ Queued \cap Held = {} /\ (Queued \cup Held) \cap executed = {}
  /\ \A v, w \in Workers : task[v] = task[w] /\ task[v] # NoTask => v = w
  /\ \A i, j \in 1 .. Len(tasks) : tasks[i] = tasks[j] => i = j

\* Execute's "if", not "while", around the wait, and notifications outside the
\* lock, lose no wakeup: while a task is queued and the pool runs, not all
\* workers sleep; once Stop has notified, none sleeps for good.
NoLostWakeup ==
  /\ tasks # <<>> /\ ~stopped => \E w \in Workers : pc[w] # "waiting"
  /\ main \in {"join", "done"} => \A w \in Workers : pc[w] # "waiting"
  /\ main = "draining" => tasks # <<>> \/ \E w \in Workers : pc[w] \in {"run", "notify"}

\* ThreadPool.h's comment on Stop, "Wait until all queued jobs have completed,
\* and shut down the ThreadPool".
StopCompletesJobs == main = "done" => executed = Tasks

\* Stop returns: no thread waits for another for ever.
StopReturns == <>(main = "done")
=============================================================================
