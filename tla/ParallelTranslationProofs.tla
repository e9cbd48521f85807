---------------------- MODULE ParallelTranslationProofs ----------------------
(***************************************************************************)
(* The thread pool and the collectors, for every number of workers, tasks  *)
(* and lines.                                                              *)
(*                                                                         *)
(* The thread pool: one inductive invariant, PoolInv, carries all safety   *)
(* properties: where a task is follows from its worker's place in Execute  *)
(* (Holding), and what the main thread has done from its place in Stop     *)
(* (Stopping).  The pool keeps its promises when its tasks translate and   *)
(* write to the collectors: every step of the composition is a step of the *)
(* pool or leaves the pool alone.  The collectors lose no line and show    *)
(* them in the order of the input.                                         *)
(***************************************************************************)
EXTENDS ParallelTranslation, SequenceTheorems, WellFoundedInduction, TLAPS

-----------------------------------------------------------------------------
(* The thread pool *)

\* A worker holds a task exactly while it runs it.
Holding == \A w \in Workers : task[w] # NoTask <=> pc[w] = "run"

\* What Stop has done so far: everything was submitted, the queue was waited
\* for if that was asked for, m_stopped was set, all threads were joined.
Stopping ==
  /\ main # "submit" => submitted = NumTasks
  /\ stopped <=> main \in {"wake", "join", "done"}
  /\ ProcessRemaining /\ main \in {"stop", "wake", "join", "done"} => tasks = <<>>
  /\ main = "done" => \A w \in Workers : pc[w] = "exited"

PoolInv == PoolTypeOK /\ EachTaskOnce /\ NoLostWakeup /\ Holding /\ Stopping

-----------------------------------------------------------------------------
(* The type invariant *)

\* The rest of Execute's section keeps the types of what it may change.
LEMMA FindJobTypes ==
  ASSUME PoolTypeOK, NEW w \in Workers, FindJob(w)
  PROVE  /\ tasks' \in Seq(Tasks)
         /\ pc' \in [Workers -> {"fetch", "waiting", "woken", "run", "notify", "check", "exited"}]
         /\ task' \in [Workers -> Tasks \cup {NoTask}]
<1>1. CASE ~stopped /\ tasks # <<>>
  BY <1>1 DEF PoolTypeOK, FindJob, TakeTask
<1>2. CASE ~(~stopped /\ tasks # <<>>)
  BY <1>2 DEF PoolTypeOK, FindJob
<1> QED BY <1>1, <1>2

\* Waking the waiting threads keeps pc a function into the same set.
LEMMA WakeAllTypes ==
  ASSUME PoolTypeOK
  PROVE  /\ WakeAll(pc) \in [Workers -> {"fetch", "waiting", "woken", "run", "notify", "check", "exited"}]
         /\ \A w \in Workers : WakeAll(pc)[w] = IF pc[w] = "waiting" THEN "woken" ELSE pc[w]
BY DEF PoolTypeOK, WakeAll

\* Every step of the pool keeps the types of its variables.
LEMMA TypeStep ==
  ASSUME PoolTypeOK, Holding, [PoolNext]_poolVars
  PROVE  PoolTypeOK'
<1> USE TasksAssumption
<1>1. CASE Submit
  BY <1>1, WakeAllTypes DEF PoolTypeOK, Submit, Tasks
<1>2. CASE StopAccepting
  BY <1>2 DEF PoolTypeOK, StopAccepting
<1>3. ASSUME NEW from \in {"drain", "woken", "draining"}, Drain(from) PROVE PoolTypeOK'
  BY <1>3 DEF PoolTypeOK, Drain
<1>4. CASE SetStopped
  BY <1>4 DEF PoolTypeOK, SetStopped
<1>5. CASE NotifyStopped
  BY <1>5, WakeAllTypes DEF PoolTypeOK, NotifyStopped
<1>6. CASE Join
  BY <1>6 DEF PoolTypeOK, Join
<1>7. ASSUME NEW w \in Workers, Fetch(w) PROVE PoolTypeOK'
  <2>1. CASE tasks = <<>> /\ ~stopped
    BY <1>7, <2>1 DEF PoolTypeOK, Fetch
  <2>2. CASE ~(tasks = <<>> /\ ~stopped)
    <3>1. FindJob(w) /\ UNCHANGED <<stopping, stopped, main, submitted, executed>>
      BY <1>7, <2>2 DEF Fetch
    <3> QED BY <3>1, FindJobTypes DEF PoolTypeOK
  <2> QED BY <2>1, <2>2
<1>8. ASSUME NEW w \in Workers, NEW from \in {"woken", "waiting"}, Resume(w, from)
      PROVE  PoolTypeOK'
  BY <1>8, FindJobTypes DEF PoolTypeOK, Resume
<1>9. ASSUME NEW w \in Workers, FinishTask(w) PROVE PoolTypeOK'
  <2>1. task[w] \in Tasks
    BY <1>9 DEF PoolTypeOK, Holding, FinishTask
  <2> QED BY <1>9, <2>1 DEF PoolTypeOK, FinishTask
<1>10. ASSUME NEW w \in Workers, Notify(w) PROVE PoolTypeOK'
  BY <1>10 DEF PoolTypeOK, Notify, MainWoken
<1>11. ASSUME NEW w \in Workers, CheckStopped(w) PROVE PoolTypeOK'
  BY <1>11 DEF PoolTypeOK, CheckStopped
<1>12. CASE UNCHANGED poolVars
  BY <1>12 DEF PoolTypeOK, poolVars
<1> QED
  BY <1>1, <1>2, <1>3, <1>4, <1>5, <1>6, <1>7, <1>8, <1>9, <1>10, <1>11, <1>12
  DEF PoolNext, MainStep, WorkerStep, SpuriousWakeup

-----------------------------------------------------------------------------
(* The places of the tasks *)

\* What the worker does that finds a job or finds none.
LEMMA FindJobEffect ==
  ASSUME NEW w \in Workers, FindJob(w)
  PROVE  \/ /\ ~stopped /\ tasks # <<>> /\ TakeTask(w)
         \/ /\ stopped \/ tasks = <<>>
            /\ pc' = [pc EXCEPT ![w] = "notify"]
            /\ UNCHANGED <<task, tasks>>
BY DEF FindJob

\* A step of Fetch or Resume either sends the worker to sleep or finds a job.
LEMMA FetchEffect ==
  ASSUME NEW w \in Workers, Fetch(w) \/ Resume(w, "woken") \/ Resume(w, "waiting")
  PROVE  /\ pc[w] \in {"fetch", "woken", "waiting"}
         /\ UNCHANGED <<stopping, stopped, main, submitted, executed>>
         /\ \/ /\ tasks = <<>> /\ ~stopped
               /\ pc' = [pc EXCEPT ![w] = "waiting"]
               /\ UNCHANGED <<task, tasks>>
            \/ FindJob(w)
BY DEF Fetch, Resume

\* A worker that runs holds a task, and no other worker does.
LEMMA HoldingStep ==
  ASSUME PoolTypeOK, Holding, [PoolNext]_poolVars
  PROVE  Holding'
<1> USE TasksAssumption
<1>1. ASSUME NEW w \in Workers, Fetch(w) \/ Resume(w, "woken") \/ Resume(w, "waiting")
      PROVE  Holding'
  <2>1. CASE pc' = [pc EXCEPT ![w] = "waiting"] /\ UNCHANGED <<task, tasks>>
    BY <1>1, <2>1, FetchEffect DEF PoolTypeOK, Holding
  <2>2. CASE ~stopped /\ tasks # <<>> /\ TakeTask(w)
    <3>1. Head(tasks) # NoTask
      BY <2>2 DEF PoolTypeOK, Tasks, NoTask
    <3> QED BY <2>2, <3>1 DEF PoolTypeOK, Holding, TakeTask
  <2>3. CASE pc' = [pc EXCEPT ![w] = "notify"] /\ UNCHANGED <<task, tasks>>
    BY <1>1, <2>3, FetchEffect DEF PoolTypeOK, Holding
  <2> QED BY <1>1, <2>1, <2>2, <2>3, FetchEffect, FindJobEffect
<1>2. ASSUME NEW w \in Workers, FinishTask(w) PROVE Holding'
  BY <1>2 DEF PoolTypeOK, Holding, FinishTask
<1>3. ASSUME NEW w \in Workers, Notify(w) \/ CheckStopped(w) PROVE Holding'
  BY <1>3 DEF PoolTypeOK, Holding, Notify, CheckStopped
<1>4. CASE Submit \/ NotifyStopped
  BY <1>4, WakeAllTypes DEF Holding, Submit, NotifyStopped
<1>5. CASE StopAccepting \/ SetStopped \/ Join \/ UNCHANGED poolVars
  BY <1>5 DEF Holding, StopAccepting, SetStopped, Join, poolVars
<1>6. ASSUME NEW from \in {"drain", "woken", "draining"}, Drain(from) PROVE Holding'
  BY <1>6 DEF Holding, Drain
<1> QED
  BY <1>1, <1>2, <1>3, <1>4, <1>5, <1>6
  DEF PoolNext, MainStep, WorkerStep, SpuriousWakeup

\* Taking the first task off a queue without repetitions.
LEMMA TailOfQueue ==
  ASSUME PoolTypeOK, EachTaskOnce, tasks # <<>>
  PROVE  /\ Head(tasks) \in Queued
         /\ {Tail(tasks)[i] : i \in 1 .. Len(Tail(tasks))} = Queued \ {Head(tasks)}
         /\ \A i, j \in 1 .. Len(Tail(tasks)) : Tail(tasks)[i] = Tail(tasks)[j] => i = j
<1>1. tasks \in Seq(Tasks) /\ Len(tasks) \in Nat /\ Len(tasks) > 0 /\ Head(tasks) = tasks[1]
  BY DEF PoolTypeOK
<1>2. Tail(tasks) \in Seq(Tasks) /\ Len(Tail(tasks)) = Len(tasks) - 1
  BY <1>1
<1>3. \A i \in 1 .. Len(tasks) - 1 : Tail(tasks)[i] = tasks[i + 1]
  BY <1>1
<1>4. Head(tasks) \in Queued
  BY <1>1 DEF Queued
<1>5. {Tail(tasks)[i] : i \in 1 .. Len(Tail(tasks))} \subseteq Queued \ {Head(tasks)}
  <2>1. ASSUME NEW i \in 1 .. Len(Tail(tasks))
        PROVE  Tail(tasks)[i] \in Queued /\ Tail(tasks)[i] # Head(tasks)
    <3>1. i \in Nat /\ i # 0 /\ i + 1 \in 1 .. Len(tasks) /\ 1 \in 1 .. Len(tasks)
      BY <1>1, <1>2, <2>1
    <3>2. Tail(tasks)[i] = tasks[i + 1]
      BY <1>2, <1>3, <2>1
    <3>3. tasks[i + 1] = tasks[1] => i + 1 = 1
      BY <3>1 DEF EachTaskOnce
    <3>4. tasks[i + 1] # tasks[1]
      BY <3>1, <3>3
    <3> QED BY <1>1, <3>1, <3>2, <3>4 DEF Queued
  <2> QED BY <2>1
<1>6. Queued \ {Head(tasks)} \subseteq {Tail(tasks)[i] : i \in 1 .. Len(Tail(tasks))}
  <2>1. ASSUME NEW i \in 1 .. Len(tasks), tasks[i] # Head(tasks)
        PROVE  \E k \in 1 .. Len(Tail(tasks)) : Tail(tasks)[k] = tasks[i]
    <3>1. i # 1 /\ i - 1 \in 1 .. Len(tasks) - 1
      BY <1>1, <2>1
    <3>2. Tail(tasks)[i - 1] = tasks[i]
      BY <1>1, <1>3, <3>1
    <3> QED BY <1>2, <3>1, <3>2
  <2> QED BY <2>1 DEF Queued
<1>7. \A i, j \in 1 .. Len(Tail(tasks)) : Tail(tasks)[i] = Tail(tasks)[j] => i = j
  <2>1. TAKE i, j \in 1 .. Len(Tail(tasks))
  <2>2. i + 1 \in 1 .. Len(tasks) /\ j + 1 \in 1 .. Len(tasks)
    BY <1>1, <1>2
  <2>3. tasks[i + 1] = tasks[j + 1] => i + 1 = j + 1
    BY <2>2 DEF EachTaskOnce
  <2> QED BY <1>2, <1>3, <2>3
<1> QED BY <1>4, <1>5, <1>6, <1>7

\* A step that moves no task keeps every task in one place.
LEMMA NothingMoved ==
  ASSUME EachTaskOnce, UNCHANGED <<tasks, task, submitted, executed>>
  PROVE  EachTaskOnce'
BY DEF EachTaskOnce, Queued, Held

\* A worker takes the first task.
LEMMA TakeKeepsOnce ==
  ASSUME PoolTypeOK, EachTaskOnce, Holding,
         NEW w \in Workers, pc[w] # "run", tasks # <<>>, TakeTask(w),
         UNCHANGED <<submitted, executed>>
  PROVE  EachTaskOnce'
<1>1. /\ Queued' = Queued \ {Head(tasks)}
      /\ Head(tasks) \in Queued
      /\ \A i, j \in 1 .. Len(tasks') : tasks'[i] = tasks'[j] => i = j
  <2>1. tasks' = Tail(tasks)
    BY DEF TakeTask
  <2>2. Queued' = {Tail(tasks)[i] : i \in 1 .. Len(Tail(tasks))}
    BY <2>1 DEF Queued
  <2>3. /\ Head(tasks) \in Queued
        /\ {Tail(tasks)[i] : i \in 1 .. Len(Tail(tasks))} = Queued \ {Head(tasks)}
        /\ \A i, j \in 1 .. Len(Tail(tasks)) : Tail(tasks)[i] = Tail(tasks)[j] => i = j
    BY TailOfQueue
  <2> QED BY <2>1, <2>2, <2>3
<1>2. task[w] = NoTask /\ task' = [task EXCEPT ![w] = Head(tasks)]
  BY DEF Holding, TakeTask
<1>3. Head(tasks) # NoTask
  BY TasksAssumption DEF PoolTypeOK, Tasks, NoTask
<1>4. Held' = Held \cup {Head(tasks)}
  BY <1>2, <1>3 DEF PoolTypeOK, Held, NoTask
<1>5. \A u, v \in Workers : task'[u] = task'[v] /\ task'[u] # NoTask => u = v
  <2>1. Head(tasks) \notin Held
    BY <1>1 DEF EachTaskOnce
  <2>2. \A v \in Workers : task[v] # Head(tasks)
    BY <1>3, <2>1 DEF Held
  <2> QED BY <1>2, <2>2 DEF PoolTypeOK, EachTaskOnce
<1>6. Queued' \cup Held' \cup executed' = 0 .. submitted' - 1
  BY <1>1, <1>4 DEF EachTaskOnce
<1>7. Queued' \cap Held' = {} /\ (Queued' \cup Held') \cap executed' = {}
  BY <1>1, <1>4 DEF EachTaskOnce
<1> QED BY <1>1, <1>5, <1>6, <1>7 DEF EachTaskOnce, NoTask

\* A worker's task returns.
LEMMA FinishKeepsOnce ==
  ASSUME PoolTypeOK, EachTaskOnce, Holding, NEW w \in Workers, FinishTask(w)
  PROVE  EachTaskOnce'
<1>1. /\ task[w] # NoTask /\ task' = [task EXCEPT ![w] = NoTask]
      /\ executed' = executed \cup {task[w]} /\ UNCHANGED <<tasks, submitted>>
  BY DEF Holding, FinishTask
<1>2. Queued' = Queued
  BY <1>1 DEF Queued
<1>3. Held' = Held \ {task[w]}
  <2>1. \A v \in Workers : v # w => task'[v] = task[v] /\ (task[v] # NoTask => task[v] # task[w])
    BY <1>1 DEF PoolTypeOK, EachTaskOnce
  <2>2. task'[w] = NoTask
    BY <1>1 DEF PoolTypeOK
  <2> QED BY <2>1, <2>2 DEF Held, NoTask
<1>4. task[w] \in Held
  BY <1>1 DEF Held
<1>5. \A u, v \in Workers : task'[u] = task'[v] /\ task'[u] # NoTask => u = v
  BY <1>1 DEF PoolTypeOK, EachTaskOnce
<1>6. \A i, j \in 1 .. Len(tasks') : tasks'[i] = tasks'[j] => i = j
  BY <1>1 DEF EachTaskOnce
<1>7. Queued' \cup Held' \cup executed' = 0 .. submitted' - 1
  BY <1>1, <1>2, <1>3, <1>4 DEF EachTaskOnce
<1>8. Queued' \cap Held' = {} /\ (Queued' \cup Held') \cap executed' = {}
  BY <1>1, <1>2, <1>3, <1>4 DEF EachTaskOnce
<1> QED BY <1>5, <1>6, <1>7, <1>8 DEF EachTaskOnce, NoTask

\* The main thread submits the next task.
LEMMA SubmitKeepsOnce ==
  ASSUME PoolTypeOK, EachTaskOnce, Submit
  PROVE  EachTaskOnce'
<1>1. /\ tasks' = Append(tasks, submitted) /\ submitted' = submitted + 1
      /\ UNCHANGED <<task, executed>>
      /\ submitted \in Nat /\ submitted \in Tasks
  BY TasksAssumption DEF PoolTypeOK, Submit, Tasks
<1>2. /\ Len(tasks') = Len(tasks) + 1 /\ Len(tasks) \in Nat
      /\ tasks'[Len(tasks) + 1] = submitted
      /\ \A i \in 1 .. Len(tasks) : tasks'[i] = tasks[i]
  BY <1>1 DEF PoolTypeOK
<1>3. Queued' = Queued \cup {submitted}
  <2>1. 1 .. Len(tasks') = (1 .. Len(tasks)) \cup {Len(tasks) + 1}
    BY <1>2
  <2> QED BY <1>2, <2>1 DEF Queued
<1>4. submitted \notin Queued \cup Held \cup executed
  BY <1>1 DEF EachTaskOnce
<1>5. 0 .. submitted' - 1 = (0 .. submitted - 1) \cup {submitted}
  BY <1>1
<1>6. Held' = Held
  BY <1>1 DEF Held, NoTask
<1>7. Queued' \cup Held' \cup executed' = 0 .. submitted' - 1
  BY <1>1, <1>3, <1>5, <1>6 DEF EachTaskOnce
<1>8. Queued' \cap Held' = {} /\ (Queued' \cup Held') \cap executed' = {}
  BY <1>1, <1>3, <1>4, <1>6 DEF EachTaskOnce
<1>9. \A i, j \in 1 .. Len(tasks') : tasks'[i] = tasks'[j] => i = j
  <2>1. \A i \in 1 .. Len(tasks) : tasks[i] # submitted
    BY <1>4 DEF Queued
  <2> QED BY <1>2, <2>1 DEF EachTaskOnce
<1>10. \A u, v \in Workers : task'[u] = task'[v] /\ task'[u] # NoTask => u = v
  BY <1>1 DEF EachTaskOnce
<1> QED BY <1>7, <1>8, <1>9, <1>10 DEF EachTaskOnce, NoTask

\* Every step of the pool keeps every task in one place.
LEMMA OnceStep ==
  ASSUME PoolTypeOK, EachTaskOnce, Holding, [PoolNext]_poolVars
  PROVE  EachTaskOnce'
<1>1. ASSUME NEW w \in Workers, Fetch(w) \/ Resume(w, "woken") \/ Resume(w, "waiting")
      PROVE  EachTaskOnce'
  <2>1. /\ pc[w] # "run" /\ UNCHANGED <<submitted, executed>>
        /\ \/ tasks # <<>> /\ TakeTask(w)
           \/ UNCHANGED <<task, tasks>>
    BY <1>1, FetchEffect, FindJobEffect
  <2> QED BY <2>1, TakeKeepsOnce, NothingMoved
<1>2. ASSUME NEW w \in Workers, Notify(w) \/ CheckStopped(w) PROVE EachTaskOnce'
  BY <1>2, NothingMoved DEF Notify, CheckStopped
<1>3. CASE StopAccepting \/ SetStopped \/ NotifyStopped \/ Join \/ UNCHANGED poolVars
  BY <1>3, NothingMoved DEF StopAccepting, SetStopped, NotifyStopped, Join, poolVars
<1>4. ASSUME NEW from \in {"drain", "woken", "draining"}, Drain(from) PROVE EachTaskOnce'
  BY <1>4, NothingMoved DEF Drain
<1> QED
  BY <1>1, <1>2, <1>3, <1>4, FinishKeepsOnce, SubmitKeepsOnce
  DEF PoolNext, MainStep, WorkerStep, SpuriousWakeup

-----------------------------------------------------------------------------
(* Wakeups, and what Stop has done *)

\* No step lets a thread sleep that somebody would have to wake.
LEMMA WakeupStep ==
  ASSUME PoolTypeOK, NoLostWakeup, Stopping, [PoolNext]_poolVars
  PROVE  NoLostWakeup'
<1> USE WorkersAssumption
<1>1. ASSUME NEW w \in Workers, Fetch(w) \/ Resume(w, "woken") \/ Resume(w, "waiting")
      PROVE  NoLostWakeup'
  <2> DEFINE asleep == /\ tasks = <<>> /\ ~stopped
                       /\ pc' = [pc EXCEPT ![w] = "waiting"]
                       /\ UNCHANGED <<task, tasks>>
  <2>1. /\ UNCHANGED <<stopping, stopped, main, submitted, executed>>
        /\ pc[w] \notin {"run", "notify"}
        /\ asleep \/ FindJob(w)
    BY <1>1, FetchEffect
  <2>2. CASE asleep
    <3>1. tasks' = <<>> /\ main' \notin {"join", "done"}
      BY <2>1, <2>2 DEF Stopping
    <3>2. \A v \in Workers : pc[v] \in {"run", "notify"} => pc'[v] = pc[v]
      BY <2>1, <2>2 DEF PoolTypeOK
    <3>3. main' = "draining" => \E v \in Workers : pc[v] \in {"run", "notify"}
      BY <2>1, <2>2 DEF NoLostWakeup
    <3> QED BY <3>1, <3>2, <3>3 DEF NoLostWakeup
  <2>3. CASE FindJob(w)
    <3>1. pc' \in {[pc EXCEPT ![w] = "run"], [pc EXCEPT ![w] = "notify"]}
      BY <2>3, FindJobEffect DEF TakeTask
    <3>2. pc'[w] \in {"run", "notify"} /\ \A v \in Workers : v # w => pc'[v] = pc[v]
      BY <3>1 DEF PoolTypeOK
    <3> QED BY <2>1, <3>2 DEF NoLostWakeup
  <2> QED BY <2>1, <2>2, <2>3
<1>2. ASSUME NEW w \in Workers, FinishTask(w) PROVE NoLostWakeup'
  BY <1>2 DEF PoolTypeOK, NoLostWakeup, FinishTask
<1>3. ASSUME NEW w \in Workers, Notify(w) PROVE NoLostWakeup'
  BY <1>3 DEF PoolTypeOK, NoLostWakeup, Notify, MainWoken
<1>4. ASSUME NEW w \in Workers, CheckStopped(w) PROVE NoLostWakeup'
  BY <1>4 DEF PoolTypeOK, NoLostWakeup, CheckStopped
<1>5. CASE Submit
  BY <1>5, WakeAllTypes DEF NoLostWakeup, Submit
<1>6. CASE NotifyStopped
  BY <1>6, WakeAllTypes DEF NoLostWakeup, NotifyStopped
<1>7. CASE StopAccepting \/ SetStopped \/ Join \/ UNCHANGED poolVars
  BY <1>7 DEF NoLostWakeup, StopAccepting, SetStopped, Join, poolVars
<1>8. ASSUME NEW from \in {"drain", "woken", "draining"}, Drain(from) PROVE NoLostWakeup'
  BY <1>8 DEF NoLostWakeup, Drain, Drained
<1> QED
  BY <1>1, <1>2, <1>3, <1>4, <1>5, <1>6, <1>7, <1>8
  DEF PoolNext, MainStep, WorkerStep, SpuriousWakeup

\* The steps of Stop come in their order, and no worker undoes them.
LEMMA StoppingStep ==
  ASSUME PoolTypeOK, Stopping, [PoolNext]_poolVars
  PROVE  Stopping'
<1> USE TasksAssumption
<1>1. ASSUME NEW w \in Workers, Fetch(w) \/ Resume(w, "woken") \/ Resume(w, "waiting")
      PROVE  Stopping'
  <2>1. /\ UNCHANGED <<stopping, stopped, main, submitted, executed>>
        /\ pc[w] # "exited"
        /\ UNCHANGED tasks \/ (tasks # <<>> /\ ~stopped)
    BY <1>1, FetchEffect, FindJobEffect
  <2>2. main # "done"
    BY <2>1 DEF Stopping
  <2>3. ~stopped /\ tasks # <<>> /\ ProcessRemaining => main \notin {"stop", "wake", "join", "done"}
    BY DEF Stopping
  <2> QED BY <2>1, <2>2, <2>3 DEF Stopping
<1>2. ASSUME NEW w \in Workers, FinishTask(w) PROVE Stopping'
  BY <1>2 DEF PoolTypeOK, Stopping, FinishTask
<1>3. ASSUME NEW w \in Workers, Notify(w) \/ CheckStopped(w) PROVE Stopping'
  BY <1>3 DEF PoolTypeOK, Stopping, Notify, CheckStopped, MainWoken
<1>4. CASE Submit
  BY <1>4 DEF Stopping, Submit
<1>5. CASE StopAccepting
  BY <1>5 DEF Stopping, StopAccepting
<1>6. CASE SetStopped \/ NotifyStopped \/ Join
  BY <1>6 DEF Stopping, SetStopped, NotifyStopped, Join
<1>7. ASSUME NEW from \in {"drain", "woken", "draining"}, Drain(from) PROVE Stopping'
  BY <1>7 DEF Stopping, Drain, Drained
<1>8. CASE UNCHANGED poolVars
  BY <1>8 DEF Stopping, poolVars
<1> QED
  BY <1>1, <1>2, <1>3, <1>4, <1>5, <1>6, <1>7, <1>8
  DEF PoolNext, MainStep, WorkerStep, SpuriousWakeup

\* The pool starts in the invariant.
LEMMA InvInit == PoolInit => PoolInv
<1> SUFFICES ASSUME PoolInit PROVE PoolInv
  OBVIOUS
<1> USE TasksAssumption DEF PoolInit
<1>1. PoolTypeOK
  <2>1. tasks \in Seq(Tasks) /\ submitted \in 0 .. NumTasks /\ executed \subseteq Tasks
    OBVIOUS
  <2>2. /\ pc \in [Workers -> {"fetch", "waiting", "woken", "run", "notify", "check", "exited"}]
        /\ task \in [Workers -> Tasks \cup {NoTask}]
    OBVIOUS
  <2> QED BY <2>1, <2>2 DEF PoolTypeOK
<1>2. EachTaskOnce
  BY DEF EachTaskOnce, Queued, Held
<1>3. NoLostWakeup /\ Holding /\ Stopping
  BY DEF NoLostWakeup, Holding, Stopping
<1> QED BY <1>1, <1>2, <1>3 DEF PoolInv

\* The invariant of the pool holds in every behaviour, fair or not.
THEOREM PoolInvariant == PoolInit /\ [][PoolNext]_poolVars => []PoolInv
<1>1. PoolInv /\ [PoolNext]_poolVars => PoolInv'
  BY TypeStep, HoldingStep, OnceStep, WakeupStep, StoppingStep DEF PoolInv
<1> QED BY <1>1, InvInit, PTL

-----------------------------------------------------------------------------
(* The theorems *)

\* ThreadPool::Submit and Execute neither lose a task nor run one twice,
\* whatever the number of workers, the order of their steps and the moment of
\* Stop.
THEOREM TasksRunOnce == PoolSpec => []EachTaskOnce
<1>1. PoolInv => EachTaskOnce
  BY DEF PoolInv
<1> QED BY <1>1, PoolInvariant, PTL DEF PoolSpec

\* The waits of Execute and Stop, tested once and notified outside the lock,
\* never miss the notification they need.
THEOREM WakeupsArrive == PoolSpec => []NoLostWakeup
<1>1. PoolInv => NoLostWakeup
  BY DEF PoolInv
<1> QED BY <1>1, PoolInvariant, PTL DEF PoolSpec

\* When Stop(true) has joined the threads, no task is queued or held.
LEMMA JobsCompleted ==
  ASSUME ProcessRemaining, PoolInv
  PROVE  StopCompletesJobs
<1> SUFFICES ASSUME main = "done" PROVE executed = Tasks
  BY DEF StopCompletesJobs
<1>1. tasks = <<>> /\ submitted = NumTasks /\ \A w \in Workers : pc[w] = "exited"
  BY DEF PoolInv, Stopping
<1>2. Queued = {}
  BY <1>1 DEF Queued
<1>3. Held = {}
  BY <1>1 DEF PoolInv, Holding, Held
<1> QED BY <1>1, <1>2, <1>3 DEF PoolInv, EachTaskOnce, Tasks

\* Stop(true) returns only after every submitted task was run to its end.
THEOREM StopWaitsForJobs ==
  ASSUME ProcessRemaining
  PROVE  PoolSpec => []StopCompletesJobs
<1>1. PoolInv => StopCompletesJobs
  BY JobsCompleted
<1> QED BY <1>1, PoolInvariant, PTL DEF PoolSpec

-----------------------------------------------------------------------------
(* The tasks run in the pool *)

\* TranslationTask::Run touches the pool only when it returns.
LEMMA RunIsPoolStep ==
  ASSUME NEW w \in Workers, Run(w)
  PROVE  FinishTask(w) \/ UNCHANGED poolVars
BY DEF Run, Translate, WriteNext, EndRun

\* Every behaviour of moses with its collectors is one of the thread pool.
THEOREM TranslationUsesPool == Spec => PoolInit /\ [][PoolNext]_poolVars
<1>1. Init => PoolInit
  BY DEF Init
<1>2. [Next]_vars => [PoolNext]_poolVars
  <2> SUFFICES ASSUME [Next]_vars PROVE [PoolNext]_poolVars
    OBVIOUS
  <2>1. CASE PoolStep(MainStep) \/ PoolStep(SpuriousWakeup)
    BY <2>1 DEF PoolStep, PoolNext
  <2>2. ASSUME NEW w \in Workers, PoolStep(WorkerStep(w)) PROVE PoolNext
    BY <2>2 DEF PoolStep, PoolNext
  <2>3. ASSUME NEW w \in Workers, Run(w) PROVE [PoolNext]_poolVars
    BY <2>3, RunIsPoolStep DEF PoolNext
  <2>4. CASE UNCHANGED vars
    BY <2>4 DEF vars, poolVars
  <2> QED BY <2>1, <2>2, <2>3, <2>4 DEF Next
<1> QED BY <1>1, <1>2, PTL DEF Spec

\* While lines are translated and written, no task is lost or run twice.
THEOREM LinesTranslatedOnce == Spec => []EachTaskOnce
<1>1. PoolInv => EachTaskOnce
  BY DEF PoolInv
<1> QED BY <1>1, TranslationUsesPool, PoolInvariant, PTL

\* Stop(true), called by moses at the end of the input, returns only after
\* the last line was translated and written.
THEOREM AllLinesTranslated ==
  ASSUME ProcessRemaining
  PROVE  Spec => []StopCompletesJobs
<1>1. PoolInv => StopCompletesJobs
  BY JobsCompleted
<1> QED BY <1>1, TranslationUsesPool, PoolInvariant, PTL

-----------------------------------------------------------------------------
(* One collector, for every number of lines and every order in which they are *)
(* written to it: what one that was given the lines "seen" shows and caches,  *)
(* and that Write keeps it so.                                                *)

\* A collector is a record with the fields the model gives it.
IsCollector(c) ==
  c = [nextOutput |-> c.nextOutput, outputs |-> c.outputs, debugs |-> c.debugs,
       out |-> c.out, debug |-> c.debug]

\* What a collector has done with the lines of seen: those in front of the first
\* that is missing are in the stream, in order; the others are in the cache.
Collects(c, seen) ==
  /\ IsCollector(c)
  /\ c.nextOutput \in Nat
  /\ seen = (0 .. c.nextOutput - 1) \cup c.outputs
  /\ \A k \in c.outputs : k \in Nat /\ k > c.nextOutput
  /\ c.out = Lines(0, c.nextOutput - 1)

-----------------------------------------------------------------------------
\* Write's loop over the cache ends at the first line that is missing.
LEMMA NextMissingFirst ==
  ASSUME NEW bound \in Nat, NEW outputs \in SUBSET (0 .. bound), NEW id \in Nat
  PROVE  LET n == NextMissing(outputs, id)
         IN  /\ n \in Nat /\ n > id /\ n \notin outputs
             /\ id + 1 .. n - 1 \subseteq outputs
             /\ n = id + 1 \/ n - 1 \in outputs
<1> DEFINE Missing == {n \in Nat : n > id /\ n \notin outputs}
           Ends(n) == n > id /\ n \notin outputs /\ id + 1 .. n - 1 \subseteq outputs
           Candidates == {id + 1} \cup {k + 1 : k \in outputs}
<1>1. Missing \in SUBSET Nat /\ Missing # {}
  <2>1. id + bound + 1 \in Missing
    OBVIOUS
  <2> QED BY <2>1
<1>2. \E n \in Missing : \A m \in Missing : ~(<<m, n>> \in OpToRel(<, Nat))
  BY <1>1, NatLessThanWellFounded, WFMin
<1>3. PICK n \in Missing : \A m \in Missing : ~(m < n)
  BY <1>2 DEF OpToRel
<1>4. id + 1 .. n - 1 \subseteq outputs
  <2>1. ASSUME NEW m \in id + 1 .. n - 1, m \notin outputs PROVE FALSE
    <3>1. m \in Missing /\ m < n
      BY <2>1
    <3> QED BY <3>1, <1>3
  <2> QED BY <2>1
<1>5. n \in Candidates
  <2>1. CASE n = id + 1
    BY <2>1
  <2>2. CASE n # id + 1
    <3>1. n - 1 \in id + 1 .. n - 1 /\ n = (n - 1) + 1
      BY <2>2
    <3> QED BY <3>1, <1>4
  <2> QED BY <2>1, <2>2
<1>6. \E m \in Candidates : Ends(m)
  BY <1>4, <1>5
<1> DEFINE N == CHOOSE m \in Candidates : Ends(m)
<1>7. N \in Candidates /\ Ends(N)
  BY <1>6
<1>8. NextMissing(outputs, id) = N
  BY DEF NextMissing
<1> HIDE DEF N
<1>9. N \in Nat
  BY <1>7
<1>10. N = id + 1 \/ N - 1 \in outputs
  <2>1. ASSUME NEW k \in outputs, N = k + 1 PROVE N - 1 = k
    BY <2>1
  <2> QED BY <1>7, <2>1
<1> QED BY <1>7, <1>8, <1>9, <1>10

\* Lines is a sequence of as many numbers as there are from a on below n.
LEMMA LinesSequence ==
  ASSUME NEW a \in Nat, NEW n \in Nat, a <= n
  PROVE  /\ Lines(a, n - 1) \in Seq(Int)
         /\ Len(Lines(a, n - 1)) = n - a
         /\ \A k \in 1 .. n - a : Lines(a, n - 1)[k] = a + k - 1
<1> DEFINE m == n - a
           s == Lines(a, n - 1)
<1>1. m \in Nat /\ s = [k \in 1 .. m |-> a + k - 1]
  BY DEF Lines
<1> HIDE DEF m, s
<1>2. s \in [1 .. m -> Int]
  BY <1>1
<1>3. s \in Seq(Int) /\ Len(s) = m
  BY <1>1, <1>2
<1>4. \A k \in 1 .. m : s[k] = a + k - 1
  BY <1>1
<1> QED BY <1>3, <1>4 DEF m, s

\* Lines that follow each other.
LEMMA LinesJoin ==
  ASSUME NEW a \in Nat, NEW n \in Nat, a < n
  PROVE  Lines(0, a - 1) \o Lines(a, n - 1) = Lines(0, n - 1)
<1> DEFINE s == Lines(0, a - 1)
           t == Lines(a, n - 1)
           u == Lines(0, n - 1)
<1>1. s \in Seq(Int) /\ Len(s) = a /\ \A k \in 1 .. a : s[k] = k - 1
  <2>1. 0 \in Nat /\ 0 <= a
    OBVIOUS
  <2>2. s \in Seq(Int) /\ Len(s) = a - 0 /\ \A k \in 1 .. a - 0 : s[k] = 0 + k - 1
    BY <2>1, LinesSequence
  <2> HIDE DEF s, t, u
  <2> QED BY <2>2
<1>2. t \in Seq(Int) /\ Len(t) = n - a /\ \A k \in 1 .. n - a : t[k] = a + k - 1
  <2>1. a <= n
    OBVIOUS
  <2> QED BY <2>1, LinesSequence
<1>3. u \in Seq(Int) /\ Len(u) = n /\ \A k \in 1 .. n : u[k] = k - 1
  <2>1. 0 \in Nat /\ 0 <= n
    OBVIOUS
  <2>2. u \in Seq(Int) /\ Len(u) = n - 0 /\ \A k \in 1 .. n - 0 : u[k] = 0 + k - 1
    BY <2>1, LinesSequence
  <2> HIDE DEF s, t, u
  <2> QED BY <2>2
<1> HIDE DEF s, t, u
<1>4. /\ s \o t \in Seq(Int) /\ Len(s \o t) = n
      /\ \A k \in 1 .. n : (s \o t)[k] = k - 1
  <2>1. /\ s \o t \in Seq(Int)
        /\ Len(s \o t) = Len(s) + Len(t)
        /\ \A k \in 1 .. Len(s) + Len(t) :
             (s \o t)[k] = IF k <= Len(s) THEN s[k] ELSE t[k - Len(s)]
    BY <1>1, <1>2, ConcatProperties
  <2>2. Len(s) + Len(t) = n
    BY <1>1, <1>2
  <2>3. ASSUME NEW k \in 1 .. n PROVE (s \o t)[k] = k - 1
    <3>1. CASE k <= a
      BY <1>1, <2>1, <2>2, <3>1
    <3>2. CASE ~(k <= a)
      <4>1. k - a \in 1 .. n - a
        BY <3>2
      <4>2. t[k - a] = k - 1
        BY <1>2, <4>1
      <4> QED BY <1>1, <2>1, <2>2, <3>2, <4>2
    <3> QED BY <3>1, <3>2
  <2> QED BY <2>1, <2>2, <2>3
<1>5. s \o t = u
  <2>1. Len(s \o t) = Len(u) /\ \A k \in 1 .. Len(s \o t) : (s \o t)[k] = u[k]
    BY <1>3, <1>4
  <2> QED BY <1>3, <1>4, <2>1, SeqEqual
<1> QED BY <1>5 DEF s, t, u

\* A new collector has seen nothing.
LEMMA NewCollects == Collects(NewCollector, {})
<1>1. /\ IsCollector(NewCollector)
      /\ NewCollector.nextOutput = 0 /\ NewCollector.outputs = {} /\ NewCollector.out = <<>>
  BY DEF NewCollector, IsCollector
<1>2. Lines(0, 0 - 1) = <<>>
  BY DEF Lines
<1> QED BY <1>1, <1>2 DEF Collects

\* Write of a line that the collector has not seen: afterwards it has, and the
\* stream and the cache are what they should be.
LEMMA WriteCollects ==
  ASSUME NEW bound \in Nat, NEW seen \in SUBSET (0 .. bound), NEW c, Collects(c, seen),
         NEW id \in Nat, id \notin seen, NEW o \in Write(c, id)
  PROVE  Collects(o, seen \cup {id})
<1>1. id >= c.nextOutput /\ c.nextOutput \in Nat /\ c.outputs \in SUBSET (0 .. bound)
  BY DEF Collects
<1>2. CASE id # c.nextOutput
  <2>1. o = [c EXCEPT !.outputs = @ \cup {id}, !.debugs = @ \cup {id}]
    BY <1>2 DEF Write
  <2>2. o = [nextOutput |-> c.nextOutput, outputs |-> c.outputs \cup {id},
             debugs |-> c.debugs \cup {id}, out |-> c.out, debug |-> c.debug]
    BY <2>1 DEF Collects, IsCollector
  <2>3. IsCollector(o) /\ o.nextOutput = c.nextOutput /\ o.outputs = c.outputs \cup {id}
        /\ o.out = c.out
    BY <2>2 DEF IsCollector
  <2> QED BY <1>1, <1>2, <2>3 DEF Collects
<1>3. CASE id = c.nextOutput
  <2> DEFINE n == NextMissing(c.outputs, id)
             flushed == id + 1 .. n - 1
  <2>1. n \in Nat /\ n > id /\ n \notin c.outputs /\ flushed \subseteq c.outputs
    BY <1>1, NextMissingFirst
  <2>2. PICK shown \in SUBSET (flushed \cap c.debugs) :
          o = [nextOutput |-> n, outputs |-> c.outputs \ flushed, debugs |-> c.debugs \ shown,
               out |-> c.out \o Lines(id, n - 1),
               debug |-> c.debug \o SelectSeq(Lines(id, n - 1),
                                              LAMBDA k : k = id \/ k \in shown)]
    BY <1>3 DEF Write
  <2>3. /\ o.nextOutput = n /\ o.outputs = c.outputs \ flushed
        /\ o.out = c.out \o Lines(id, n - 1)
    BY <2>2
  <2>4. IsCollector(o)
    BY <2>2 DEF IsCollector
  <2> HIDE DEF n
  <2>5. o.out = Lines(0, n - 1)
    <3>1. c.out = Lines(0, id - 1) /\ id \in Nat /\ id < n
      BY <1>3, <2>1 DEF Collects
    <3>2. Lines(0, id - 1) \o Lines(id, n - 1) = Lines(0, n - 1)
      BY <2>1, <3>1, LinesJoin
    <3> QED BY <2>3, <3>1, <3>2
  <2>6. \A k \in c.outputs \ flushed : k \in Nat /\ k > n
    BY <1>3, <2>1 DEF Collects
  <2>7. seen \cup {id} = (0 .. n - 1) \cup (c.outputs \ flushed)
    <3>1. 0 .. n - 1 = (0 .. id - 1) \cup {id} \cup flushed
      BY <2>1
    <3>2. seen = (0 .. id - 1) \cup c.outputs
      BY <1>3 DEF Collects
    <3> QED BY <2>1, <3>1, <3>2
  <2> QED BY <2>1, <2>3, <2>4, <2>5, <2>6, <2>7 DEF Collects
<1> QED BY <1>2, <1>3

\* Write shows nothing twice and takes nothing back: the stream grows, or is as
\* it was.
LEMMA WriteGrows ==
  ASSUME NEW bound \in Nat, NEW seen \in SUBSET (0 .. bound), NEW c, Collects(c, seen),
         NEW id \in Nat, id \notin seen, NEW o \in Write(c, id)
  PROVE  o.out = c.out \/ o.nextOutput > c.nextOutput
<1>1. CASE id # c.nextOutput
  BY <1>1 DEF Write, Collects, IsCollector
<1>2. CASE id = c.nextOutput
  <2>1. c.outputs \in SUBSET (0 .. bound)
    BY DEF Collects
  <2>2. NextMissing(c.outputs, id) > id
    BY <2>1, NextMissingFirst
  <2>3. PICK shown \in SUBSET ((id + 1 .. NextMissing(c.outputs, id) - 1) \cap c.debugs) :
          o = [nextOutput |-> NextMissing(c.outputs, id),
               outputs |-> c.outputs \ (id + 1 .. NextMissing(c.outputs, id) - 1),
               debugs |-> c.debugs \ shown,
               out |-> c.out \o Lines(id, NextMissing(c.outputs, id) - 1),
               debug |-> c.debug \o SelectSeq(Lines(id, NextMissing(c.outputs, id) - 1),
                                              LAMBDA k : k = id \/ k \in shown)]
    BY <1>2 DEF Write
  <2>4. o.nextOutput = NextMissing(c.outputs, id)
    BY <2>3
  <2> QED BY <1>2, <2>2, <2>4
<1> QED BY <1>1, <1>2

-----------------------------------------------------------------------------
(* All collectors *)

\* A task is somewhere between its collectors only while it runs.
Writing ==
  /\ written \in [Workers -> 0 .. Len(Collectors) + 1]
  /\ \A w \in Workers : written[w] # 0 => pc[w] = "run"

\* Every collector has been given lines whose tasks are through with it, and
\* all of them unless it is the alignment's.
Collecting ==
  /\ collector = [c \in CollectorSet |-> collector[c]]
  /\ \A i \in 1 .. Len(Collectors) :
       \E seen \in SUBSET DoneWith(i) :
         /\ Collects(collector[Collectors[i]], seen)
         /\ Collectors[i] # Alignment => seen = DoneWith(i)

IInv == PoolInv /\ Writing /\ Collecting

\* No other step of the pool takes a task from a worker that runs it.
LEMMA RunningStays ==
  ASSUME PoolTypeOK, NEW w \in Workers, pc[w] = "run",
         MainStep \/ SpuriousWakeup \/ \E v \in Workers : WorkerStep(v)
  PROVE  pc'[w] = "run" /\ task'[w] = task[w] /\ UNCHANGED executed
<1>1. CASE Submit \/ NotifyStopped
  BY <1>1, WakeAllTypes DEF Submit, NotifyStopped
<1>2. CASE StopAccepting \/ SetStopped \/ Join
  BY <1>2 DEF StopAccepting, SetStopped, Join
<1>3. ASSUME NEW from \in {"drain", "woken", "draining"}, Drain(from)
      PROVE  pc'[w] = "run" /\ task'[w] = task[w] /\ UNCHANGED executed
  BY <1>3 DEF Drain
<1>4. ASSUME NEW v \in Workers, Fetch(v) \/ Resume(v, "woken") \/ Resume(v, "waiting")
      PROVE  pc'[w] = "run" /\ task'[w] = task[w] /\ UNCHANGED executed
  <2>1. v # w /\ UNCHANGED executed
    BY <1>4, FetchEffect
  <2>2. \/ pc' = [pc EXCEPT ![v] = "waiting"] /\ UNCHANGED task
        \/ pc' = [pc EXCEPT ![v] = "notify"] /\ UNCHANGED task
        \/ pc' = [pc EXCEPT ![v] = "run"] /\ task' = [task EXCEPT ![v] = Head(tasks)]
    BY <1>4, FetchEffect, FindJobEffect DEF TakeTask
  <2> QED BY <2>1, <2>2 DEF PoolTypeOK
<1>5. ASSUME NEW v \in Workers, Notify(v) \/ CheckStopped(v)
      PROVE  pc'[w] = "run" /\ task'[w] = task[w] /\ UNCHANGED executed
  BY <1>5 DEF PoolTypeOK, Notify, CheckStopped
<1> QED
  BY <1>1, <1>2, <1>3, <1>4, <1>5 DEF MainStep, WorkerStep, SpuriousWakeup

\* The steps of the pool around Run leave the collectors with what they have, and
\* the tasks that write to them where they are.
LEMMA PoolStepKeeps ==
  ASSUME IInv, UNCHANGED <<collector, written, found>>,
         MainStep \/ SpuriousWakeup \/ \E v \in Workers : WorkerStep(v)
  PROVE  Writing' /\ Collecting'
<1>1. \A w \in Workers : written[w] # 0 => pc'[w] = "run" /\ task'[w] = task[w]
  BY RunningStays DEF IInv, PoolInv, Writing
<1>2. UNCHANGED executed
  BY RunningStays DEF MainStep, SpuriousWakeup, WorkerStep, Submit, StopAccepting, Drain,
     SetStopped, NotifyStopped, Join, Fetch, Resume, Notify, CheckStopped
<1>3. ASSUME NEW i \in 1 .. Len(Collectors) PROVE DoneWith(i)' = DoneWith(i)
  <2>1. \A w \in Workers : written[w] > i => task'[w] = task[w]
    BY <1>1 DEF IInv, Writing
  <2> QED BY <1>2, <2>1 DEF DoneWith
<1>4. Writing'
  BY <1>1 DEF IInv, Writing
<1>5. Collecting'
  BY <1>3 DEF IInv, Collecting
<1> QED BY <1>4, <1>5

\* The line a running task is about to write is one that its collector has not
\* been given.
LEMMA LineIsNew ==
  ASSUME IInv, NEW w \in Workers, pc[w] = "run", NEW i \in 1 .. Len(Collectors),
         written[w] <= i
  PROVE  task[w] \in Tasks /\ task[w] \notin DoneWith(i)
<1>1. task[w] # NoTask /\ task[w] \in Tasks
  BY DEF IInv, PoolInv, PoolTypeOK, Holding
<1>2. task[w] \notin executed
  BY <1>1 DEF IInv, PoolInv, EachTaskOnce, Held
<1>3. \A v \in Workers : task[v] = task[w] => v = w
  BY <1>1 DEF IInv, PoolInv, EachTaskOnce
<1>4. ~(written[w] > i)
  BY DEF IInv, Writing
<1> QED BY <1>1, <1>2, <1>3, <1>4 DEF DoneWith

\* Collectors are given the numbers of lines.
LEMMA DoneAreTasks ==
  ASSUME IInv, NEW i \in 1 .. Len(Collectors)
  PROVE  DoneWith(i) \subseteq Tasks
<1>1. \A w \in Workers : written[w] > i => pc[w] = "run"
  BY DEF IInv, Writing
<1>2. \A w \in Workers : pc[w] = "run" => task[w] \in Tasks
  BY DEF IInv, PoolInv, PoolTypeOK, Holding
<1> QED BY <1>1, <1>2 DEF DoneWith, IInv, PoolInv, PoolTypeOK

\* ProcessSentence writes nothing yet.
LEMMA TranslateKeeps ==
  ASSUME IInv, NEW w \in Workers, Translate(w)
  PROVE  Writing' /\ Collecting'
<1>1. Len(Collectors) \in Nat
  BY CollectorsAssumption
<1>2. Writing'
  BY <1>1 DEF IInv, Writing, Translate, poolVars
<1>3. ASSUME NEW i \in 1 .. Len(Collectors) PROVE DoneWith(i)' = DoneWith(i)
  BY DEF IInv, Writing, Translate, poolVars, DoneWith
<1>4. Collecting'
  BY <1>3 DEF IInv, Collecting, Translate
<1> QED BY <1>2, <1>4

\* A task that returns is through with every collector.
LEMMA EndRunKeeps ==
  ASSUME IInv, NEW w \in Workers, EndRun(w)
  PROVE  Writing' /\ Collecting'
<1>1. Len(Collectors) \in Nat
  BY CollectorsAssumption
<1>2. Writing'
  BY <1>1 DEF IInv, Writing, EndRun, FinishTask, PoolInv, PoolTypeOK
<1>3. ASSUME NEW i \in 1 .. Len(Collectors) PROVE DoneWith(i)' = DoneWith(i)
  <2>1. written[w] > i
    BY <1>1 DEF EndRun
  <2>2. executed' = executed \cup {task[w]}
    BY DEF EndRun, FinishTask
  <2>3. \A v \in Workers : v # w => written'[v] = written[v] /\ task'[v] = task[v]
    BY DEF IInv, Writing, EndRun, FinishTask, PoolInv, PoolTypeOK
  <2>4. ~(written'[w] > i)
    BY DEF IInv, Writing, EndRun
  <2> QED BY <2>1, <2>2, <2>3, <2>4 DEF DoneWith
<1>4. Collecting'
  BY <1>3 DEF IInv, Collecting, EndRun
<1> QED BY <1>2, <1>4

\* The collector's turn: it is given the line, or, the alignment's only, passed over.
LEMMA WriteNextKeeps ==
  ASSUME IInv, NEW w \in Workers, WriteNext(w)
  PROVE  Writing' /\ Collecting'
<1> DEFINE n == written[w]
           c == Collectors[n]
<1>1. n \in 1 .. Len(Collectors) /\ Len(Collectors) \in Nat /\ pc[w] = "run"
  BY CollectorsAssumption DEF WriteNext
<1>2. /\ written' = [written EXCEPT ![w] = n + 1]
      /\ UNCHANGED poolVars
  BY DEF WriteNext
<1>3. Writing'
  BY <1>1, <1>2 DEF IInv, Writing, poolVars
<1>4. ASSUME NEW i \in 1 .. Len(Collectors)
      PROVE  DoneWith(i)' = IF i = n THEN DoneWith(i) \cup {task[w]} ELSE DoneWith(i)
  <2>1. \A v \in Workers : v # w => written'[v] = written[v]
    BY <1>2 DEF IInv, Writing
  <2>2. written'[w] = n + 1
    BY <1>2 DEF IInv, Writing
  <2>3. i # n => (written'[w] > i <=> written[w] > i)
    BY <1>1, <2>2
  <2>4. i = n => written'[w] > i
    BY <1>1, <2>2
  <2>5. task' = task /\ executed' = executed
    BY <1>2 DEF poolVars
  <2>6. CASE i = n
    BY <1>1, <2>1, <2>4, <2>5, <2>6 DEF DoneWith
  <2>7. CASE i # n
    BY <2>1, <2>3, <2>5, <2>7 DEF DoneWith
  <2> QED BY <2>6, <2>7
<1>5. task[w] \in Tasks /\ task[w] \notin DoneWith(n)
  BY <1>1, LineIsNew
<1>6. \/ c = Alignment /\ UNCHANGED collector
      \/ \E o \in Write(collector[c], task[w]) : collector' = [collector EXCEPT ![c] = o]
  BY DEF WriteNext, Skips
<1>7. c \in CollectorSet /\ \A i \in 1 .. Len(Collectors) : i # n => Collectors[i] # c
  BY <1>1, CollectorsAssumption DEF CollectorSet
<1>8. collector = [d \in CollectorSet |-> collector[d]]
  BY DEF IInv, Collecting
<1> HIDE DEF n, c
<1>9. collector' = [d \in CollectorSet |-> collector'[d]]
  BY <1>6, <1>8
<1>10. ASSUME NEW i \in 1 .. Len(Collectors)
       PROVE  \E seen \in SUBSET DoneWith(i)' :
                /\ Collects(collector'[Collectors[i]], seen)
                /\ Collectors[i] # Alignment => seen = DoneWith(i)'
  <2>1. PICK seen \in SUBSET DoneWith(i) :
          /\ Collects(collector[Collectors[i]], seen)
          /\ Collectors[i] # Alignment => seen = DoneWith(i)
    BY DEF IInv, Collecting
  <2>2. CASE i # n
    <3>1. collector'[Collectors[i]] = collector[Collectors[i]]
      <4>1. Collectors[i] \in CollectorSet
        BY DEF CollectorSet
      <4> QED BY <1>6, <1>7, <1>8, <2>2, <4>1
    <3> QED BY <1>4, <2>1, <2>2, <3>1
  <2>3. CASE i = n /\ c = Alignment /\ UNCHANGED collector
    BY <1>4, <2>1, <2>3 DEF c, n
  <2>4. ASSUME i = n, NEW o \in Write(collector[c], task[w]),
               collector' = [collector EXCEPT ![c] = o]
        PROVE  \E s \in SUBSET DoneWith(i)' :
                 /\ Collects(collector'[Collectors[i]], s)
                 /\ Collectors[i] # Alignment => s = DoneWith(i)'
    <3>1. Collectors[i] = c /\ collector'[c] = o
      BY <1>7, <1>8, <2>4 DEF c
    <3>2. NumTasks \in Nat /\ seen \in SUBSET (0 .. NumTasks) /\ task[w] \in Nat
      BY <1>5, <2>1, DoneAreTasks, TasksAssumption DEF Tasks
    <3>3. task[w] \notin seen
      BY <1>5, <2>1, <2>4
    <3>4. Collects(o, seen \cup {task[w]})
      BY <2>1, <2>4, <3>1, <3>2, <3>3, WriteCollects
    <3>5. DoneWith(i)' = DoneWith(i) \cup {task[w]}
      BY <1>4, <2>4
    <3> QED BY <2>1, <3>1, <3>4, <3>5
  <2> QED BY <1>6, <2>2, <2>3, <2>4
<1>11. Collecting'
  BY <1>9, <1>10 DEF Collecting
<1> QED BY <1>3, <1>11

\* No line is through before the first task runs.
LEMMA IInvInit == Init => IInv
<1> SUFFICES ASSUME Init PROVE IInv
  OBVIOUS
<1>1. PoolInv
  BY InvInit DEF Init
<1>2. Writing
  BY CollectorsAssumption DEF Init, Writing
<1>3. Collecting
  <2>1. collector = [c \in CollectorSet |-> NewCollector]
    BY DEF Init
  <2>2. ASSUME NEW i \in 1 .. Len(Collectors)
        PROVE  collector[Collectors[i]] = NewCollector /\ DoneWith(i) = {}
    <3>1. Collectors[i] \in CollectorSet
      BY DEF CollectorSet
    <3>2. executed = {} /\ \A w \in Workers : ~(written[w] > i)
      BY DEF Init, PoolInit
    <3> QED BY <2>1, <3>1, <3>2 DEF DoneWith
  <2> QED BY <2>1, <2>2, NewCollects DEF Collecting
<1> QED BY <1>1, <1>2, <1>3 DEF IInv

\* Every step of moses keeps the invariant.
LEMMA IInvStep ==
  ASSUME IInv, [Next]_vars
  PROVE  IInv'
<1>1. [PoolNext]_poolVars
  BY RunIsPoolStep DEF Next, PoolStep, PoolNext, vars, poolVars
<1>2. PoolInv'
  BY <1>1, TypeStep, HoldingStep, OnceStep, WakeupStep, StoppingStep DEF IInv, PoolInv
<1>3. CASE PoolStep(MainStep) \/ PoolStep(SpuriousWakeup) \/ \E w \in Workers : PoolStep(WorkerStep(w))
  BY <1>2, <1>3, PoolStepKeeps DEF PoolStep, IInv
<1>4. ASSUME NEW w \in Workers, Run(w) PROVE IInv'
  BY <1>2, <1>4, TranslateKeeps, WriteNextKeeps, EndRunKeeps DEF Run, IInv
<1>5. CASE UNCHANGED vars
  <2>1. Writing' /\ Collecting'
    BY <1>5 DEF vars, poolVars, IInv, Writing, Collecting, DoneWith
  <2> QED BY <1>2, <2>1 DEF IInv
<1> QED BY <1>3, <1>4, <1>5 DEF Next

\* The invariant of the composition holds in every behaviour, fair or not.
THEOREM TranslationInvariant == Spec => []IInv
<1> QED BY IInvInit, IInvStep, PTL DEF Spec

-----------------------------------------------------------------------------
(* The theorems about the output *)

\* The lines on the stream are the numbers below nextOutput.
LEMMA LinesShown ==
  ASSUME NEW n \in Nat
  PROVE  ToSet(Lines(0, n - 1)) = 0 .. n - 1
<1> DEFINE s == Lines(0, n - 1)
<1>1. 0 \in Nat /\ 0 <= n
  OBVIOUS
<1>2. s \in Seq(Int) /\ Len(s) = n - 0 /\ \A k \in 1 .. n - 0 : s[k] = 0 + k - 1
  BY <1>1, LinesSequence
<1> HIDE DEF s
<1>3. DOMAIN s = 1 .. n
  BY <1>2
<1>4. \A k \in 1 .. n : s[k] = k - 1
  BY <1>2
<1>5. \A m \in 0 .. n - 1 : m + 1 \in 1 .. n /\ s[m + 1] = m
  BY <1>4
<1>6. ToSet(s) \subseteq 0 .. n - 1
  BY <1>3, <1>4 DEF ToSet
<1>7. 0 .. n - 1 \subseteq ToSet(s)
  BY <1>3, <1>5 DEF ToSet
<1> QED BY <1>6, <1>7 DEF s

\* Where the collectors stand is within the input.
LEMMA CollectorBounds ==
  ASSUME IInv, NEW c \in CollectorSet
  PROVE  /\ collector[c].nextOutput \in 0 .. NumTasks
         /\ collector[c].outputs \subseteq collector[c].nextOutput + 1 .. NumTasks - 1
<1>1. PICK i \in 1 .. Len(Collectors) : c = Collectors[i]
  BY DEF CollectorSet
<1>2. PICK seen \in SUBSET DoneWith(i) : Collects(collector[c], seen)
  BY <1>1 DEF IInv, Collecting
<1>3. seen \subseteq 0 .. NumTasks - 1 /\ NumTasks \in Nat
  BY DoneAreTasks, TasksAssumption DEF Tasks
<1> DEFINE next == collector[c].nextOutput
           cached == collector[c].outputs
<1>4. /\ next \in Nat /\ seen = (0 .. next - 1) \cup cached
      /\ \A k \in cached : k \in Nat /\ k > next
  BY <1>2 DEF Collects
<1> HIDE DEF next, cached
<1>5. next \in 0 .. NumTasks
  <2>1. CASE next = 0
    BY <1>3, <2>1
  <2>2. CASE next # 0
    <3>1. next - 1 \in Int /\ next - 1 \in seen
      BY <1>4, <2>2
    <3>2. next - 1 <= NumTasks - 1
      BY <1>3, <3>1
    <3> QED BY <1>3, <1>4, <3>1, <3>2
  <2> QED BY <2>1, <2>2
<1>6. cached \subseteq next + 1 .. NumTasks - 1
  BY <1>3, <1>4
<1> QED BY <1>5, <1>6 DEF next, cached

\* The types of the composition: no collector waits for a line beyond the input,
\* and no task is between collectors unless it runs.
THEOREM TranslationTypeCorrect == Spec => []TypeOK
<1>1. IInv => TypeOK
  BY CollectorBounds DEF IInv, PoolInv, Writing, TypeOK
<1> QED BY <1>1, TranslationInvariant, PTL

\* OutputCollector loses no line: what the tasks have written and the stream does
\* not show is in the cache; and when Stop(true) has returned and moses exits,
\* all lines are in the stream.
THEOREM NoLineLost ==
  ASSUME ProcessRemaining
  PROVE  Spec => []NothingLost
<1>1. ASSUME IInv PROVE NothingLost
  <2>1. SUFFICES ASSUME NEW i \in 1 .. Len(Collectors), Collectors[i] # Alignment
                 PROVE  LET c == collector[Collectors[i]]
                        IN  /\ ToSet(c.out) \cup c.outputs = DoneWith(i)
                            /\ main = "done" => c.outputs = {} /\ c.nextOutput = NumTasks
    BY DEF NothingLost
  <2> DEFINE c == collector[Collectors[i]]
  <2>2. Collects(c, DoneWith(i)) /\ Collectors[i] \in CollectorSet
    BY <1>1, <2>1 DEF IInv, Collecting, CollectorSet
  <2>3. ToSet(c.out) \cup c.outputs = DoneWith(i)
    BY <2>2, LinesShown DEF Collects
  <2>4. c.nextOutput \in 0 .. NumTasks /\ c.outputs \subseteq c.nextOutput + 1 .. NumTasks - 1
    BY <1>1, <2>2, CollectorBounds
  <2>5. ASSUME main = "done" PROVE c.outputs = {} /\ c.nextOutput = NumTasks
    <3>1. \A w \in Workers : ~(written[w] > i)
      BY <1>1, <2>5 DEF IInv, PoolInv, Stopping, Writing
    <3>2. DoneWith(i) = 0 .. NumTasks - 1
      BY <1>1, <2>5, <3>1, JobsCompleted DEF IInv, DoneWith, StopCompletesJobs, Tasks
    <3>3. c.nextOutput \notin DoneWith(i)
      BY <2>2 DEF Collects
    <3>4. c.nextOutput = NumTasks
      BY <2>4, <3>2, <3>3, TasksAssumption
    <3> QED BY <2>4, <3>4, TasksAssumption
  <2> QED BY <2>3, <2>5
<1> QED BY <1>1, TranslationInvariant, PTL

-----------------------------------------------------------------------------
(* The refinement *)

\* The streams as OrderedOutput sees them, line by line.
StreamsShow ==
  \A s \in Streams :
    /\ collector[s].nextOutput \in 0 .. NumTasks
    /\ collector[s].out = [k \in 1 .. collector[s].nextOutput |-> k - 1]
    /\ Len(collector[s].out) = collector[s].nextOutput

\* They show the first lines of the input.
LEMMA FirstLinesShown ==
  ASSUME IInv PROVE StreamsShow
<1> SUFFICES ASSUME NEW s \in Streams
             PROVE  /\ collector[s].nextOutput \in 0 .. NumTasks
                    /\ collector[s].out = [k \in 1 .. collector[s].nextOutput |-> k - 1]
                    /\ Len(collector[s].out) = collector[s].nextOutput
  BY DEF StreamsShow
<1>1. s \in CollectorSet /\ collector[s].nextOutput \in 0 .. NumTasks
  BY CollectorBounds DEF Streams
<1>2. collector[s].out = Lines(0, collector[s].nextOutput - 1)
  BY <1>1 DEF IInv, Collecting, Collects, CollectorSet
<1> DEFINE n == collector[s].nextOutput
<1>3. n \in Nat
  BY <1>1, TasksAssumption
<1>4. collector[s].out = [k \in 1 .. n |-> k - 1]
  <2> HIDE DEF n
  <2>1. Lines(0, n - 1) = [k \in 1 .. n |-> k - 1]
    BY <1>3 DEF Lines
  <2> QED BY <1>2, <2>1 DEF n
<1>5. Len(collector[s].out) = n
  <2> HIDE DEF n
  <2>1. Len([k \in 1 .. n |-> k - 1]) = n
    BY <1>3
  <2> QED BY <1>4, <2>1
<1> QED BY <1>1, <1>4, <1>5

\* Write advances the collector when it writes.
LEMMA WriteAdvances ==
  ASSUME IInv, NEW w \in Workers, WriteNext(w),
         NEW d \in CollectorSet, d = Collectors[written[w]],
         NEW o \in Write(collector[d], task[w]), o.out # collector[d].out
  PROVE  o.nextOutput > collector[d].nextOutput
<1> DEFINE i == written[w]
<1>1. i \in 1 .. Len(Collectors) /\ pc[w] = "run"
  BY DEF WriteNext
<1>2. PICK seen \in SUBSET DoneWith(i) : Collects(collector[d], seen)
  BY <1>1 DEF IInv, Collecting
<1>3. task[w] \in Tasks /\ task[w] \notin DoneWith(i)
  BY <1>1, CollectorsAssumption, LineIsNew
<1>4. NumTasks \in Nat /\ seen \in SUBSET (0 .. NumTasks) /\ task[w] \in Nat /\ task[w] \notin seen
  BY <1>1, <1>2, <1>3, DoneAreTasks, TasksAssumption DEF Tasks
<1> QED BY <1>2, <1>4, WriteGrows

\* The n-th line that a stream shows is the n-th line of the input, at all times,
\* whatever the order in which the tasks finish: each Write writes the lines that
\* follow in OrderedOutput, or nothing, and no other step writes.
THEOREM OutputFollowsInput == Spec => Promised!Safety
<1> DEFINE shown == [c \in Streams |-> collector[c].out]
<1>1. Init => Promised!Init
  <2> SUFFICES ASSUME Init PROVE shown = [s \in Streams |-> <<>>]
    BY DEF Promised!Init
  <2> QED BY DEF Init, Streams, NewCollector
<1>2. IInv => StreamsShow
  BY FirstLinesShown
<1>3. IInv /\ StreamsShow /\ StreamsShow' /\ [Next]_vars => [Promised!Next]_shown
  <2> SUFFICES ASSUME IInv, StreamsShow, StreamsShow', [Next]_vars PROVE [Promised!Next]_shown
    OBVIOUS
  <2>1. CASE UNCHANGED collector
    BY <2>1
  <2>2. ASSUME NEW w \in Workers, WriteNext(w), ~UNCHANGED collector PROVE [Promised!Next]_shown
    <3> DEFINE d == Collectors[written[w]]
    <3>1. PICK o \in Write(collector[d], task[w]) : collector' = [collector EXCEPT ![d] = o]
      BY <2>2 DEF WriteNext
    <3>2. d \in CollectorSet
      BY <2>2 DEF WriteNext, CollectorSet
    <3>3. collector'[d] = o /\ \A s \in Streams \ {d} : collector'[s] = collector[s]
      BY <3>1, <3>2 DEF IInv, Collecting, Streams
    <3> HIDE DEF d
    <3>4. CASE d \notin Streams \/ o.out = collector[d].out
      BY <3>3, <3>4
    <3>5. CASE d \in Streams /\ o.out # collector[d].out
      <4>1. /\ o.nextOutput \in 0 .. NumTasks
            /\ o.out = [k \in 1 .. o.nextOutput |-> k - 1]
        BY <3>3, <3>5 DEF StreamsShow
      <4>2. collector[d].nextOutput \in 0 .. NumTasks /\ Len(collector[d].out) = collector[d].nextOutput
        BY <3>5 DEF StreamsShow
      <4>3. o.nextOutput > collector[d].nextOutput
        BY <2>2, <3>1, <3>2, <3>5, WriteAdvances DEF d
      <4>4. o.nextOutput \in Len(shown[d]) + 1 .. NumTasks
        BY <3>5, <4>1, <4>2, <4>3, TasksAssumption
      <4>5. shown' = [shown EXCEPT ![d] = [k \in 1 .. o.nextOutput |-> k - 1]]
        BY <3>3, <3>5, <4>1
      <4> QED BY <3>5, <4>4, <4>5 DEF Promised!Next, Promised!WriteMore
    <3> QED BY <3>4, <3>5
  <2> QED BY <2>1, <2>2
      DEF Next, PoolStep, Run, Translate, EndRun, vars
<1> QED BY <1>1, <1>2, <1>3, TranslationInvariant, PTL DEF Spec, Promised!Safety
=============================================================================
