------------------------------ MODULE WorkerPool ------------------------------
(***************************************************************************)
(* The worker pool: WorkThreadPool over TaskQueue.  Event loops submit     *)
(* tasks; a task's completion may submit the next task of its connection   *)
(* from the worker that ran it; stop() closes the queue and joins.         *)
(*                                                                         *)
(* pop() tests and blocks under mtx_, and tryPush() and stop() change the  *)
(* queue under mtx_, so each is one step; tryPush()'s notify_one() comes   *)
(* after the unlock and is a step of its own.  A task is its number.       *)
(***************************************************************************)
EXTENDS Integers, Sequences, FiniteSets

CONSTANTS
  PoolWorkers,  \* the pool's threads
  Loops,        \* event-loop threads, which submit
  MaxTasks      \* bound: tasks submitted

\* num_ is at least one: WorkThreadPool(0) takes four threads.
PoolAssumption == PoolWorkers # {} /\ PoolWorkers \cap Loops = {} /\ MaxTasks \in Nat

VARIABLES
  taskQueue, stopped,   \* TaskQueue: queue_, stop_
  threadAt,             \* where each thread is
  hand,                 \* the task a thread holds, 0 if none
  stopper,              \* place of the thread in WorkThreadPool::stop()
  tasksMade,            \* tasks made so far
  accepted, ran,        \* tasks tryPush() took; tasks whose run_ was called
  completions           \* how often each task's onComplete_ was called

workPoolVars == <<taskQueue, stopped, threadAt, hand, stopper, tasksMade, accepted, ran,
                  completions>>

PoolThread == PoolWorkers \cup Loops
Task == 1..MaxTasks

PoolTypeOK ==
  /\ taskQueue \in Seq(Task) /\ stopped \in BOOLEAN
  /\ threadAt \in [PoolThread -> {"home", "blocked", "run", "complete", "push",
                                  "notify", "exited"}]
  /\ hand \in [PoolThread -> 0..MaxTasks]
  /\ stopper \in {"idle", "join", "returned"}
  /\ tasksMade \in 0..MaxTasks
  /\ accepted \subseteq Task /\ ran \subseteq Task
  /\ completions \in [Task -> Nat]

PoolInit ==
  /\ taskQueue = <<>> /\ stopped = FALSE
  /\ threadAt = [t \in PoolThread |-> "home"] /\ hand = [t \in PoolThread |-> 0]
  /\ stopper = "idle" /\ tasksMade = 0 /\ accepted = {} /\ ran = {}
  /\ completions = [k \in Task |-> 0]

Move(t, p) == threadAt' = [threadAt EXCEPT ![t] = p]

\* Mistakes the properties are tried against: the pool rejects without telling
\* anyone; pop() leaves a closed queue with tasks in it.
RejectSilently == "home"
LeaveClosed == stopped

\* submit() on a closed queue: call onComplete_ here.
RejectTo == "complete"

\* pop(): stopped and empty.
PopLeaves == stopped /\ taskQueue = <<>>

\* queue_.push(std::move(task))
Push(q, k) == Append(q, k)

\* A loop thread has parsed a request that may run at once.
Submit(l) ==
  /\ threadAt[l] = "home" /\ tasksMade < MaxTasks
  /\ tasksMade' = tasksMade + 1
  /\ hand' = [hand EXCEPT ![l] = tasksMade + 1]
  /\ Move(l, "push")
  /\ UNCHANGED <<taskQueue, stopped, stopper, accepted, ran, completions>>

\* submit() calls onComplete_ whether or not the queue took the task.
TryPushAndComplete(t) ==
  /\ threadAt[t] = "push"
  /\ taskQueue' = IF stopped THEN taskQueue ELSE Append(taskQueue, hand[t])
  /\ accepted' = IF stopped THEN accepted ELSE accepted \cup {hand[t]}
  /\ Move(t, "complete")
  /\ UNCHANGED <<stopped, hand, stopper, tasksMade, ran, completions>>

\* submit(): tryPush(), under the lock.
TryPush(t) ==
  /\ threadAt[t] = "push"
  /\ IF stopped
       THEN Move(t, RejectTo) /\ UNCHANGED <<taskQueue, accepted>>
       ELSE /\ taskQueue' = Push(taskQueue, hand[t])
            /\ accepted' = accepted \cup {hand[t]}
            /\ Move(t, "notify")
  /\ UNCHANGED <<stopped, hand, stopper, tasksMade, ran, completions>>

\* tryPush(): notify_one() wakes one blocked worker, if there is one.
Notify(t) ==
  /\ threadAt[t] = "notify"
  /\ LET sleepers == {w \in PoolWorkers : threadAt[w] = "blocked"} IN
       IF sleepers = {} THEN Move(t, "home")
       ELSE \E w \in sleepers :
              threadAt' = [threadAt EXCEPT ![t] = "home", ![w] = "home"]
  /\ UNCHANGED <<taskQueue, stopped, hand, stopper, tasksMade, accepted, ran,
                 completions>>

\* pop(): take the head, or leave worker() with an empty Task, or block.
Pop(w) ==
  /\ threadAt[w] = "home"
  /\ IF PopLeaves THEN Move(w, "exited") /\ UNCHANGED <<taskQueue, hand>>
     ELSE IF taskQueue # <<>>
       THEN /\ hand' = [hand EXCEPT ![w] = Head(taskQueue)]
            /\ taskQueue' = Tail(taskQueue)
            /\ Move(w, "run")
       ELSE Move(w, "blocked") /\ UNCHANGED <<taskQueue, hand>>
  /\ UNCHANGED <<stopped, stopper, tasksMade, accepted, ran, completions>>

\* cv_.wait may wake by itself.
SpuriousWakeup(w) ==
  /\ threadAt[w] = "blocked"
  /\ Move(w, "home")
  /\ UNCHANGED <<taskQueue, stopped, hand, stopper, tasksMade, accepted, ran,
                 completions>>

\* task.run_(), which may throw; onComplete_ follows in both cases.
RunTask(w) ==
  /\ threadAt[w] = "run"
  /\ ran' = ran \cup {hand[w]}
  /\ Move(w, "complete")
  /\ UNCHANGED <<taskQueue, stopped, hand, stopper, tasksMade, accepted, completions>>

\* onComplete_ of the task in hand: it may submit a next task.
Complete(t) ==
  /\ threadAt[t] = "complete"
  /\ completions' = [completions EXCEPT ![hand[t]] = @ + 1]
  /\ \/ /\ Move(t, "home") /\ UNCHANGED <<tasksMade, hand>>
     \/ /\ tasksMade < MaxTasks
        /\ tasksMade' = tasksMade + 1
        /\ hand' = [hand EXCEPT ![t] = tasksMade + 1]
        /\ Move(t, "push")
  /\ UNCHANGED <<taskQueue, stopped, stopper, accepted, ran>>

\* Threads are not woken when the queue is closed.
StopUnnoticed ==
  /\ stopper = "idle"
  /\ stopped' = TRUE /\ stopper' = "join"
  /\ UNCHANGED <<taskQueue, threadAt, hand, tasksMade, accepted, ran, completions>>

\* stop(): TaskQueue::stop() sets stop_ and wakes everyone, under the lock.
StopQueue ==
  /\ stopper = "idle"
  /\ stopped' = TRUE /\ stopper' = "join"
  /\ threadAt' = [t \in PoolThread |->
                    IF threadAt[t] = "blocked" THEN "home" ELSE threadAt[t]]
  /\ UNCHANGED <<taskQueue, hand, tasksMade, accepted, ran, completions>>

\* stop(): join every worker.
StopJoin ==
  /\ stopper = "join" /\ \A w \in PoolWorkers : threadAt[w] = "exited"
  /\ stopper' = "returned"
  /\ UNCHANGED <<taskQueue, stopped, threadAt, hand, tasksMade, accepted, ran,
                 completions>>

\* The pool may stay idle, and stays stopped.
AtRest ==
  /\ tasksMade = MaxTasks /\ \A w \in PoolWorkers : threadAt[w] \in {"blocked", "exited"}
  /\ UNCHANGED workPoolVars

SubmitStep(t) == TryPush(t) \/ Notify(t) \/ Complete(t)

PoolWorkerStep(w) == Pop(w) \/ RunTask(w) \/ SubmitStep(w)

PoolNext ==
  \/ \E l \in Loops : Submit(l) \/ SubmitStep(l)
  \/ \E w \in PoolWorkers : PoolWorkerStep(w) \/ SpuriousWakeup(w)
  \/ StopQueue \/ StopJoin \/ AtRest

\* Threads run; nobody has to submit or stop, and handlers return.
PoolFairness ==
  /\ \A w \in PoolWorkers : WF_workPoolVars(PoolWorkerStep(w))
  /\ \A l \in Loops : WF_workPoolVars(SubmitStep(l))
  /\ WF_workPoolVars(StopJoin)

PoolSpec == PoolInit /\ [][PoolNext]_workPoolVars /\ PoolFairness

-----------------------------------------------------------------------------
\* Every submitted task is completed exactly once, run or rejected: onComplete_
\* is called at most once, whatever state the threads are in (of the type)...
CompletedOnce == PoolTypeOK /\ \A k \in Task : completions[k] <= 1

\* ...and is eventually called, also when stop() overtakes the submission.
\* Otherwise Connection::taskRunning_ would stay true and its close never end.
TasksComplete == \A k \in Task : tasksMade >= k ~> completions[k] = 1

\* stop() returns only after every accepted task has run; a task is run only
\* if it was accepted.
StopDrains ==
  /\ ran \subseteq accepted
  /\ stopper = "returned" => taskQueue = <<>> /\ ran = accepted

\* stop() returns.
StopReturns == stopped ~> stopper = "returned"
=============================================================================
