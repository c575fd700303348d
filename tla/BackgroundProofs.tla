-------------------------- MODULE BackgroundProofs --------------------------
(***************************************************************************)
(* Proofs about the threads that work behind the loops and about what      *)
(* stopping the server waits for, for every value of the constants.        *)
(*                                                                         *)
(* WorkerPool: any threads that submit, any number of workers but none,    *)
(* any number of tasks.                                                    *)
(*                                                                         *)
(* MessageWriter, what ChatService keeps outside the process: any number   *)
(* of workers, messages, outages and restarts and any sizes of the pool,   *)
(* the queue and the batch.  Every message is accounted for and in order,  *)
(* ~ChatService() leaves nothing behind, and MySQLPool loses a connection  *)
(* only to an outage.  The invariant ties what a thread holds to its place *)
(* and the flags to the place of the destructor, says which connections    *)
(* can be broken before the first outage, and keeps the places of a        *)
(* message disjoint, from which the count of messages follows.             *)
(*                                                                         *)
(* AsyncLogger: any number of lines, any size of a batch.                  *)
(***************************************************************************)
EXTENDS MessageWriter, WorkerPool, AsyncLogger, SequenceTheorems, FiniteSetTheorems, TLAPS

-----------------------------------------------------------------------------
(* The worker pool *)

\* The places at which a thread owns the task in its hand.
Holding == {"run", "complete", "push"}

Waits(k) == \E i \in 1..Len(taskQueue) : taskQueue[i] = k

\* A task is in one hand or in the queue, and not completed there.
OwnerInv ==
  /\ \A t \in PoolThread : threadAt[t] \in Holding =>
       /\ hand[t] \in 1..tasksMade /\ completions[hand[t]] = 0 /\ ~Waits(hand[t])
       /\ \A u \in PoolThread : u # t /\ threadAt[u] \in Holding => hand[u] # hand[t]
  /\ \A i \in 1..Len(taskQueue) :
       /\ taskQueue[i] \in 1..tasksMade /\ completions[taskQueue[i]] = 0
       /\ taskQueue[i] \in accepted
       /\ \A j \in 1..Len(taskQueue) : j # i => taskQueue[j] # taskQueue[i]
  /\ \A k \in Task : completions[k] <= 1 /\ (k > tasksMade => completions[k] = 0)

\* A task that was accepted has run, is being run or waits for a worker; a worker
\* leaves an empty, closed queue only.
DrainInv ==
  /\ ran \subseteq accepted
  /\ \A t \in PoolThread : threadAt[t] = "run" => t \in PoolWorkers /\ hand[t] \in accepted
  /\ \A k \in accepted :
       k \in ran \/ Waits(k) \/ \E w \in PoolWorkers : threadAt[w] = "run" /\ hand[w] = k
  /\ \A t \in PoolThread : threadAt[t] \in {"blocked", "exited"} => t \in PoolWorkers
  /\ \A w \in PoolWorkers : threadAt[w] = "exited" => stopped /\ taskQueue = <<>>
  /\ stopper = "idle" <=> ~stopped
  /\ stopper = "returned" => \A w \in PoolWorkers : threadAt[w] = "exited"

PoolInv == PoolTypeOK /\ OwnerInv /\ DrainInv

\* What the head and the tail of the queue hold.
LEMMA PopSeq ==
  ASSUME NEW S, NEW q \in Seq(S), q # <<>>
  PROVE  /\ Head(q) = q[1] /\ Head(q) \in S /\ Tail(q) \in Seq(S)
         /\ Len(q) \in Nat /\ Len(q) >= 1 /\ Len(Tail(q)) = Len(q) - 1
         /\ \A i \in 1..Len(Tail(q)) : Tail(q)[i] = q[i + 1] /\ i + 1 \in 2..Len(q)
         /\ \A i \in 2..Len(q) : i - 1 \in 1..Len(Tail(q)) /\ Tail(q)[i - 1] = q[i]
<1>1. Len(q) \in Nat /\ Len(q) >= 1
    OBVIOUS
<1> QED BY <1>1

\* What appending to the queue does.
LEMMA PushSeq ==
  ASSUME NEW S, NEW q \in Seq(S), NEW k \in S
  PROVE  /\ Append(q, k) \in Seq(S)
         /\ Len(q) \in Nat /\ Len(Append(q, k)) = Len(q) + 1
         /\ \A i \in 1..Len(q) : Append(q, k)[i] = q[i]
         /\ Append(q, k)[Len(q) + 1] = k
OBVIOUS

\* Every step keeps the types.
LEMMA PoolTypeStep ==
  ASSUME PoolAssumption, PoolInv, [PoolNext]_workPoolVars
  PROVE  PoolTypeOK'
<1> USE DEF PoolInv, PoolTypeOK, Move
<1>a. MaxTasks \in Nat
    BY DEF PoolAssumption
<1>q. taskQueue \in Seq(Task)
    OBVIOUS
<1>1. ASSUME NEW l \in Loops, Submit(l) PROVE PoolTypeOK'
  <2>1. tasksMade' \in 0..MaxTasks /\ tasksMade + 1 \in 0..MaxTasks
      BY <1>1, <1>a DEF Submit
  <2>2. threadAt' \in [PoolThread -> {"home", "blocked", "run", "complete", "push", "notify",
       "exited"}]
      BY <1>1 DEF Submit
  <2>3. hand' \in [PoolThread -> 0..MaxTasks]
      BY <1>1, <2>1 DEF Submit
  <2> QED BY <1>1, <2>1, <2>2, <2>3 DEF Submit
<1>2. ASSUME NEW t \in PoolThread, TryPush(t) PROVE PoolTypeOK'
  <2>1. hand[t] \in Task
      BY <1>a, <1>2 DEF OwnerInv, Holding, TryPush, Task
  <2>2. Append(taskQueue, hand[t]) \in Seq(Task)
      BY <2>1, <1>q, PushSeq
  <2> QED BY <2>1, <2>2, <1>2 DEF TryPush, RejectTo, Push
<1>3. ASSUME NEW t \in PoolThread, Notify(t) PROVE PoolTypeOK'
    BY <1>3, <1>a, <1>q DEF Notify
<1>4. ASSUME NEW t \in PoolThread, Complete(t) PROVE PoolTypeOK'
  <2>1. hand[t] \in Task
      BY <1>a, <1>4 DEF OwnerInv, Holding, Complete, Task
  <2>2. completions' \in [Task -> Nat]
      BY <2>1, <1>4 DEF Complete
  <2>3. threadAt' \in [PoolThread -> {"home", "blocked", "run", "complete", "push", "notify",
       "exited"}]
      BY <1>4 DEF Complete
  <2>4. tasksMade' \in 0..MaxTasks
      BY <1>4, <1>a DEF Complete
  <2>5. hand' \in [PoolThread -> 0..MaxTasks]
    <3>1. CASE hand' = hand
        BY <3>1
    <3>2. CASE tasksMade < MaxTasks /\ hand' = [hand EXCEPT ![t] = tasksMade + 1]
      <4>1. tasksMade + 1 \in 0..MaxTasks
          BY <3>2, <1>a
      <4> QED BY <3>2, <4>1
    <3> QED BY <3>1, <3>2, <1>4 DEF Complete
  <2> QED BY <2>2, <2>3, <2>4, <2>5, <1>4 DEF Complete
<1>5. ASSUME NEW w \in PoolWorkers, Pop(w) PROVE PoolTypeOK'
  <2>1. CASE PopLeaves \/ taskQueue = <<>>
      BY <2>1, <1>5 DEF Pop, PopLeaves
  <2>2. CASE ~PopLeaves /\ taskQueue # <<>>
    <3>1. Head(taskQueue) \in 0..MaxTasks /\ Tail(taskQueue) \in Seq(Task)
      <4>1. Head(taskQueue) \in Task /\ Tail(taskQueue) \in Seq(Task)
          BY <2>2, <1>q, PopSeq
      <4> QED BY <4>1, <1>a DEF Task
    <3>2. hand' \in [PoolThread -> 0..MaxTasks] /\ taskQueue' \in Seq(Task)
        BY <2>2, <3>1, <1>5 DEF Pop
    <3> QED BY <2>2, <3>2, <1>5 DEF Pop
  <2> QED BY <2>1, <2>2
<1>6. ASSUME NEW w \in PoolWorkers, RunTask(w) PROVE PoolTypeOK'
  <2>1. hand[w] \in Task
      BY <1>a, <1>6 DEF OwnerInv, Holding, RunTask, Task, PoolThread
  <2> QED BY <2>1, <1>6 DEF RunTask
<1>7. ASSUME NEW w \in PoolWorkers, SpuriousWakeup(w) PROVE PoolTypeOK'
    BY <1>7, <1>a, <1>q DEF SpuriousWakeup
<1>8. CASE StopQueue
    BY <1>8, <1>a, <1>q DEF StopQueue
<1>9. CASE StopJoin
    BY <1>9, <1>a, <1>q DEF StopJoin
<1>10. CASE AtRest
    BY <1>10, <1>a, <1>q DEF AtRest, workPoolVars
<1>11. CASE UNCHANGED workPoolVars
    BY <1>11, <1>a, <1>q DEF workPoolVars
<1> QED
    BY <1>1, <1>2, <1>3, <1>4, <1>5, <1>6, <1>7, <1>8, <1>9, <1>10, <1>11
    DEF PoolNext, PoolWorkerStep, SubmitStep, PoolThread

\* Every step keeps each task in one place, and not completed there.
LEMMA OwnerStep ==
  ASSUME PoolAssumption, PoolInv, [PoolNext]_workPoolVars
  PROVE  OwnerInv'
<1> USE DEF OwnerInv, PoolInv, Holding, Waits, Move, Task
<1>a. MaxTasks \in Nat /\ tasksMade \in Nat /\ tasksMade <= MaxTasks
    BY DEF PoolAssumption, PoolInv, PoolTypeOK
<1>t. /\ threadAt \in [PoolThread -> {"home", "blocked", "run", "complete", "push", "notify",
           "exited"}]
      /\ hand \in [PoolThread -> 0..MaxTasks] /\ completions \in [Task -> Nat]
    BY DEF PoolInv, PoolTypeOK
<1>q. taskQueue \in Seq(Task) /\ Len(taskQueue) \in Nat
    BY DEF PoolInv, PoolTypeOK
<1>w. PoolWorkers \subseteq PoolThread /\ Loops \subseteq PoolThread
    BY DEF PoolThread
<1>1. ASSUME NEW l \in Loops, Submit(l) PROVE OwnerInv'
  <2>1. /\ threadAt[l] = "home" /\ tasksMade' = tasksMade + 1 /\ tasksMade < MaxTasks
        /\ hand' = [hand EXCEPT ![l] = tasksMade + 1]
        /\ threadAt' = [threadAt EXCEPT ![l] = "push"]
        /\ UNCHANGED <<taskQueue, completions, accepted>>
      BY <1>1, <1>a, <1>t, <1>q, <1>w DEF Submit
  <2>2. /\ completions[tasksMade + 1] = 0 /\ ~Waits(tasksMade + 1)
        /\ \A u \in PoolThread : threadAt[u] \in Holding => hand[u] # tasksMade + 1
      BY <2>1, <1>a, <1>q
  <2>3. \A t \in PoolThread : t # l => threadAt'[t] = threadAt[t] /\ hand'[t] = hand[t]
      BY <2>1, <1>t
  <2>4. threadAt'[l] = "push" /\ hand'[l] = tasksMade + 1
      BY <2>1, <1>t, <1>w
  <2>5. \A t \in PoolThread : threadAt[t] \in Holding => hand[t] \in 1..(tasksMade + 1)
      BY <1>a
  <2>6. \A i \in 1..Len(taskQueue) : taskQueue[i] \in 1..(tasksMade + 1)
      BY <1>a
  <2> QED BY <2>1, <2>2, <2>3, <2>4, <2>5, <2>6, <1>a, <1>t, <1>w
<1>2. ASSUME NEW t \in PoolThread, TryPush(t) PROVE OwnerInv'
  <2>1. threadAt[t] = "push" /\ UNCHANGED <<hand, tasksMade, completions>>
      BY <1>2, <1>a, <1>t, <1>q, <1>w DEF TryPush
  <2>k. hand[t] \in Task /\ hand[t] \in 1..tasksMade /\ completions[hand[t]] = 0
        /\ ~Waits(hand[t])
      BY <2>1, <1>a, <1>t
  <2>2. CASE stopped
    <3>1. /\ UNCHANGED <<taskQueue, accepted>> /\ threadAt' = [threadAt EXCEPT ![t] = "complete"]
        BY <1>2, <1>a, <1>t, <1>q, <1>w, <2>2 DEF TryPush, RejectTo
    <3>2. \A u \in PoolThread : threadAt'[u] \in Holding => threadAt[u] \in Holding
        BY <3>1, <2>1, <1>t
    <3> QED BY <2>1, <3>1, <3>2
  <2>3. CASE ~stopped
    <3> DEFINE k == hand[t]
               n == Len(taskQueue)
    <3>1. /\ taskQueue' = Append(taskQueue, k) /\ accepted' = accepted \cup {k}
          /\ threadAt' = [threadAt EXCEPT ![t] = "notify"]
        BY <1>2, <1>a, <1>t, <1>q, <1>w, <2>3 DEF TryPush, Push
    <3>2. /\ Len(taskQueue') = n + 1 /\ taskQueue'[n + 1] = k
          /\ \A i \in 1..n : taskQueue'[i] = taskQueue[i]
        BY <3>1, <2>k, <1>q, PushSeq
    <3>3. \A i \in 1..Len(taskQueue') : i \in 1..n \/ i = n + 1
        BY <3>2, <1>q
    <3>4. ASSUME NEW u \in PoolThread, threadAt'[u] \in Holding
          PROVE  /\ threadAt[u] \in Holding /\ u # t
                 /\ ~\E i \in 1..Len(taskQueue') : taskQueue'[i] = hand[u]
      <4>1. threadAt[u] \in Holding /\ u # t
          BY <3>4, <3>1, <2>1, <1>t
      <4>2. hand[u] # k /\ ~Waits(hand[u])
          BY <4>1, <2>1
      <4> QED BY <4>1, <4>2, <3>2, <3>3
    <3>5. ASSUME NEW i \in 1..Len(taskQueue')
          PROVE  /\ taskQueue'[i] \in 1..tasksMade /\ completions[taskQueue'[i]] = 0
                 /\ taskQueue'[i] \in accepted'
                 /\ \A j \in 1..Len(taskQueue') : j # i => taskQueue'[j] # taskQueue'[i]
      <4>1. CASE i \in 1..n
        <5>1. taskQueue'[i] = taskQueue[i] /\ taskQueue[i] # k
            BY <3>2, <4>1, <2>k
        <5> QED BY <5>1, <4>1, <3>1, <3>2, <3>3
      <4>2. CASE i = n + 1
        <5>1. \A j \in 1..n : taskQueue[j] # k
            BY <2>k
        <5> QED BY <5>1, <4>2, <2>k, <3>1, <3>2, <3>3
      <4> QED BY <3>3, <4>1, <4>2
    <3> HIDE DEF k, n
    <3> QED BY <2>1, <3>4, <3>5
  <2> QED BY <2>2, <2>3
<1>3. ASSUME NEW t \in PoolThread, Notify(t) PROVE OwnerInv'
    BY <1>3, <1>a, <1>t, <1>q, <1>w DEF Notify
<1>4. ASSUME NEW t \in PoolThread, Complete(t) PROVE OwnerInv'
  <2> DEFINE k == hand[t]
  <2>1. /\ threadAt[t] = "complete" /\ UNCHANGED <<taskQueue, accepted>>
        /\ completions' = [completions EXCEPT ![k] = @ + 1]
      BY <1>4, <1>a, <1>t, <1>q, <1>w DEF Complete
  <2>2. k \in 1..tasksMade /\ k \in Task /\ completions[k] = 0 /\ ~Waits(k)
      BY <2>1, <1>a, <1>t
  <2>3. /\ completions'[k] = 1
        /\ \A j \in Task : j # k => completions'[j] = completions[j]
      BY <2>1, <2>2, <1>t
  <2>t. \A j \in 1..tasksMade : j \in Task
      BY <1>a
  <2>4. \A i \in 1..Len(taskQueue) : taskQueue[i] # k /\ taskQueue[i] \in Task
      BY <2>2, <2>t
  <2>5. ASSUME NEW u \in PoolThread, u # t, threadAt[u] \in Holding
        PROVE  hand[u] # k /\ hand[u] \in Task /\ hand[u] \in 1..tasksMade
      BY <2>5, <2>1, <1>a, <1>t
  <2> HIDE DEF k
  <2>6. CASE threadAt' = [threadAt EXCEPT ![t] = "home"] /\ UNCHANGED <<tasksMade, hand>>
    <3>1. \A u \in PoolThread : threadAt'[u] \in Holding => u # t /\ threadAt[u] \in Holding
        BY <2>6, <1>t
    <3>2. ASSUME NEW u \in PoolThread, threadAt'[u] \in Holding
          PROVE  /\ hand'[u] \in 1..tasksMade' /\ completions'[hand'[u]] = 0 /\ ~Waits(hand'[u])
                 /\ \A v \in PoolThread : v # u /\ threadAt'[v] \in Holding => hand'[v] # hand'[u]
      <4>1. u # t /\ threadAt[u] \in Holding /\ hand[u] # k /\ hand[u] \in Task
          BY <2>5, <3>1, <3>2
      <4>2. completions'[hand[u]] = completions[hand[u]]
          BY <2>3, <4>1
      <4> QED BY <2>6, <3>1, <4>1, <4>2
    <3>3. \A i \in 1..Len(taskQueue') :
            /\ taskQueue'[i] \in 1..tasksMade' /\ completions'[taskQueue'[i]] = 0
            /\ taskQueue'[i] \in accepted'
            /\ \A j \in 1..Len(taskQueue') : j # i => taskQueue'[j] # taskQueue'[i]
        BY <2>1, <2>3, <2>4, <2>6
    <3>4. \A j \in Task : completions'[j] <= 1 /\ (j > tasksMade' => completions'[j] = 0)
        BY <2>2, <2>3, <2>6, <1>a
    <3> QED BY <2>1, <3>2, <3>3, <3>4
  <2>7. CASE /\ tasksMade < MaxTasks /\ tasksMade' = tasksMade + 1
             /\ hand' = [hand EXCEPT ![t] = tasksMade + 1]
             /\ threadAt' = [threadAt EXCEPT ![t] = "push"]
    <3>1. tasksMade + 1 \in Task /\ tasksMade + 1 # k /\ completions'[tasksMade + 1] = 0
        BY <2>2, <2>3, <2>7, <1>a
    <3>2. \A i \in 1..Len(taskQueue) : taskQueue[i] # tasksMade + 1
          /\ taskQueue[i] \in 1..(tasksMade + 1)
        BY <1>a
    <3>3. \A u \in PoolThread : u # t => threadAt'[u] = threadAt[u] /\ hand'[u] = hand[u]
        BY <2>7, <1>t
    <3>4. threadAt'[t] = "push" /\ hand'[t] = tasksMade + 1
        BY <2>7, <1>t
    <3>5. ASSUME NEW u \in PoolThread, u # t, threadAt'[u] \in Holding
          PROVE  /\ hand'[u] \in 1..tasksMade' /\ hand'[u] # tasksMade + 1
                 /\ completions'[hand'[u]] = 0 /\ ~Waits(hand'[u])
      <4>1. threadAt[u] \in Holding /\ hand'[u] = hand[u]
          BY <3>3, <3>5
      <4>2. hand[u] \in 1..tasksMade /\ hand[u] # k /\ hand[u] \in Task
          BY <2>5, <3>5, <4>1
      <4>3. hand[u] \in 1..(tasksMade + 1) /\ hand[u] # tasksMade + 1
          BY <4>2, <1>a
      <4> QED BY <2>3, <2>7, <4>1, <4>2, <4>3
    <3>6. ASSUME NEW u \in PoolThread, threadAt'[u] \in Holding
          PROVE  /\ hand'[u] \in 1..tasksMade' /\ completions'[hand'[u]] = 0 /\ ~Waits(hand'[u])
                 /\ \A v \in PoolThread : v # u /\ threadAt'[v] \in Holding => hand'[v] # hand'[u]
      <4>1. CASE u = t
        <5>1. tasksMade + 1 \in 1..(tasksMade + 1)
            BY <1>a
        <5> QED BY <4>1, <5>1, <3>1, <3>2, <3>4, <3>5, <2>7
      <4>2. CASE u # t
          BY <4>2, <3>3, <3>4, <3>5, <3>6
      <4> QED BY <4>1, <4>2
    <3>7. \A j \in Task : completions'[j] <= 1 /\ (j > tasksMade' => completions'[j] = 0)
        BY <2>2, <2>3, <2>7, <1>a
    <3>8. \A i \in 1..Len(taskQueue') :
            /\ taskQueue'[i] \in 1..tasksMade' /\ completions'[taskQueue'[i]] = 0
            /\ taskQueue'[i] \in accepted'
            /\ \A j \in 1..Len(taskQueue') : j # i => taskQueue'[j] # taskQueue'[i]
        BY <2>1, <2>3, <2>4, <2>7, <3>2
    <3> QED BY <2>1, <3>6, <3>7, <3>8
  <2> QED BY <1>4, <1>a, <1>t, <1>q, <1>w, <2>6, <2>7 DEF Complete
<1>5. ASSUME NEW w \in PoolWorkers, Pop(w) PROVE OwnerInv'
  <2>1. threadAt[w] = "home" /\ UNCHANGED <<tasksMade, completions, accepted>> /\ w \in PoolThread
      BY <1>5, <1>a, <1>t, <1>q, <1>w DEF Pop
  <2>2. CASE UNCHANGED <<taskQueue, hand>> /\ \E p \in {"exited",
            "blocked"} : threadAt' = [threadAt EXCEPT ![w] = p]
    <3>1. \A u \in PoolThread : threadAt'[u] \in Holding => threadAt[u] \in Holding
        BY <2>2, <1>t
    <3> QED BY <2>1, <2>2, <3>1
  <2>3. CASE /\ taskQueue # <<>> /\ hand' = [hand EXCEPT ![w] = Head(taskQueue)]
             /\ taskQueue' = Tail(taskQueue) /\ threadAt' = [threadAt EXCEPT ![w] = "run"]
    <3> DEFINE k == taskQueue[1]
    <3>1. /\ hand'[w] = k /\ threadAt'[w] = "run" /\ Len(taskQueue) >= 1
          /\ 1 \in 1..Len(taskQueue)
          /\ \A i \in 1..Len(taskQueue') : taskQueue'[i] = taskQueue[i + 1]
                /\ i + 1 \in 2..Len(taskQueue)
        BY <2>1, <2>3, <1>q, <1>t, PopSeq
    <3>2. k \in 1..tasksMade /\ completions[k] = 0
        BY <3>1
    <3>3. \A i \in 1..Len(taskQueue') :
            /\ i + 1 \in 1..Len(taskQueue) /\ i + 1 # 1 /\ taskQueue'[i] # k
        BY <3>1, <1>q
    <3>4. ASSUME NEW u \in PoolThread, u # w, threadAt'[u] \in Holding
          PROVE  threadAt[u] \in Holding /\ hand'[u] = hand[u] /\ hand[u] # k
      <4>1. threadAt[u] \in Holding /\ hand'[u] = hand[u]
          BY <3>4, <2>3, <1>t
      <4> QED BY <4>1, <3>1
    <3>5. ASSUME NEW u \in PoolThread, threadAt'[u] \in Holding
          PROVE  /\ hand'[u] \in 1..tasksMade /\ completions[hand'[u]] = 0
                 /\ ~\E i \in 1..Len(taskQueue') : taskQueue'[i] = hand'[u]
                 /\ \A v \in PoolThread : v # u /\ threadAt'[v] \in Holding => hand'[v] # hand'[u]
      <4>1. CASE u = w
          BY <4>1, <3>1, <3>2, <3>3, <3>4
      <4>2. CASE u # w
          BY <4>2, <3>1, <3>3, <3>4, <3>5
      <4> QED BY <4>1, <4>2
    <3>6. \A i \in 1..Len(taskQueue') :
            /\ taskQueue'[i] \in 1..tasksMade /\ completions[taskQueue'[i]] = 0
            /\ taskQueue'[i] \in accepted
            /\ \A j \in 1..Len(taskQueue') : j # i => taskQueue'[j] # taskQueue'[i]
      <4>1. \A i, j \in 1..Len(taskQueue') : j # i => j + 1 # i + 1
          BY <3>1
      <4> QED BY <4>1, <3>1, <3>3
    <3> HIDE DEF k
    <3> QED BY <2>1, <3>5, <3>6
  <2> QED BY <1>5, <1>a, <1>t, <1>q, <1>w, <2>2, <2>3 DEF Pop
<1>6. ASSUME NEW w \in PoolWorkers, RunTask(w) PROVE OwnerInv'
    BY <1>6, <1>a, <1>t, <1>q, <1>w DEF RunTask
<1>7. ASSUME NEW w \in PoolWorkers, SpuriousWakeup(w) PROVE OwnerInv'
    BY <1>7, <1>a, <1>t, <1>q, <1>w DEF SpuriousWakeup
<1>8. CASE StopQueue
    BY <1>8, <1>a, <1>t, <1>q, <1>w DEF StopQueue
<1>9. CASE StopJoin
    BY <1>9, <1>a, <1>t, <1>q, <1>w DEF StopJoin
<1>10. CASE AtRest
    BY <1>10, <1>a, <1>t, <1>q, <1>w DEF AtRest, workPoolVars
<1>11. CASE UNCHANGED workPoolVars
    BY <1>11, <1>a, <1>t, <1>q, <1>w DEF workPoolVars
<1> QED
    BY <1>1, <1>2, <1>3, <1>4, <1>5, <1>6, <1>7, <1>8, <1>9, <1>10, <1>11
    DEF PoolNext, PoolWorkerStep, SubmitStep, PoolThread

\* Every step keeps track of the accepted tasks.
LEMMA DrainStep ==
  ASSUME PoolAssumption, PoolInv, [PoolNext]_workPoolVars
  PROVE  DrainInv'
<1> USE DEF DrainInv, PoolInv, Waits, Move
<1>a. MaxTasks \in Nat /\ tasksMade \in Nat /\ tasksMade <= MaxTasks
    BY DEF PoolAssumption, PoolInv, PoolTypeOK
<1>t. /\ threadAt \in [PoolThread -> {"home", "blocked", "run", "complete", "push", "notify",
           "exited"}]
      /\ hand \in [PoolThread -> 0..MaxTasks] /\ completions \in [Task -> Nat]
    BY DEF PoolInv, PoolTypeOK
<1>q. taskQueue \in Seq(Task) /\ Len(taskQueue) \in Nat
    BY DEF PoolInv, PoolTypeOK
<1>w. PoolWorkers \subseteq PoolThread /\ Loops \subseteq PoolThread
    BY DEF PoolThread
<1>1. ASSUME NEW l \in Loops, Submit(l) PROVE DrainInv'
    BY <1>1, <1>a, <1>t, <1>q, <1>w DEF Submit
<1>2. ASSUME NEW t \in PoolThread, TryPush(t) PROVE DrainInv'
  <2>1. threadAt[t] = "push" /\ UNCHANGED <<hand, stopped, stopper, ran>>
      BY <1>2, <1>a, <1>t, <1>q, <1>w DEF TryPush
  <2>2. CASE stopped
    <3>1. UNCHANGED <<taskQueue, accepted>> /\ threadAt' = [threadAt EXCEPT ![t] = "complete"]
        BY <1>2, <1>a, <1>t, <1>q, <1>w, <2>2 DEF TryPush, RejectTo
    <3>2. \A u \in PoolThread : u # t => threadAt'[u] = threadAt[u]
        BY <3>1, <1>t
    <3>3. threadAt'[t] = "complete"
        BY <3>1, <1>t
    <3>4. stopper' = "returned" => t \notin PoolWorkers
        BY <2>1
    <3> QED BY <2>1, <3>1, <3>2, <3>3, <3>4, <1>w
  <2>3. CASE ~stopped
    <3> DEFINE k == hand[t]
               n == Len(taskQueue)
    <3>1. /\ taskQueue' = Append(taskQueue, k) /\ accepted' = accepted \cup {k}
          /\ threadAt' = [threadAt EXCEPT ![t] = "notify"]
        BY <1>2, <1>a, <1>t, <1>q, <1>w, <2>3 DEF TryPush, Push
    <3>k. k \in Task
        BY <2>1, <1>a, <1>t DEF OwnerInv, Holding, Task
    <3>2. /\ Len(taskQueue') = n + 1 /\ taskQueue'[n + 1] = k
          /\ \A i \in 1..n : taskQueue'[i] = taskQueue[i]
        BY <3>1, <3>k, <1>q, PushSeq
    <3>3. n + 1 \in 1..Len(taskQueue') /\ \A i \in 1..n : i \in 1..Len(taskQueue')
        BY <3>2, <1>q
    <3>4. Waits(k)' /\ \A j \in accepted : Waits(j) => Waits(j)'
        BY <3>2, <3>3, <2>1
    <3>5. \A u \in PoolThread : u # t => threadAt'[u] = threadAt[u]
        BY <3>1, <1>t
    <3>6. threadAt'[t] = "notify"
        BY <3>1, <1>t
    <3>7. \A j \in accepted' :
            j \in ran \/ Waits(j)' \/ \E w \in PoolWorkers : threadAt'[w] = "run" /\ hand[w] = j
      <4>1. \A w \in PoolWorkers : threadAt[w] = "run" => threadAt'[w] = "run"
          BY <2>1, <3>5, <1>w
      <4>2. ASSUME NEW j \in accepted'
            PROVE  j \in ran \/ Waits(j)' \/ \E w \in PoolWorkers : threadAt'[w] = "run"
                    /\ hand[w] = j
        <5>1. CASE j = k
            BY <5>1, <3>4, <2>1
        <5>2. CASE j \in accepted
          <6>1. CASE Waits(j)
              BY <6>1, <5>2, <3>4
          <6>2. CASE \E w \in PoolWorkers : threadAt[w] = "run" /\ hand[w] = j
              BY <6>2, <4>1
          <6> QED BY <5>2, <6>1, <6>2
        <5> QED BY <5>1, <5>2, <3>1
      <4> QED BY <4>2
    <3>8. \A w \in PoolWorkers : threadAt'[w] # "exited"
        BY <2>1, <2>3, <3>5, <3>6, <1>w
    <3>9. stopper' # "returned" /\ (stopper' = "idle" <=> ~stopped')
        BY <2>1, <2>3
    <3>10. ASSUME NEW u \in PoolThread
           PROVE  /\ threadAt'[u] = "run" => u \in PoolWorkers /\ hand'[u] \in accepted'
                  /\ threadAt'[u] \in {"blocked", "exited"} => u \in PoolWorkers
      <4>1. CASE u = t
          BY <4>1, <3>6
      <4>2. CASE u # t
          BY <4>2, <3>1, <3>5, <2>1
      <4> QED BY <4>1, <4>2
    <3>11. ran' \subseteq accepted'
        BY <2>1, <3>1
    <3> HIDE DEF Waits, n, k
    <3> QED BY <2>1, <3>7, <3>8, <3>9, <3>10, <3>11
  <2> QED BY <2>2, <2>3
<1>3. ASSUME NEW t \in PoolThread, Notify(t) PROVE DrainInv'
  <2>1. threadAt[t] = "notify" /\ UNCHANGED <<taskQueue, hand, stopped, stopper, accepted, ran>>
      BY <1>3, <1>a, <1>t, <1>q, <1>w DEF Notify
  <2>2. \A u \in PoolThread : \/ threadAt'[u] = threadAt[u]
                              \/ u = t /\ threadAt'[u] = "home"
                              \/ threadAt[u] = "blocked" /\ threadAt'[u] = "home"
      BY <1>3, <1>a, <1>t, <1>q, <1>w DEF Notify
  <2>3. stopper = "returned" => t \notin PoolWorkers
        /\ \A w \in PoolWorkers : threadAt[w] # "blocked"
      BY <2>1
  <2>4. \A u \in PoolThread : threadAt'[u] = "run" <=> threadAt[u] = "run"
      BY <2>1, <2>2
  <2>5. \A u \in PoolThread : threadAt'[u] \in {"blocked", "exited"} => threadAt'[u] = threadAt[u]
      BY <2>2
  <2>6. stopper = "returned" => \A w \in PoolWorkers : threadAt'[w] = "exited"
      BY <2>1, <2>2, <2>3, <1>w
  <2> QED BY <2>1, <2>4, <2>5, <2>6, <1>w
<1>4. ASSUME NEW t \in PoolThread, Complete(t) PROVE DrainInv'
  <2>1. threadAt[t] = "complete" /\ UNCHANGED <<taskQueue, stopped, stopper, accepted, ran>>
      BY <1>4, <1>a, <1>t, <1>q, <1>w DEF Complete
  <2>2. \A u \in PoolThread : u # t => threadAt'[u] = threadAt[u] /\ hand'[u] = hand[u]
      BY <1>4, <1>a, <1>t, <1>q, <1>w DEF Complete
  <2>3. threadAt'[t] \in {"home", "push"}
      BY <1>4, <1>a, <1>t, <1>q, <1>w DEF Complete
  <2>4. stopper = "returned" => t \notin PoolWorkers
      BY <2>1
  <2>5. \A u \in PoolThread : threadAt'[u] = "run" <=> threadAt[u] = "run"
      BY <2>1, <2>2, <2>3
  <2>6. \A u \in PoolThread : threadAt[u] = "run" => hand'[u] = hand[u]
      BY <2>1, <2>2
  <2>7. \A u \in PoolThread : threadAt'[u] \in {"blocked", "exited"} => threadAt'[u] = threadAt[u]
      BY <2>2, <2>3
  <2>8. stopper = "returned" => \A w \in PoolWorkers : threadAt'[w] = "exited"
      BY <2>2, <2>4, <1>w
  <2> QED BY <2>1, <2>5, <2>6, <2>7, <2>8, <1>w
<1>5. ASSUME NEW w \in PoolWorkers, Pop(w) PROVE DrainInv'
  <2>1. threadAt[w] = "home" /\ UNCHANGED <<stopped, stopper, accepted, ran>> /\ w \in PoolThread
      BY <1>5, <1>a, <1>t, <1>q, <1>w DEF Pop
  <2>r. stopper # "returned"
      BY <2>1
  <2>2. CASE /\ UNCHANGED <<taskQueue, hand>>
             /\ \/ PopLeaves /\ threadAt' = [threadAt EXCEPT ![w] = "exited"]
                \/ threadAt' = [threadAt EXCEPT ![w] = "blocked"]
    <3>1. \A u \in PoolThread : u # w => threadAt'[u] = threadAt[u]
        BY <2>2, <1>t
    <3>2. threadAt'[w] = "blocked" \/ (threadAt'[w] = "exited" /\ stopped /\ taskQueue = <<>>)
      <4>1. CASE PopLeaves /\ threadAt' = [threadAt EXCEPT ![w] = "exited"]
        <5>1. threadAt'[w] = "exited"
            BY <4>1, <2>1, <1>t
        <5>2. stopped /\ taskQueue = <<>>
            BY <4>1 DEF PopLeaves
        <5> QED BY <5>1, <5>2
      <4>2. CASE threadAt' = [threadAt EXCEPT ![w] = "blocked"]
          BY <4>2, <2>1, <1>t
      <4> QED BY <2>2, <4>1, <4>2
    <3>3. \A u \in PoolThread : threadAt'[u] = "run" <=> threadAt[u] = "run"
        BY <2>1, <3>1, <3>2
    <3> QED BY <2>1, <2>r, <2>2, <3>1, <3>2, <3>3, <1>w
  <2>3. CASE /\ taskQueue # <<>> /\ hand' = [hand EXCEPT ![w] = Head(taskQueue)]
             /\ taskQueue' = Tail(taskQueue) /\ threadAt' = [threadAt EXCEPT ![w] = "run"]
    <3> DEFINE k == taskQueue[1]
    <3>1. /\ hand'[w] = k /\ threadAt'[w] = "run" /\ 1 \in 1..Len(taskQueue)
          /\ \A i \in 2..Len(taskQueue) : i - 1 \in 1..Len(taskQueue')
                /\ taskQueue'[i - 1] = taskQueue[i]
        BY <2>1, <2>3, <1>q, <1>t, PopSeq
    <3>2. k \in accepted
        BY <3>1 DEF OwnerInv
    <3>3. \A u \in PoolThread : u # w => threadAt'[u] = threadAt[u] /\ hand'[u] = hand[u]
        BY <2>3, <1>t
    <3>4. \A j \in accepted : Waits(j) => j = k \/ Waits(j)'
      <4>1. \A i \in 1..Len(taskQueue) : i = 1 \/ i \in 2..Len(taskQueue)
          BY <1>q
      <4> QED BY <3>1, <4>1
    <3>5. ASSUME NEW j \in accepted
          PROVE  j \in ran \/ Waits(j)' \/ \E v \in PoolWorkers : threadAt'[v] = "run"
                  /\ hand'[v] = j
      <4>1. CASE Waits(j)
          BY <4>1, <3>1, <3>4
      <4>2. CASE \E v \in PoolWorkers : threadAt[v] = "run" /\ hand[v] = j
          BY <4>2, <2>1, <3>3, <1>w
      <4> QED BY <4>1, <4>2
    <3>6. \A v \in PoolWorkers : threadAt'[v] # "exited"
        BY <2>3, <3>1, <3>3, <1>w
    <3>7. ASSUME NEW u \in PoolThread
          PROVE  /\ threadAt'[u] = "run" => u \in PoolWorkers /\ hand'[u] \in accepted
                 /\ threadAt'[u] \in {"blocked", "exited"} => u \in PoolWorkers
      <4>1. CASE u = w
          BY <4>1, <3>1, <3>2
      <4>2. CASE u # w
          BY <4>2, <3>3
      <4> QED BY <4>1, <4>2
    <3> HIDE DEF Waits, k
    <3> QED BY <2>1, <2>r, <3>5, <3>6, <3>7
  <2> QED BY <1>5, <1>a, <1>t, <1>q, <1>w, <2>2, <2>3 DEF Pop
<1>6. ASSUME NEW w \in PoolWorkers, RunTask(w) PROVE DrainInv'
    BY <1>6, <1>a, <1>t, <1>q, <1>w DEF RunTask
<1>7. ASSUME NEW w \in PoolWorkers, SpuriousWakeup(w) PROVE DrainInv'
    BY <1>7, <1>a, <1>t, <1>q, <1>w DEF SpuriousWakeup
<1>8. CASE StopQueue
    BY <1>8, <1>a, <1>t, <1>q, <1>w DEF StopQueue
<1>9. CASE StopJoin
    BY <1>9, <1>a, <1>t, <1>q, <1>w DEF StopJoin
<1>10. CASE AtRest
    BY <1>10, <1>a, <1>t, <1>q, <1>w DEF AtRest, workPoolVars
<1>11. CASE UNCHANGED workPoolVars
    BY <1>11, <1>a, <1>t, <1>q, <1>w DEF workPoolVars
<1> QED
    BY <1>1, <1>2, <1>3, <1>4, <1>5, <1>6, <1>7, <1>8, <1>9, <1>10, <1>11
    DEF PoolNext, PoolWorkerStep, SubmitStep, PoolThread

\* The pool starts with nothing accepted.
LEMMA PoolInitially == ASSUME PoolAssumption PROVE PoolInit => PoolInv
<1> SUFFICES ASSUME PoolInit PROVE PoolInv
    OBVIOUS
<1>1. PoolTypeOK
  <2>1. taskQueue \in Seq(Task) /\ tasksMade \in 0..MaxTasks /\ completions \in [Task -> Nat]
      BY DEF PoolInit, PoolAssumption
  <2> QED BY <2>1 DEF PoolInit, PoolTypeOK
<1>2. OwnerInv
    BY DEF PoolInit, OwnerInv, Holding, Waits, Task
<1>3. DrainInv
    BY DEF PoolInit, DrainInv, PoolThread
<1> QED BY <1>1, <1>2, <1>3 DEF PoolInv

\* PoolInv is an invariant for any loops, any workers but none, and any number of
\* tasks.
THEOREM PoolInvariance == ASSUME PoolAssumption PROVE PoolSpec => []PoolInv
<1>1. PoolInit => PoolInv
    BY PoolInitially
<1>2. PoolInv /\ [PoolNext]_workPoolVars => PoolInv'
    BY PoolTypeStep, OwnerStep, DrainStep DEF PoolInv
<1> QED
    BY <1>1, <1>2, PTL DEF PoolSpec

\* A task's onComplete_ is called at most once.
THEOREM CompletedOnceHolds == ASSUME PoolAssumption PROVE PoolSpec => []CompletedOnce
<1>1. PoolInv => CompletedOnce
    BY DEF PoolInv, OwnerInv, CompletedOnce
<1> QED
    BY <1>1, PoolInvariance, PTL

\* stop() returns only after every accepted task has run.
THEOREM StopDrainsHolds == ASSUME PoolAssumption PROVE PoolSpec => []StopDrains
<1>1. PoolInv => StopDrains
  <2> SUFFICES ASSUME PoolInv PROVE StopDrains
      OBVIOUS
  <2>1. ran \subseteq accepted
      BY DEF PoolInv, DrainInv
  <2>2. ASSUME stopper = "returned" PROVE taskQueue = <<>> /\ ran = accepted
    <3>1. PICK w \in PoolWorkers : TRUE
        BY DEF PoolAssumption
    <3>2. taskQueue = <<>>
        BY <2>2, <3>1 DEF PoolInv, DrainInv
    <3>3. \A k \in accepted : ~Waits(k)
        BY <3>2 DEF Waits
    <3>4. accepted \subseteq ran
        BY <2>2, <3>3 DEF PoolInv, DrainInv
    <3> QED BY <2>1, <3>2, <3>4
  <2> QED BY <2>1, <2>2 DEF StopDrains
<1> QED
    BY <1>1, PoolInvariance, PTL

-----------------------------------------------------------------------------
(* The message writer, the pools of MySQL and Redis *)

\* What is or will be in the table.
Line == (stored \o batch) \o queue

Ascending(s) == \A i, j \in 1..Len(s) : i < j => s[i] < s[j]

\* A thread has a connection between getConnection() and its release.
HeldOk(t) == place[t] \notin {"ping", "use"} => held[t] = {}

HoldInv ==
  /\ \A t \in Thread : HeldOk(t)
  /\ heart # "use" => redisHeld = {}

\* The destructor waits for the workers, then the writer, then the heartbeat.
ExitInv ==
  /\ stop <=> dtor # "serving"
  /\ dtor # "serving" => \A w \in Workers : place[w] = "idle"
  /\ dtor \in {"joinHeart", "closed"} => place[Writer] = "done"
  /\ dtor = "closed" => heart = "done"

\* The writer has a batch only while it inserts it, and leaves with nothing to do.
BatchInv ==
  /\ place[Writer] \in {"idle", "done"} => batch = <<>>
  /\ place[Writer] = "done" => stop /\ queue = <<>>
  /\ Len(queue) <= MaxQueue /\ Len(batch) <= MaxBatch

\* Connections break in an outage only.
SoundInv ==
  outages = 0 =>
    /\ forsaken = 0
    /\ \A i \in 1..Len(pool) : pool[i] = TRUE
    /\ \A t \in Thread : FALSE \notin held[t]

Out == {t \in Thread : held[t] # {}}

CountInv == dtor # "closed" => Len(pool) + Cardinality(Out) + forsaken = opened

\* A message is in one place.
MessageInv ==
  /\ Ascending(Line)
  /\ SetOf(Line) \cup failed \cup dropped = 1..made
  /\ SetOf(Line) \cap failed = {} /\ SetOf(Line) \cap dropped = {}
  /\ failed \cap dropped = {}

WriterInv ==
  TypeOK /\ HoldInv /\ ExitInv /\ BatchInv /\ SoundInv /\ CountInv /\ MessageInv

-----------------------------------------------------------------------------
(* Sequences *)

\* What the places of a concatenation hold.
LEMMA ConcatPlaces ==
  ASSUME NEW S, NEW s \in Seq(S), NEW t \in Seq(S), NEW r, r = s \o t
  PROVE  /\ r \in Seq(S) /\ Len(r) = Len(s) + Len(t) /\ Len(s) \in Nat /\ Len(t) \in Nat
         /\ \A i \in 1..Len(s) : i \in 1..Len(r) /\ r[i] = s[i]
         /\ \A i \in 1..Len(t) : Len(s) + i \in 1..Len(r) /\ r[Len(s) + i] = t[i]
         /\ \A i \in 1..Len(r) : \/ i \in 1..Len(s) /\ r[i] = s[i]
                                 \/ i - Len(s) \in 1..Len(t) /\ r[i] = t[i - Len(s)]
<1>1. /\ r \in Seq(S) /\ Len(r) = Len(s) + Len(t)
      /\ \A i \in 1..(Len(s) + Len(t)) : r[i] = IF i <= Len(s) THEN s[i] ELSE t[i - Len(s)]
    BY ConcatProperties
<1>2. Len(s) \in Nat /\ Len(t) \in Nat
    OBVIOUS
<1>3. \A i \in 1..Len(s) : i \in 1..Len(r) /\ r[i] = s[i]
    BY <1>1, <1>2
<1>4. ASSUME NEW i \in 1..Len(t) PROVE Len(s) + i \in 1..Len(r) /\ r[Len(s) + i] = t[i]
  <2>1. Len(s) + i \in 1..(Len(s) + Len(t)) /\ ~(Len(s) + i <= Len(s))
      BY <1>2
  <2>2. r[Len(s) + i] = t[(Len(s) + i) - Len(s)]
      BY <2>1, <1>1
  <2>3. (Len(s) + i) - Len(s) = i
      BY <1>2
  <2> QED BY <2>1, <2>2, <2>3, <1>1
<1>5. ASSUME NEW i \in 1..Len(r)
      PROVE  \/ i \in 1..Len(s) /\ r[i] = s[i]
             \/ i - Len(s) \in 1..Len(t) /\ r[i] = t[i - Len(s)]
  <2>1. CASE i <= Len(s)
      BY <2>1, <1>1, <1>2
  <2>2. CASE ~(i <= Len(s))
    <3>1. r[i] = t[i - Len(s)]
        BY <2>2, <1>1, <1>2
    <3>2. i - Len(s) \in 1..Len(t)
        BY <2>2, <1>1, <1>2
    <3> QED BY <3>1, <3>2
  <2> QED BY <2>1, <2>2
<1> QED BY <1>1, <1>2, <1>3, <1>4, <1>5

\* A concatenation holds what its parts hold.
LEMMA ConcatSet ==
  ASSUME NEW S, NEW s \in Seq(S), NEW t \in Seq(S)
  PROVE  SetOf(s \o t) = SetOf(s) \cup SetOf(t)
<1>1. PICK r : r = s \o t
    OBVIOUS
<1>2. /\ \A i \in 1..Len(s) : i \in 1..Len(r) /\ r[i] = s[i]
      /\ \A i \in 1..Len(t) : Len(s) + i \in 1..Len(r) /\ r[Len(s) + i] = t[i]
      /\ \A i \in 1..Len(r) : \/ i \in 1..Len(s) /\ r[i] = s[i]
                              \/ i - Len(s) \in 1..Len(t) /\ r[i] = t[i - Len(s)]
    BY <1>1, ConcatPlaces
<1>3. ASSUME NEW x \in SetOf(r) PROVE x \in SetOf(s) \/ x \in SetOf(t)
  <2>1. PICK i \in 1..Len(r) : x = r[i]
      BY DEF SetOf
  <2> QED BY <2>1, <1>2 DEF SetOf
<1>4. ASSUME NEW x \in SetOf(s) PROVE x \in SetOf(r)
    BY <1>2 DEF SetOf
<1>5. ASSUME NEW x \in SetOf(t) PROVE x \in SetOf(r)
  <2>1. PICK i \in 1..Len(t) : x = t[i]
      BY DEF SetOf
  <2>2. Len(s) + i \in 1..Len(r) /\ r[Len(s) + i] = x
      BY <2>1, <1>2
  <2> QED BY <2>2 DEF SetOf
<1>6. SetOf(r) = SetOf(s) \cup SetOf(t)
    BY <1>3, <1>4, <1>5
<1> QED BY <1>1, <1>6

\* A concatenation ascends when its parts do and the first is below the second.
LEMMA ConcatAscends ==
  ASSUME NEW s \in Seq(Nat), NEW t \in Seq(Nat)
  PROVE  Ascending(s \o t) <=> /\ Ascending(s) /\ Ascending(t)
                               /\ \A x \in SetOf(s), y \in SetOf(t) : x < y
<1>1. PICK r : r = s \o t
    OBVIOUS
<1>2. /\ Len(r) = Len(s) + Len(t) /\ Len(s) \in Nat /\ Len(t) \in Nat
      /\ \A i \in 1..Len(s) : i \in 1..Len(r) /\ r[i] = s[i]
      /\ \A i \in 1..Len(t) : Len(s) + i \in 1..Len(r) /\ r[Len(s) + i] = t[i]
      /\ \A i \in 1..Len(r) : \/ i \in 1..Len(s) /\ r[i] = s[i]
                              \/ i - Len(s) \in 1..Len(t) /\ r[i] = t[i - Len(s)]
    BY <1>1, ConcatPlaces
<1>3. ASSUME Ascending(r)
      PROVE  Ascending(s) /\ Ascending(t) /\ \A x \in SetOf(s), y \in SetOf(t) : x < y
  <2>1. Ascending(s)
      BY <1>2, <1>3 DEF Ascending
  <2>2. Ascending(t)
    <3>1. ASSUME NEW i \in 1..Len(t), NEW j \in 1..Len(t), i < j PROVE t[i] < t[j]
      <4>1. Len(s) + i < Len(s) + j
          BY <3>1, <1>2
      <4> QED BY <4>1, <1>2, <1>3 DEF Ascending
    <3> QED BY <3>1 DEF Ascending
  <2>3. ASSUME NEW x \in SetOf(s), NEW y \in SetOf(t) PROVE x < y
    <3>1. PICK i \in 1..Len(s) : x = s[i]
        BY DEF SetOf
    <3>2. PICK j \in 1..Len(t) : y = t[j]
        BY DEF SetOf
    <3>3. i < Len(s) + j
        BY <1>2
    <3> QED BY <3>1, <3>2, <3>3, <1>2, <1>3 DEF Ascending
  <2> QED BY <2>1, <2>2, <2>3
<1>4. ASSUME Ascending(s), Ascending(t), \A x \in SetOf(s), y \in SetOf(t) : x < y
      PROVE  Ascending(r)
  <2>1. ASSUME NEW i \in 1..Len(r), NEW j \in 1..Len(r), i < j PROVE r[i] < r[j]
    <3>1. CASE i \in 1..Len(s) /\ r[i] = s[i] /\ j \in 1..Len(s) /\ r[j] = s[j]
        BY <3>1, <2>1, <1>4 DEF Ascending
    <3>2. CASE /\ i \in 1..Len(s) /\ r[i] = s[i]
               /\ j - Len(s) \in 1..Len(t) /\ r[j] = t[j - Len(s)]
        BY <3>2, <1>4 DEF SetOf
    <3>3. CASE /\ i - Len(s) \in 1..Len(t) /\ r[i] = t[i - Len(s)]
               /\ j - Len(s) \in 1..Len(t) /\ r[j] = t[j - Len(s)]
      <4>1. i - Len(s) < j - Len(s)
          BY <2>1, <1>2
      <4> QED BY <3>3, <4>1, <1>4 DEF Ascending
    <3>4. CASE i - Len(s) \in 1..Len(t) /\ j \in 1..Len(s)
        BY <3>4, <2>1, <1>2
    <3> QED BY <3>1, <3>2, <3>3, <3>4, <1>2
  <2> QED BY <2>1 DEF Ascending
<1> QED BY <1>1, <1>3, <1>4

\* An ascending sequence holds as many values as it is long.
LEMMA AscendingCard ==
  ASSUME NEW s \in Seq(Nat), Ascending(s)
  PROVE  IsFiniteSet(SetOf(s)) /\ Cardinality(SetOf(s)) = Len(s)
<1>1. Len(s) \in Nat /\ \A i \in 1..Len(s) : s[i] \in Nat
    OBVIOUS
<1>2. IsFiniteSet(1..Len(s)) /\ Cardinality(1..Len(s)) = Len(s)
    BY <1>1, FS_Interval
<1> DEFINE g == [i \in 1..Len(s) |-> s[i]]
<1>3. g \in Bijection(1..Len(s), SetOf(s))
  <2>1. g \in [1..Len(s) -> SetOf(s)]
      BY DEF SetOf
  <2>2. \A y \in SetOf(s) : \E i \in 1..Len(s) : g[i] = y
      BY DEF SetOf
  <2>3. ASSUME NEW i \in 1..Len(s), NEW j \in 1..Len(s), s[i] = s[j] PROVE i = j
    <3>1. ~(i < j) /\ ~(j < i)
        BY <2>3, <1>1 DEF Ascending
    <3> QED BY <3>1, <1>1
  <2>4. \A i, j \in 1..Len(s) : g[i] = g[j] => i = j
      BY <2>3
  <2> QED BY <2>1, <2>2, <2>4 DEF Bijection, Injection, Surjection, IsInjective
<1>4. ExistsBijection(1..Len(s), SetOf(s))
    BY <1>3 DEF ExistsBijection
<1> QED BY <1>2, <1>4, FS_Bijection

\* A round of dbWriterLoop() cuts the queue in two.
LEMMA TakenSplits ==
  ASSUME TypeOK, NEW rest, rest = SubSeq(queue, Len(Taken) + 1, Len(queue))
  PROVE  /\ Taken \in Seq(Message) /\ rest \in Seq(Message) /\ Taken \o rest = queue
         /\ Len(Taken) <= MaxBatch /\ Len(rest) <= Len(queue)
<1>1. queue \in Seq(Message) /\ Len(queue) \in Nat /\ MaxBatch \in Nat \ {0}
    BY WriterAssumption DEF TypeOK
<1>2. PICK n \in Nat : n = IF Len(queue) < MaxBatch THEN Len(queue) ELSE MaxBatch
    BY <1>1
<1>3. n <= Len(queue) /\ n <= MaxBatch /\ Taken = SubSeq(queue, 1, n)
    BY <1>1, <1>2 DEF Taken
<1>4. \A i \in 1..Len(queue) : queue[i] \in Message
    BY <1>1
<1>5. Taken \in Seq(Message) /\ Len(Taken) = n
  <2>1. /\ SubSeq(queue, 1, n) \in Seq(Message)
        /\ Len(SubSeq(queue, 1, n)) = IF 1 <= n THEN n - 1 + 1 ELSE 0
    <3>1. \A i \in 1..n : queue[i] \in Message
        BY <1>1, <1>3, <1>4
    <3> QED BY <3>1, SubSeqProperties
  <2> QED BY <2>1, <1>3
<1>6. rest \in Seq(Message) /\ Len(rest) <= Len(queue)
  <2>1. /\ rest \in Seq(Message)
        /\ Len(rest) = IF n + 1 <= Len(queue) THEN Len(queue) - (n + 1) + 1 ELSE 0
    <3>1. \A i \in (n + 1)..Len(queue) : queue[i] \in Message
        BY <1>1, <1>4
    <3>2. n + 1 \in Int /\ Len(queue) \in Int
        BY <1>1
    <3>3. rest = SubSeq(queue, n + 1, Len(queue))
        BY <1>5
    <3> QED BY <3>1, <3>2, <3>3, SubSeqProperties
  <2> QED BY <2>1, <1>1
<1>7. SubSeq(queue, 1, n) \o SubSeq(queue, n + 1, Len(queue)) = SubSeq(queue, 1, Len(queue))
  <2>1. 1 \in 1..(Len(queue) + 1) /\ n \in (1 - 1)..Len(queue) /\ Len(queue) \in n..Len(queue)
      BY <1>1, <1>3
  <2> QED BY <2>1, <1>1, ConcatAdjacentSubSeq
<1>8. SubSeq(queue, 1, Len(queue)) = queue
    BY <1>1, SubSeqFull
<1> QED BY <1>3, <1>5, <1>6, <1>7, <1>8

-----------------------------------------------------------------------------
(* Types and places *)

\* A sequence of the same value.
LEMMA Filled ==
  ASSUME NEW n \in Nat, NEW b \in BOOLEAN
  PROVE  [i \in 1..n |-> b] \in Seq(BOOLEAN) /\ Len([i \in 1..n |-> b]) = n
<1>1. [i \in 1..n |-> b] \in [1..n -> BOOLEAN]
    OBVIOUS
<1>2. [i \in 1..n |-> b] \in Seq(BOOLEAN)
    BY <1>1, SeqDef
<1> QED BY <1>2

\* Giving up costs the writer its batch, and a handler nothing.
LEMMA GiveUpTypes ==
  ASSUME TypeOK, NEW t, GiveUp(t)
  PROVE  /\ queue' = queue /\ batch' \in Seq(Message) /\ failed' \subseteq Message
         /\ UNCHANGED <<stop, made, dropped>>
<1>1. batch \in Seq(Message) /\ failed \subseteq Message
    BY DEF TypeOK
<1>2. {batch[i] : i \in 1..Len(batch)} \subseteq Message
    BY <1>1
<1>3. CASE t = Writer
    BY <1>1, <1>2, <1>3 DEF GiveUp, BatchFailed
<1>4. CASE t # Writer
    BY <1>1, <1>4 DEF GiveUp
<1> QED BY <1>3, <1>4 DEF GiveUp

\* Every step keeps the types.
LEMMA WriterTypeStep ==
  ASSUME WriterInv, [Next]_vars
  PROVE  TypeOK'
<1> USE DEF WriterInv, TypeOK, Link, queueVars, poolVars, redisVars, Goto
<1>w. Writer \in Thread /\ Workers \subseteq Thread /\ Writer \notin Workers
    BY WriterAssumption DEF Thread
<1>n. /\ MaxMessages \in Nat /\ MaxOutages \in Nat /\ MaxRestarts \in Nat /\ LeaseBeats \in Nat
      /\ 0 \in 0..LeaseBeats
    BY WriterAssumption
<1>1. CASE WriterTake
  <2>1. PICK rest : rest = SubSeq(queue, Len(Taken) + 1, Len(queue))
      OBVIOUS
  <2>2. Taken \in Seq(Message) /\ rest \in Seq(Message)
      BY <2>1, TakenSplits
  <2>3. queue' \in Seq(Message) /\ batch' \in Seq(Message)
      BY <1>1, <1>w, <1>n, <2>1, <2>2 DEF WriterTake
  <2>4. place' \in [Thread -> {"idle", "borrow", "ping", "use", "done"}]
      BY <1>1, <1>w, <1>n DEF WriterTake
  <2> QED BY <1>1, <1>w, <1>n, <2>3, <2>4 DEF WriterTake
<1>2. ASSUME NEW t \in Thread, GetConnection(t) PROVE TypeOK'
  <2>g. ASSUME GiveUp(t) PROVE
          /\ queue' = queue /\ batch' \in Seq(Message) /\ failed' \subseteq Message
          /\ place' \in [Thread -> {"idle", "borrow", "ping", "use", "done"}]
          /\ UNCHANGED <<stop, made, dropped>>
    <3>1. place' = [place EXCEPT ![t] = "idle"]
        BY <2>g DEF GiveUp
    <3> QED BY <2>g, <3>1, <1>w, GiveUpTypes
  <2>1. CASE pool # <<>> /\ UNCHANGED queueVars /\ Goto(t, "ping")
             /\ held' = [held EXCEPT ![t] = {Head(pool)}] /\ pool' = Tail(pool)
    <3>1. Head(pool) \in BOOLEAN /\ Tail(pool) \in Seq(BOOLEAN)
        BY <2>1
    <3>2. held' \in [Thread -> SUBSET Link] /\ pool' \in Seq(Link)
        BY <2>1, <3>1
    <3> QED BY <1>2, <1>w, <1>n, <2>1, <3>2 DEF GetConnection
  <2>2. CASE GiveUp(t) /\ UNCHANGED <<pool, held, stored>>
      BY <1>2, <1>w, <1>n, <2>2, <2>g DEF GetConnection
  <2> QED BY <1>2, <1>w, <1>n, <2>1, <2>2 DEF GetConnection
<1>3. ASSUME NEW t \in Thread, Ping(t) PROVE TypeOK'
  <2>g. ASSUME GiveUp(t) PROVE
          /\ queue' = queue /\ batch' \in Seq(Message) /\ failed' \subseteq Message
          /\ place' \in [Thread -> {"idle", "borrow", "ping", "use", "done"}]
          /\ UNCHANGED <<stop, made, dropped>>
    <3>1. place' = [place EXCEPT ![t] = "idle"]
        BY <2>g DEF GiveUp
    <3> QED BY <2>g, <3>1, <1>w, GiveUpTypes
  <2>1. CASE UNCHANGED queueVars /\ UNCHANGED forsaken /\ Goto(t, "use")
             /\ (held' = held \/ held' = [held EXCEPT ![t] = {TRUE}])
    <3>1. held' \in [Thread -> SUBSET Link]
        BY <2>1
    <3> QED BY <1>3, <1>w, <1>n, <2>1, <3>1 DEF Ping
  <2>2. CASE GiveUp(t) /\ UNCHANGED stored /\ forsaken' = forsaken + 1
             /\ held' = [held EXCEPT ![t] = {}]
    <3>1. held' \in [Thread -> SUBSET Link]
        BY <2>2
    <3>2. forsaken' \in Nat
        BY <2>2
    <3> QED BY <1>3, <1>w, <1>n, <2>2, <2>g, <3>1, <3>2 DEF Ping
  <2> QED BY <1>3, <1>w, <1>n, <2>1, <2>2 DEF Ping
<1>4. CASE InsertBatch
  <2>r. held' \in [Thread -> SUBSET Link] /\ pool' \in Seq(Link)
      BY <1>4, <1>w, <1>n DEF InsertBatch, Release
  <2>g. ASSUME GiveUp(Writer) PROVE
          /\ queue' = queue /\ batch' \in Seq(Message) /\ failed' \subseteq Message
          /\ place' \in [Thread -> {"idle", "borrow", "ping", "use", "done"}]
          /\ UNCHANGED <<stop, made, dropped>>
    <3>1. place' = [place EXCEPT ![Writer] = "idle"]
        BY <2>g DEF GiveUp
    <3> QED BY <2>g, <3>1, <1>w, GiveUpTypes
  <2>1. CASE GiveUp(Writer) /\ UNCHANGED stored
      BY <1>4, <1>w, <1>n, <2>1, <2>g, <2>r DEF InsertBatch
  <2>2. CASE /\ stored' = stored \o batch /\ batch' = <<>> /\ Goto(Writer, "idle")
             /\ UNCHANGED <<queue, failed, stop, made, dropped>>
    <3>1. stored' \in Seq(Message) /\ batch' \in Seq(Message)
        BY <2>2, ConcatProperties
    <3> QED BY <1>4, <1>w, <1>n, <2>2, <3>1, <2>r DEF InsertBatch
  <2> QED BY <1>4, <1>w, <1>n, <2>1, <2>2 DEF InsertBatch
<1>5. ASSUME NEW w \in Workers, EnqueueMessage(w) PROVE TypeOK'
  <2>1. made + 1 \in Message /\ made' \in 0..MaxMessages
      BY <1>5, <1>w, <1>n DEF EnqueueMessage, Message
  <2>2. queue' \in Seq(Message) /\ dropped' \subseteq Message
    <3>1. CASE QueueFull
        BY <1>5, <1>w, <1>n, <2>1, <3>1 DEF EnqueueMessage
    <3>2. CASE ~QueueFull
      <4>1. queue' = Append(queue, made + 1) /\ dropped' = dropped
          BY <1>5, <1>w, <1>n, <3>2 DEF EnqueueMessage
      <4>2. queue \in Seq(Message) /\ dropped \subseteq Message
          OBVIOUS
      <4> HIDE DEF TypeOK, WriterInv
      <4> QED BY <2>1, <4>1, <4>2
    <3> QED BY <3>1, <3>2
  <2> QED BY <1>5, <1>w, <1>n, <2>1, <2>2 DEF EnqueueMessage
<1>6. ASSUME NEW w \in Workers, Query(w) PROVE TypeOK'
    BY <1>6, <1>w, <1>n DEF Query
<1>7. ASSUME NEW w \in Workers, RunQuery(w) PROVE TypeOK'
  <2>r. held' \in [Thread -> SUBSET Link] /\ pool' \in Seq(Link)
      BY <1>7, <1>w, <1>n DEF RunQuery, Release
  <2> QED BY <1>7, <1>w, <1>n, <2>r DEF RunQuery
<1>8. CASE MysqlDown
  <2>1. pool' \in Seq(Link)
      BY <1>8, <1>w, <1>n, Filled DEF MysqlDown
  <2>2. held' \in [Thread -> SUBSET Link]
      BY <1>8, <1>w, <1>n DEF MysqlDown
  <2>3. outages' \in 0..MaxOutages
      BY <1>8, <1>w, <1>n DEF MysqlDown
  <2> QED BY <1>8, <1>w, <1>n, <2>1, <2>2, <2>3 DEF MysqlDown
<1>9. CASE MysqlBack
    BY <1>9, <1>w, <1>n DEF MysqlBack
<1>10. CASE HeartWake
  <2>1. age' \in 0..LeaseBeats
      BY <1>10, <1>w, <1>n DEF HeartWake
  <2> QED BY <1>10, <1>w, <1>n, <2>1 DEF HeartWake
<1>11. CASE HeartBorrow
  <2>1. redisPool # <<>> => Head(redisPool) \in BOOLEAN /\ Tail(redisPool) \in Seq(BOOLEAN)
      OBVIOUS
  <2>2. redisHeld' \subseteq Link /\ redisPool' \in Seq(Link)
      BY <1>11, <1>w, <1>n, <2>1 DEF HeartBorrow
  <2>3. heart' \in {"sleep", "borrow", "use", "done"}
      BY <1>11, <1>w, <1>n DEF HeartBorrow, HeartLoop
  <2> QED BY <1>11, <1>w, <1>n, <2>2, <2>3 DEF HeartBorrow
<1>12. CASE HeartRegister
  <2>1. redisPool' \in Seq(Link)
      BY <1>12, <1>w, <1>n DEF HeartRegister
  <2>2. age' \in 0..LeaseBeats
      BY <1>12, <1>w, <1>n DEF HeartRegister
  <2>3. redisHeld' \subseteq Link /\ heart' \in {"sleep", "borrow", "use", "done"}
      BY <1>12, <1>w, <1>n DEF HeartRegister, HeartLoop
  <2> QED BY <1>12, <1>w, <1>n, <2>1, <2>2, <2>3 DEF HeartRegister
<1>13. CASE RedisRestart
  <2>1. redisPool' \in Seq(Link)
      BY <1>13, <1>w, <1>n, Filled DEF RedisRestart
  <2>2. restarts' \in 0..MaxRestarts
      BY <1>13, <1>w, <1>n DEF RedisRestart
  <2>3. redisHeld' \subseteq Link
      BY <1>13, <1>w, <1>n DEF RedisRestart
  <2> QED BY <1>13, <1>w, <1>n, <2>1, <2>2, <2>3 DEF RedisRestart
<1>14. CASE StopWriter
    BY <1>14, <1>w, <1>n DEF StopWriter
<1>15. CASE JoinWriter
    BY <1>15, <1>w, <1>n DEF JoinWriter
<1>16. CASE JoinHeart
  <2>1. pool' \in Seq(Link) /\ redisPool' \in Seq(Link)
      BY <1>16, <1>w, <1>n DEF JoinHeart
  <2> QED BY <1>16, <1>w, <1>n, <2>1 DEF JoinHeart
<1>17. CASE Closed
    BY <1>17, <1>w, <1>n DEF Closed, vars
<1>18. CASE UNCHANGED vars
    BY <1>18, <1>w, <1>n DEF vars
<1> QED
    BY <1>1, <1>2, <1>3, <1>4, <1>5, <1>6, <1>7, <1>8, <1>9, <1>10, <1>11,
       <1>12, <1>13, <1>14, <1>15, <1>16, <1>17, <1>18
    DEF Next, WriterStep, WorkerStep, HeartStep, Thread

\* Every step keeps what is held to those who hold it.
LEMMA HoldStep ==
  ASSUME WriterInv, [Next]_vars
  PROVE  HoldInv'
<1> USE DEF WriterInv, HoldInv, HeldOk, queueVars, poolVars, redisVars, Goto
<1>w. Writer \in Thread /\ Workers \subseteq Thread /\ Writer \notin Workers
    BY WriterAssumption DEF Thread
<1>t. place \in [Thread -> {"idle", "borrow", "ping", "use", "done"}]
          /\ held \in [Thread -> SUBSET Link]
    BY DEF TypeOK
<1>1. CASE WriterTake
    BY <1>1, <1>w, <1>t DEF WriterTake
<1>2. ASSUME NEW t \in Thread, GetConnection(t) PROVE HoldInv'
  <2>1. heart' = heart /\ redisHeld' = redisHeld
      BY <1>2, <1>w, <1>t DEF GetConnection
  <2>2. ASSUME NEW r \in Thread, r # t PROVE held'[r] = held[r] /\ place'[r] = place[r]
      BY <1>2, <1>w, <1>t, <2>2 DEF GetConnection, GiveUp
  <2>3. place'[t] \notin {"ping", "use"} => held'[t] = {}
      BY <1>2, <1>w, <1>t DEF GetConnection, GiveUp
  <2> QED BY <2>1, <2>2, <2>3
<1>3. ASSUME NEW t \in Thread, Ping(t) PROVE HoldInv'
  <2>1. heart' = heart /\ redisHeld' = redisHeld
      BY <1>3, <1>w, <1>t DEF Ping
  <2>2. ASSUME NEW r \in Thread, r # t PROVE held'[r] = held[r] /\ place'[r] = place[r]
      BY <1>3, <1>w, <1>t, <2>2 DEF Ping, GiveUp
  <2>3. place'[t] \notin {"ping", "use"} => held'[t] = {}
      BY <1>3, <1>w, <1>t DEF Ping, GiveUp
  <2> QED BY <2>1, <2>2, <2>3
<1>4. CASE InsertBatch
    BY <1>4, <1>w, <1>t DEF InsertBatch, GiveUp, BatchFailed, Release
<1>5. ASSUME NEW w \in Workers, EnqueueMessage(w) PROVE HoldInv'
    BY <1>5, <1>w, <1>t DEF EnqueueMessage
<1>6. ASSUME NEW w \in Workers, Query(w) PROVE HoldInv'
    BY <1>6, <1>w, <1>t DEF Query
<1>7. ASSUME NEW w \in Workers, RunQuery(w) PROVE HoldInv'
    BY <1>7, <1>w, <1>t DEF RunQuery, Release
<1>8. CASE MysqlDown
    BY <1>8, <1>w, <1>t DEF MysqlDown
<1>9. CASE MysqlBack
    BY <1>9, <1>w, <1>t DEF MysqlBack
<1>10. CASE HeartWake
    BY <1>10, <1>w, <1>t DEF HeartWake
<1>11. CASE HeartBorrow
    BY <1>11, <1>w, <1>t DEF HeartBorrow, HeartLoop
<1>12. CASE HeartRegister
    BY <1>12, <1>w, <1>t DEF HeartRegister, HeartLoop
<1>13. CASE RedisRestart
    BY <1>13, <1>w, <1>t DEF RedisRestart
<1>14. CASE StopWriter
    BY <1>14, <1>w, <1>t DEF StopWriter
<1>15. CASE JoinWriter
    BY <1>15, <1>w, <1>t DEF JoinWriter
<1>16. CASE JoinHeart
    BY <1>16, <1>w, <1>t DEF JoinHeart
<1>17. CASE Closed
    BY <1>17, <1>w, <1>t DEF Closed, vars
<1>18. CASE UNCHANGED vars
    BY <1>18, <1>w, <1>t DEF vars
<1> QED
    BY <1>1, <1>2, <1>3, <1>4, <1>5, <1>6, <1>7, <1>8, <1>9, <1>10, <1>11,
       <1>12, <1>13, <1>14, <1>15, <1>16, <1>17, <1>18
    DEF Next, WriterStep, WorkerStep, HeartStep, Thread

\* Every step keeps the order of ~ChatService().
LEMMA ExitStep ==
  ASSUME WriterInv, [Next]_vars
  PROVE  ExitInv'
<1> USE DEF WriterInv, ExitInv, HoldInv, queueVars, poolVars, redisVars, Goto
<1>w. Writer \in Thread /\ Workers \subseteq Thread /\ Writer \notin Workers
    BY WriterAssumption DEF Thread
<1>t. place \in [Thread -> {"idle", "borrow", "ping", "use", "done"}]
          /\ held \in [Thread -> SUBSET Link]
    BY DEF TypeOK
<1>1. CASE WriterTake
    BY <1>1, <1>w, <1>t DEF WriterTake
<1>2. ASSUME NEW t \in Thread, GetConnection(t) PROVE ExitInv'
  <2>1. UNCHANGED <<dtor, heart, stop>>
      BY <1>2, <1>w, <1>t DEF GetConnection, GiveUp
  <2>2. place[t] \notin {"idle", "done"}
      BY <1>2, <1>w, <1>t DEF GetConnection
  <2>3. ASSUME NEW r \in Thread, r # t PROVE place'[r] = place[r]
      BY <1>2, <1>w, <1>t, <2>3 DEF GetConnection, GiveUp
  <2>4. dtor # "serving" => t = Writer
      BY <1>2, <1>w, <1>t, <2>2 DEF Thread
  <2>5. dtor \notin {"joinHeart", "closed"} \/ t # Writer
      BY <2>2
  <2> QED BY <1>2, <1>w, <1>t, <2>1, <2>3, <2>4, <2>5
<1>3. ASSUME NEW t \in Thread, Ping(t) PROVE ExitInv'
  <2>1. UNCHANGED <<dtor, heart, stop>>
      BY <1>3, <1>w, <1>t DEF Ping, GiveUp
  <2>2. place[t] \notin {"idle", "done"}
      BY <1>3, <1>w, <1>t DEF Ping
  <2>3. ASSUME NEW r \in Thread, r # t PROVE place'[r] = place[r]
      BY <1>3, <1>w, <1>t, <2>3 DEF Ping, GiveUp
  <2>4. dtor # "serving" => t = Writer
      BY <1>3, <1>w, <1>t, <2>2 DEF Thread
  <2>5. dtor \notin {"joinHeart", "closed"} \/ t # Writer
      BY <2>2
  <2> QED BY <1>3, <1>w, <1>t, <2>1, <2>3, <2>4, <2>5
<1>4. CASE InsertBatch
    BY <1>4, <1>w, <1>t DEF InsertBatch, GiveUp, BatchFailed, Release
<1>5. ASSUME NEW w \in Workers, EnqueueMessage(w) PROVE ExitInv'
    BY <1>5, <1>w, <1>t DEF EnqueueMessage
<1>6. ASSUME NEW w \in Workers, Query(w) PROVE ExitInv'
    BY <1>6, <1>w, <1>t DEF Query
<1>7. ASSUME NEW w \in Workers, RunQuery(w) PROVE ExitInv'
    BY <1>7, <1>w, <1>t DEF RunQuery, Release
<1>8. CASE MysqlDown
    BY <1>8, <1>w, <1>t DEF MysqlDown
<1>9. CASE MysqlBack
    BY <1>9, <1>w, <1>t DEF MysqlBack
<1>10. CASE HeartWake
    BY <1>10, <1>w, <1>t DEF HeartWake
<1>11. CASE HeartBorrow
    BY <1>11, <1>w, <1>t DEF HeartBorrow, HeartLoop
<1>12. CASE HeartRegister
    BY <1>12, <1>w, <1>t DEF HeartRegister, HeartLoop
<1>13. CASE RedisRestart
    BY <1>13, <1>w, <1>t DEF RedisRestart
<1>14. CASE StopWriter
    BY <1>14, <1>w, <1>t DEF StopWriter
<1>15. CASE JoinWriter
    BY <1>15, <1>w, <1>t DEF JoinWriter
<1>16. CASE JoinHeart
    BY <1>16, <1>w, <1>t DEF JoinHeart
<1>17. CASE Closed
    BY <1>17, <1>w, <1>t DEF Closed, vars
<1>18. CASE UNCHANGED vars
    BY <1>18, <1>w, <1>t DEF vars
<1> QED
    BY <1>1, <1>2, <1>3, <1>4, <1>5, <1>6, <1>7, <1>8, <1>9, <1>10, <1>11,
       <1>12, <1>13, <1>14, <1>15, <1>16, <1>17, <1>18
    DEF Next, WriterStep, WorkerStep, HeartStep, Thread

\* Every step keeps the writer's batch to the time of its insertion.
LEMMA BatchStep ==
  ASSUME WriterInv, [Next]_vars
  PROVE  BatchInv'
<1> USE DEF WriterInv, BatchInv, ExitInv, queueVars, poolVars, redisVars, Goto
<1>w. Writer \in Thread /\ Workers \subseteq Thread /\ Writer \notin Workers
    BY WriterAssumption DEF Thread
<1>t. place \in [Thread -> {"idle", "borrow", "ping", "use", "done"}]
          /\ held \in [Thread -> SUBSET Link]
    BY DEF TypeOK
<1>q. Len(queue) \in Nat /\ Len(batch) \in Nat /\ MaxQueue \in Nat /\ MaxBatch \in Nat
          /\ Len(<<>>) = 0
    BY WriterAssumption DEF TypeOK
<1>1. CASE WriterTake
  <2>1. PICK rest : rest = SubSeq(queue, Len(Taken) + 1, Len(queue))
      OBVIOUS
  <2>2. /\ Taken \in Seq(Message) /\ rest \in Seq(Message) /\ Taken \o rest = queue
        /\ Len(Taken) <= MaxBatch /\ Len(rest) <= Len(queue)
      BY <2>1, TakenSplits
  <2>3. batch' = Taken /\ queue' = rest /\ stop' = stop
      BY <1>1, <1>w, <1>t, <1>q, <2>1 DEF WriterTake
  <2>4. Len(queue') <= MaxQueue /\ Len(batch') <= MaxBatch
      BY <2>2, <2>3, <1>q
  <2>5. CASE place'[Writer] = "borrow"
      BY <2>4, <2>5
  <2>6. CASE ShouldExit /\ Goto(Writer, "done")
    <3>1. Taken = <<>> /\ rest = <<>>
      <4>1. Taken \o rest = <<>>
          BY <2>2, <2>6 DEF ShouldExit
      <4> QED BY <4>1, <2>2, ConcatEqualIffEmpty
    <3> QED BY <2>3, <2>4, <2>6, <3>1 DEF ShouldExit
  <2> QED BY <1>1, <1>w, <1>t, <1>q, <2>5, <2>6 DEF WriterTake
<1>2. ASSUME NEW t \in Thread, GetConnection(t) PROVE BatchInv'
  <2>1. place[t] \notin {"idle", "done"}
      BY <1>2, <1>w, <1>t, <1>q DEF GetConnection
  <2>2. UNCHANGED queue /\ UNCHANGED stop
      BY <1>2, <1>w, <1>t, <1>q DEF GetConnection, GiveUp, BatchFailed
  <2>3. CASE t = Writer
    <3>1. \/ batch' = batch /\ place'[Writer] \notin {"idle", "done"}
          \/ batch' = <<>> /\ place'[Writer] = "idle"
        BY <1>2, <1>w, <1>t, <1>q, <2>3 DEF GetConnection, GiveUp
    <3> QED BY <2>2, <3>1, <1>q
  <2>4. CASE t # Writer
    <3>1. batch' = batch /\ place'[Writer] = place[Writer]
        BY <1>2, <1>w, <1>t, <1>q, <2>4 DEF GetConnection, GiveUp
    <3> QED BY <2>2, <3>1
  <2> QED BY <2>3, <2>4
<1>3. ASSUME NEW t \in Thread, Ping(t) PROVE BatchInv'
  <2>1. place[t] \notin {"idle", "done"}
      BY <1>3, <1>w, <1>t, <1>q DEF Ping
  <2>2. UNCHANGED queue /\ UNCHANGED stop
      BY <1>3, <1>w, <1>t, <1>q DEF Ping, GiveUp, BatchFailed
  <2>3. CASE t = Writer
    <3>1. \/ batch' = batch /\ place'[Writer] \notin {"idle", "done"}
          \/ batch' = <<>> /\ place'[Writer] = "idle"
        BY <1>3, <1>w, <1>t, <1>q, <2>3 DEF Ping, GiveUp
    <3> QED BY <2>2, <3>1, <1>q
  <2>4. CASE t # Writer
    <3>1. batch' = batch /\ place'[Writer] = place[Writer]
        BY <1>3, <1>w, <1>t, <1>q, <2>4 DEF Ping, GiveUp
    <3> QED BY <2>2, <3>1
  <2> QED BY <2>3, <2>4
<1>4. CASE InsertBatch
  <2>1. UNCHANGED queue /\ UNCHANGED stop /\ batch' = <<>> /\ place'[Writer] = "idle"
      BY <1>4, <1>w, <1>t, <1>q DEF InsertBatch, GiveUp, BatchFailed
  <2> QED BY <2>1, <1>q
<1>5. ASSUME NEW w \in Workers, EnqueueMessage(w) PROVE BatchInv'
  <2>1. UNCHANGED <<batch, place, stop>> /\ ~stop
      BY <1>5, <1>w, <1>t, <1>q DEF EnqueueMessage
  <2>2. CASE QueueFull
      BY <1>5, <1>w, <1>t, <1>q, <2>1, <2>2 DEF EnqueueMessage
  <2>3. CASE ~QueueFull
    <3>1. queue' = Append(queue, made + 1)
        BY <1>5, <1>w, <1>t, <1>q, <2>3 DEF EnqueueMessage
    <3>2. Len(queue') = Len(queue) + 1
        BY <3>1 DEF TypeOK
    <3>3. Len(queue') <= MaxQueue
        BY <3>2, <2>3, <1>q DEF QueueFull
    <3> QED BY <2>1, <3>3
  <2> QED BY <2>2, <2>3
<1>6. ASSUME NEW w \in Workers, Query(w) PROVE BatchInv'
    BY <1>6, <1>w, <1>t, <1>q DEF Query
<1>7. ASSUME NEW w \in Workers, RunQuery(w) PROVE BatchInv'
    BY <1>7, <1>w, <1>t, <1>q DEF RunQuery, Release
<1>8. CASE MysqlDown
    BY <1>8, <1>w, <1>t, <1>q DEF MysqlDown
<1>9. CASE MysqlBack
    BY <1>9, <1>w, <1>t, <1>q DEF MysqlBack
<1>10. CASE HeartWake
    BY <1>10, <1>w, <1>t, <1>q DEF HeartWake
<1>11. CASE HeartBorrow
    BY <1>11, <1>w, <1>t, <1>q DEF HeartBorrow, HeartLoop
<1>12. CASE HeartRegister
    BY <1>12, <1>w, <1>t, <1>q DEF HeartRegister, HeartLoop
<1>13. CASE RedisRestart
    BY <1>13, <1>w, <1>t, <1>q DEF RedisRestart
<1>14. CASE StopWriter
    BY <1>14, <1>w, <1>t, <1>q DEF StopWriter
<1>15. CASE JoinWriter
    BY <1>15, <1>w, <1>t, <1>q DEF JoinWriter
<1>16. CASE JoinHeart
    BY <1>16, <1>w, <1>t, <1>q DEF JoinHeart
<1>17. CASE Closed
    BY <1>17, <1>w, <1>t, <1>q DEF Closed, vars
<1>18. CASE UNCHANGED vars
    BY <1>18, <1>w, <1>t, <1>q DEF vars
<1> QED
    BY <1>1, <1>2, <1>3, <1>4, <1>5, <1>6, <1>7, <1>8, <1>9, <1>10, <1>11,
       <1>12, <1>13, <1>14, <1>15, <1>16, <1>17, <1>18
    DEF Next, WriterStep, WorkerStep, HeartStep, Thread

\* Every step keeps the connections whole until the first outage.
LEMMA SoundStep ==
  ASSUME WriterInv, [Next]_vars
  PROVE  SoundInv'
<1> USE DEF WriterInv, SoundInv, queueVars, poolVars, redisVars, Goto
<1>w. Writer \in Thread /\ Workers \subseteq Thread /\ Writer \notin Workers
    BY WriterAssumption DEF Thread
<1>t. place \in [Thread -> {"idle", "borrow", "ping", "use", "done"}]
          /\ held \in [Thread -> SUBSET Link]
    BY DEF TypeOK
<1>p. pool \in Seq(BOOLEAN) /\ Len(pool) \in Nat /\ outages \in Nat
    BY DEF TypeOK, Link
<1>1. CASE WriterTake
    BY <1>1, <1>w, <1>t, <1>p DEF WriterTake
<1>2. ASSUME NEW t \in Thread, GetConnection(t) PROVE SoundInv'
  <2>1. UNCHANGED <<outages, forsaken>>
      BY <1>2, <1>w, <1>t, <1>p DEF GetConnection
  <2>2. CASE pool # <<>> /\ held' = [held EXCEPT ![t] = {Head(pool)}] /\ pool' = Tail(pool)
    <3>1. Head(pool) = pool[1] /\ 1 \in 1..Len(pool)
        BY <2>2, <1>p
    <3>2. \A i \in 1..Len(pool') : i + 1 \in 1..Len(pool) /\ pool'[i] = pool[i + 1]
        BY <2>2, <1>p
    <3>3. outages = 0 => \A r \in Thread : FALSE \notin held'[r]
        BY <2>2, <3>1, <1>t
    <3>4. outages = 0 => \A i \in 1..Len(pool') : pool'[i] = TRUE
        BY <3>2
    <3> QED BY <2>1, <3>3, <3>4
  <2>3. CASE UNCHANGED <<pool, held>>
      BY <2>1, <2>3
  <2> QED BY <1>2, <1>w, <1>t, <1>p, <2>2, <2>3 DEF GetConnection
<1>3. ASSUME NEW t \in Thread, Ping(t) PROVE SoundInv'
  <2>1. UNCHANGED <<outages, pool>>
      BY <1>3, <1>w, <1>t, <1>p DEF Ping
  <2>2. CASE outages = 0
    <3>1. forsaken' = forsaken /\ (held' = held \/ held' = [held EXCEPT ![t] = {TRUE}])
        BY <1>3, <1>w, <1>t, <1>p, <2>2 DEF Ping
    <3>2. \A r \in Thread : FALSE \notin held'[r]
        BY <3>1, <2>2, <1>t
    <3> QED BY <2>1, <3>1, <3>2
  <2>3. CASE outages # 0
      BY <2>1, <2>3
  <2> QED BY <2>2, <2>3
<1>4. CASE InsertBatch
  <2>1. UNCHANGED <<outages, forsaken>>
      BY <1>4, <1>w, <1>t, <1>p DEF InsertBatch
  <2>2. PICK c \in held[Writer] : pool' = Append(pool, c)
      BY <1>4, <1>w, <1>t, <1>p DEF InsertBatch, Release
  <2>3. held' = [held EXCEPT ![Writer] = {}]
      BY <1>4, <1>w, <1>t, <1>p DEF InsertBatch, Release
  <2>4. \A r \in Thread : held'[r] \subseteq held[r]
      BY <2>3, <1>t
  <2>5. c \in BOOLEAN /\ Writer \in Thread
      BY <1>t, <1>w DEF Link
  <2>6. \A i \in 1..Len(pool') : (i \in 1..Len(pool) /\ pool'[i] = pool[i]) \/ pool'[i] = c
      BY <2>2, <2>5, <1>p
  <2>7. outages = 0 => c = TRUE
      BY <2>5
  <2> QED BY <2>1, <2>4, <2>6, <2>7
<1>5. ASSUME NEW w \in Workers, EnqueueMessage(w) PROVE SoundInv'
    BY <1>5, <1>w, <1>t, <1>p DEF EnqueueMessage
<1>6. ASSUME NEW w \in Workers, Query(w) PROVE SoundInv'
    BY <1>6, <1>w, <1>t, <1>p DEF Query
<1>7. ASSUME NEW w \in Workers, RunQuery(w) PROVE SoundInv'
  <2>1. UNCHANGED <<outages, forsaken>>
      BY <1>7, <1>w, <1>t, <1>p DEF RunQuery
  <2>2. PICK c \in held[w] : pool' = Append(pool, c)
      BY <1>7, <1>w, <1>t, <1>p DEF RunQuery, Release
  <2>3. held' = [held EXCEPT ![w] = {}]
      BY <1>7, <1>w, <1>t, <1>p DEF RunQuery, Release
  <2>4. \A r \in Thread : held'[r] \subseteq held[r]
      BY <2>3, <1>t
  <2>5. c \in BOOLEAN /\ w \in Thread
      BY <1>t, <1>w DEF Link
  <2>6. \A i \in 1..Len(pool') : (i \in 1..Len(pool) /\ pool'[i] = pool[i]) \/ pool'[i] = c
      BY <2>2, <2>5, <1>p
  <2>7. outages = 0 => c = TRUE
      BY <2>5
  <2> QED BY <2>1, <2>4, <2>6, <2>7
<1>8. CASE MysqlDown
  <2>1. outages' # 0
      BY <1>8, <1>w, <1>t, <1>p DEF MysqlDown
  <2> QED BY <2>1
<1>9. CASE MysqlBack
    BY <1>9, <1>w, <1>t, <1>p DEF MysqlBack
<1>10. CASE HeartWake
    BY <1>10, <1>w, <1>t, <1>p DEF HeartWake
<1>11. CASE HeartBorrow
    BY <1>11, <1>w, <1>t, <1>p DEF HeartBorrow, HeartLoop
<1>12. CASE HeartRegister
    BY <1>12, <1>w, <1>t, <1>p DEF HeartRegister, HeartLoop
<1>13. CASE RedisRestart
    BY <1>13, <1>w, <1>t, <1>p DEF RedisRestart
<1>14. CASE StopWriter
    BY <1>14, <1>w, <1>t, <1>p DEF StopWriter
<1>15. CASE JoinWriter
    BY <1>15, <1>w, <1>t, <1>p DEF JoinWriter
<1>16. CASE JoinHeart
  <2>1. pool' = <<>> /\ UNCHANGED <<outages, forsaken, held>>
      BY <1>16, <1>w, <1>t, <1>p DEF JoinHeart
  <2>2. 1..Len(pool') = {}
      BY <2>1
  <2> QED BY <2>1, <2>2
<1>17. CASE Closed
    BY <1>17, <1>w, <1>t, <1>p DEF Closed, vars
<1>18. CASE UNCHANGED vars
    BY <1>18, <1>w, <1>t, <1>p DEF vars
<1> QED
    BY <1>1, <1>2, <1>3, <1>4, <1>5, <1>6, <1>7, <1>8, <1>9, <1>10, <1>11,
       <1>12, <1>13, <1>14, <1>15, <1>16, <1>17, <1>18
    DEF Next, WriterStep, WorkerStep, HeartStep, Thread

-----------------------------------------------------------------------------
(* The connections *)

\* Threads are finitely many, and so are those with a connection.
LEMMA OutFinite == IsFiniteSet(Out) /\ Cardinality(Out) \in Nat
<1>1. IsFiniteSet(Thread)
    BY WriterAssumption, FS_AddElement DEF Thread
<1>2. Out \in SUBSET Thread
    BY DEF Out
<1> QED BY <1>1, <1>2, FS_Subset, FS_CardinalityType

\* A thread without a connection gets one.
LEMMA OutAdded ==
  ASSUME TypeOK, NEW t \in Thread, NEW c, held[t] = {}, held' = [held EXCEPT ![t] = {c}]
  PROVE  Cardinality(Out') = Cardinality(Out) + 1
<1>1. held \in [Thread -> SUBSET Link]
    BY DEF TypeOK
<1>2. Out' = Out \cup {t} /\ t \notin Out
    BY <1>1 DEF Out
<1> QED BY <1>2, OutFinite, FS_AddElement

\* A thread with a connection gives it up.
LEMMA OutDropped ==
  ASSUME TypeOK, NEW t \in Thread, held[t] # {}, held' = [held EXCEPT ![t] = {}]
  PROVE  Cardinality(Out') = Cardinality(Out) - 1
<1>1. held \in [Thread -> SUBSET Link]
    BY DEF TypeOK
<1>2. Out' = Out \ {t} /\ t \in Out
    BY <1>1 DEF Out
<1> QED BY <1>2, OutFinite, FS_RemoveElement

\* Every step keeps the number of connections.
LEMMA CountStep ==
  ASSUME WriterInv, [Next]_vars
  PROVE  CountInv'
<1> USE DEF WriterInv, CountInv, HoldInv, HeldOk, queueVars, poolVars, redisVars, Goto
<1>w. Writer \in Thread /\ Workers \subseteq Thread /\ Writer \notin Workers
    BY WriterAssumption DEF Thread
<1>t. place \in [Thread -> {"idle", "borrow", "ping", "use", "done"}]
          /\ held \in [Thread -> SUBSET Link]
    BY DEF TypeOK
<1>p. pool \in Seq(BOOLEAN) /\ Len(pool) \in Nat /\ outages \in Nat
    BY DEF TypeOK, Link
<1>c. Cardinality(Out) \in Nat
    BY OutFinite
<1>f. forsaken \in Nat /\ opened \in Nat /\ dtor \in {"serving", "joinWriter", "joinHeart",
          "closed"}
    BY DEF TypeOK
<1>1. CASE WriterTake
  <2>1. UNCHANGED <<pool, held, forsaken, opened>> /\ (dtor' # "closed" => dtor # "closed")
      BY <1>1, <1>w, <1>t, <1>p, <1>c, <1>f DEF WriterTake
  <2>2. Out' = Out
      BY <2>1 DEF Out
  <2> QED BY <2>1, <2>2
<1>2. ASSUME NEW t \in Thread, GetConnection(t) PROVE CountInv'
  <2>1. UNCHANGED <<forsaken, opened, dtor>> /\ held[t] = {}
      BY <1>2, <1>w, <1>t, <1>p, <1>c, <1>f DEF GetConnection
  <2>2. CASE pool # <<>> /\ held' = [held EXCEPT ![t] = {Head(pool)}] /\ pool' = Tail(pool)
    <3>1. Len(pool') = Len(pool) - 1
        BY <2>2, <1>p
    <3>2. Cardinality(Out') = Cardinality(Out) + 1
        BY <2>1, <2>2, OutAdded
    <3> QED BY <2>1, <3>1, <3>2, <1>p, <1>c, <1>f
  <2>3. CASE UNCHANGED <<pool, held>>
    <3>1. Out' = Out
        BY <2>3 DEF Out
    <3> QED BY <2>1, <2>3, <3>1
  <2> QED BY <1>2, <1>w, <1>t, <1>p, <1>c, <1>f, <2>2, <2>3 DEF GetConnection
<1>3. ASSUME NEW t \in Thread, Ping(t) PROVE CountInv'
  <2>1. UNCHANGED <<pool, opened, dtor>> /\ held[t] # {}
      BY <1>3, <1>w, <1>t, <1>p, <1>c, <1>f DEF Ping
  <2>2. CASE UNCHANGED forsaken /\ (held' = held \/ held' = [held EXCEPT ![t] = {TRUE}])
    <3>1. Out' = Out
        BY <2>1, <2>2, <1>t DEF Out
    <3> QED BY <2>1, <2>2, <3>1
  <2>3. CASE forsaken' = forsaken + 1 /\ held' = [held EXCEPT ![t] = {}]
    <3>1. Cardinality(Out') = Cardinality(Out) - 1
        BY <2>1, <2>3, OutDropped
    <3> QED BY <2>1, <2>3, <3>1, <1>p, <1>c, <1>f
  <2> QED BY <1>3, <1>w, <1>t, <1>p, <1>c, <1>f, <2>2, <2>3 DEF Ping
<1>4. CASE InsertBatch
  <2>1. UNCHANGED <<forsaken, opened, dtor>> /\ Writer \in Thread
      BY <1>4, <1>w, <1>t, <1>p, <1>c, <1>f DEF InsertBatch
  <2>2. PICK c \in held[Writer] : pool' = Append(pool, c)
      BY <1>4, <1>w, <1>t, <1>p, <1>c, <1>f DEF InsertBatch, Release
  <2>3. held' = [held EXCEPT ![Writer] = {}] /\ held[Writer] # {}
      BY <1>4, <1>w, <1>t, <1>p, <1>c, <1>f, <2>2 DEF InsertBatch, Release
  <2>4. c \in BOOLEAN
      BY <2>1, <1>t DEF Link
  <2>5. Len(pool') = Len(pool) + 1
      BY <2>2, <2>4, <1>p
  <2>6. Cardinality(Out') = Cardinality(Out) - 1
      BY <2>1, <2>3, OutDropped
  <2> QED BY <2>1, <2>5, <2>6, <1>p, <1>c, <1>f
<1>5. ASSUME NEW w \in Workers, EnqueueMessage(w) PROVE CountInv'
  <2>1. UNCHANGED <<pool, held, forsaken, opened>> /\ (dtor' # "closed" => dtor # "closed")
      BY <1>5, <1>w, <1>t, <1>p, <1>c, <1>f DEF EnqueueMessage
  <2>2. Out' = Out
      BY <2>1 DEF Out
  <2> QED BY <2>1, <2>2
<1>6. ASSUME NEW w \in Workers, Query(w) PROVE CountInv'
  <2>1. UNCHANGED <<pool, held, forsaken, opened>> /\ (dtor' # "closed" => dtor # "closed")
      BY <1>6, <1>w, <1>t, <1>p, <1>c, <1>f DEF Query
  <2>2. Out' = Out
      BY <2>1 DEF Out
  <2> QED BY <2>1, <2>2
<1>7. ASSUME NEW w \in Workers, RunQuery(w) PROVE CountInv'
  <2>1. UNCHANGED <<forsaken, opened, dtor>> /\ w \in Thread
      BY <1>7, <1>w, <1>t, <1>p, <1>c, <1>f DEF RunQuery
  <2>2. PICK c \in held[w] : pool' = Append(pool, c)
      BY <1>7, <1>w, <1>t, <1>p, <1>c, <1>f DEF RunQuery, Release
  <2>3. held' = [held EXCEPT ![w] = {}] /\ held[w] # {}
      BY <1>7, <1>w, <1>t, <1>p, <1>c, <1>f, <2>2 DEF RunQuery, Release
  <2>4. c \in BOOLEAN
      BY <2>1, <1>t DEF Link
  <2>5. Len(pool') = Len(pool) + 1
      BY <2>2, <2>4, <1>p
  <2>6. Cardinality(Out') = Cardinality(Out) - 1
      BY <2>1, <2>3, OutDropped
  <2> QED BY <2>1, <2>5, <2>6, <1>p, <1>c, <1>f
<1>8. CASE MysqlDown
  <2>1. UNCHANGED <<forsaken, opened, dtor>>
      BY <1>8, <1>w, <1>t, <1>p, <1>c, <1>f DEF MysqlDown
  <2>2. Len(pool') = Len(pool)
      BY <1>8, <1>w, <1>t, <1>p, <1>c, <1>f, Filled DEF MysqlDown
  <2>3. Out' = Out
      BY <1>8, <1>w, <1>t, <1>p, <1>c, <1>f DEF MysqlDown, Out
  <2> QED BY <2>1, <2>2, <2>3
<1>9. CASE MysqlBack
  <2>1. UNCHANGED <<pool, held, forsaken, opened>> /\ (dtor' # "closed" => dtor # "closed")
      BY <1>9, <1>w, <1>t, <1>p, <1>c, <1>f DEF MysqlBack
  <2>2. Out' = Out
      BY <2>1 DEF Out
  <2> QED BY <2>1, <2>2
<1>10. CASE HeartWake
  <2>1. UNCHANGED <<pool, held, forsaken, opened>> /\ (dtor' # "closed" => dtor # "closed")
      BY <1>10, <1>w, <1>t, <1>p, <1>c, <1>f DEF HeartWake
  <2>2. Out' = Out
      BY <2>1 DEF Out
  <2> QED BY <2>1, <2>2
<1>11. CASE HeartBorrow
  <2>1. UNCHANGED <<pool, held, forsaken, opened>> /\ (dtor' # "closed" => dtor # "closed")
      BY <1>11, <1>w, <1>t, <1>p, <1>c, <1>f DEF HeartBorrow
  <2>2. Out' = Out
      BY <2>1 DEF Out
  <2> QED BY <2>1, <2>2
<1>12. CASE HeartRegister
  <2>1. UNCHANGED <<pool, held, forsaken, opened>> /\ (dtor' # "closed" => dtor # "closed")
      BY <1>12, <1>w, <1>t, <1>p, <1>c, <1>f DEF HeartRegister
  <2>2. Out' = Out
      BY <2>1 DEF Out
  <2> QED BY <2>1, <2>2
<1>13. CASE RedisRestart
  <2>1. UNCHANGED <<pool, held, forsaken, opened>> /\ (dtor' # "closed" => dtor # "closed")
      BY <1>13, <1>w, <1>t, <1>p, <1>c, <1>f DEF RedisRestart
  <2>2. Out' = Out
      BY <2>1 DEF Out
  <2> QED BY <2>1, <2>2
<1>14. CASE StopWriter
  <2>1. UNCHANGED <<pool, held, forsaken, opened>> /\ (dtor' # "closed" => dtor # "closed")
      BY <1>14, <1>w, <1>t, <1>p, <1>c, <1>f DEF StopWriter
  <2>2. Out' = Out
      BY <2>1 DEF Out
  <2> QED BY <2>1, <2>2
<1>15. CASE JoinWriter
  <2>1. UNCHANGED <<pool, held, forsaken, opened>> /\ (dtor' # "closed" => dtor # "closed")
      BY <1>15, <1>w, <1>t, <1>p, <1>c, <1>f DEF JoinWriter
  <2>2. Out' = Out
      BY <2>1 DEF Out
  <2> QED BY <2>1, <2>2
<1>16. CASE JoinHeart
    BY <1>16, <1>w, <1>t, <1>p, <1>c, <1>f DEF JoinHeart
<1>17. CASE Closed
  <2>1. UNCHANGED <<pool, held, forsaken, opened>> /\ (dtor' # "closed" => dtor # "closed")
      BY <1>17, <1>w, <1>t, <1>p, <1>c, <1>f DEF Closed, vars
  <2>2. Out' = Out
      BY <2>1 DEF Out
  <2> QED BY <2>1, <2>2
<1>18. CASE UNCHANGED vars
  <2>1. UNCHANGED <<pool, held, forsaken, opened>> /\ (dtor' # "closed" => dtor # "closed")
      BY <1>18, <1>w, <1>t, <1>p, <1>c, <1>f DEF vars
  <2>2. Out' = Out
      BY <2>1 DEF Out
  <2> QED BY <2>1, <2>2
<1> QED
    BY <1>1, <1>2, <1>3, <1>4, <1>5, <1>6, <1>7, <1>8, <1>9, <1>10, <1>11,
       <1>12, <1>13, <1>14, <1>15, <1>16, <1>17, <1>18
    DEF Next, WriterStep, WorkerStep, HeartStep, Thread

-----------------------------------------------------------------------------
(* The messages *)

\* The messages of a batch that failed leave the line, which still ascends.
LEMMA MiddleLost ==
  ASSUME NEW s \in Seq(Nat), NEW b \in Seq(Nat), NEW q \in Seq(Nat), Ascending((s \o b) \o q)
  PROVE  /\ Ascending((s \o <<>>) \o q)
         /\ SetOf((s \o b) \o q) = SetOf((s \o <<>>) \o q) \cup SetOf(b)
         /\ SetOf((s \o <<>>) \o q) \cap SetOf(b) = {}
<1>1. s \o b \in Seq(Nat) /\ s \o <<>> = s
    BY ConcatProperties, ConcatEmptySeq
<1>2. /\ SetOf((s \o b) \o q) = SetOf(s \o b) \cup SetOf(q)
      /\ SetOf(s \o b) = SetOf(s) \cup SetOf(b) /\ SetOf(s \o q) = SetOf(s) \cup SetOf(q)
  <2>1. SetOf((s \o b) \o q) = SetOf(s \o b) \cup SetOf(q)
    <3>1. PICK r \in Seq(Nat) : r = s \o b
        BY <1>1
    <3>2. SetOf(r \o q) = SetOf(r) \cup SetOf(q)
        BY ConcatSet
    <3> QED BY <3>1, <3>2
  <2>2. SetOf(s \o b) = SetOf(s) \cup SetOf(b)
      BY ConcatSet
  <2>3. SetOf(s \o q) = SetOf(s) \cup SetOf(q)
      BY ConcatSet
  <2> QED BY <2>1, <2>2, <2>3
<1>3. /\ Ascending(s \o b) /\ Ascending(q)
      /\ \A x \in SetOf(s \o b), y \in SetOf(q) : x < y
    BY <1>1, ConcatAscends
<1>4. Ascending(s) /\ \A x \in SetOf(s), y \in SetOf(b) : x < y
    BY <1>3, ConcatAscends
<1>5. Ascending(s \o q)
  <2>1. \A x \in SetOf(s), y \in SetOf(q) : x < y
      BY <1>2, <1>3
  <2> QED BY <2>1, <1>3, <1>4, ConcatAscends
<1>6. SetOf(s) \subseteq Nat /\ SetOf(b) \subseteq Nat /\ SetOf(q) \subseteq Nat
    BY DEF SetOf
<1>7. SetOf(s \o q) \cap SetOf(b) = {}
  <2>1. ASSUME NEW x \in SetOf(s), x \in SetOf(b) PROVE FALSE
    <3>1. x < x /\ x \in Nat
        BY <2>1, <1>4, <1>6
    <3> QED BY <3>1
  <2>2. ASSUME NEW x \in SetOf(q), x \in SetOf(b) PROVE FALSE
    <3>1. x < x /\ x \in Nat
        BY <2>2, <1>2, <1>3, <1>6
    <3> QED BY <3>1
  <2> QED BY <2>1, <2>2, <1>2
<1> QED BY <1>1, <1>2, <1>5, <1>7

\* What the parts of the line are made of.
LEMMA LineTypes ==
  ASSUME TypeOK
  PROVE  /\ stored \in Seq(Nat) /\ batch \in Seq(Nat) /\ queue \in Seq(Nat)
         /\ stored \o batch \in Seq(Nat) /\ Line \in Seq(Nat)
<1>1. Message \subseteq Nat
    BY WriterAssumption DEF Message
<1>2. stored \in Seq(Nat) /\ batch \in Seq(Nat) /\ queue \in Seq(Nat)
    BY <1>1, SeqMonotonic DEF TypeOK
<1> QED BY <1>2, ConcatProperties DEF Line

\* Giving up, the writer's batch moves from the line to the failed messages.
LEMMA MessagesGivenUp ==
  ASSUME TypeOK, MessageInv, NEW t, GiveUp(t), stored' = stored
  PROVE  MessageInv'
<1>1. UNCHANGED <<made, dropped>>
    BY DEF GiveUp
<1>2. CASE t = Writer
  <2>1. /\ failed' = failed \cup SetOf(batch) /\ queue' = queue /\ batch' = <<>>
      BY <1>2 DEF GiveUp, BatchFailed, SetOf
  <2>2. Line' = (stored \o <<>>) \o queue
      BY <2>1 DEF Line
  <2>3. /\ Ascending(Line') /\ SetOf(Line) = SetOf(Line') \cup SetOf(batch)
        /\ SetOf(Line') \cap SetOf(batch) = {}
    <3>1. Ascending((stored \o batch) \o queue)
        BY DEF MessageInv, Line
    <3> QED BY <3>1, <2>2, LineTypes, MiddleLost DEF Line
  <2>4. SetOf(Line') \cup failed' \cup dropped' = 1..made'
      BY <1>1, <2>1, <2>3 DEF MessageInv
  <2>5. SetOf(Line') \cap failed' = {} /\ SetOf(Line') \cap dropped' = {}
      BY <1>1, <2>1, <2>3 DEF MessageInv
  <2>6. failed' \cap dropped' = {}
      BY <1>1, <2>1, <2>3 DEF MessageInv
  <2>7. Ascending(Line)' /\ SetOf(Line)' = SetOf(Line')
      BY <2>3 DEF Ascending, SetOf
  <2> QED BY <2>4, <2>5, <2>6, <2>7 DEF MessageInv
<1>3. CASE t # Writer
  <2>1. UNCHANGED <<queue, batch, failed>>
      BY <1>3 DEF GiveUp
  <2> QED BY <1>1, <2>1 DEF MessageInv, Line, Ascending, SetOf
<1> QED BY <1>2, <1>3

\* Concatenating three sequences of messages.
LEMMA Associative ==
  ASSUME NEW s \in Seq(Nat), NEW t \in Seq(Nat), NEW u \in Seq(Nat)
  PROVE  (s \o t) \o u = s \o (t \o u)
BY ConcatAssociative

\* Nothing moves but inside the line.
LEMMA LineKept ==
  ASSUME MessageInv, Line' = Line, UNCHANGED <<failed, dropped, made>>
  PROVE  MessageInv'
<1>1. Ascending(Line)' <=> Ascending(Line)
    BY DEF Ascending
<1>2. SetOf(Line)' = SetOf(Line)
    BY DEF SetOf
<1> QED BY <1>1, <1>2 DEF MessageInv

\* Every step keeps each message in one place.
LEMMA MessageStep ==
  ASSUME WriterInv, [Next]_vars
  PROVE  MessageInv'
<1> USE DEF WriterInv, queueVars, poolVars, redisVars, Goto
<1>m. made \in Nat
    BY WriterAssumption DEF TypeOK
<1>1. CASE WriterTake
  <2>1. PICK rest : rest = SubSeq(queue, Len(Taken) + 1, Len(queue))
      OBVIOUS
  <2>2. Taken \in Seq(Message) /\ rest \in Seq(Message) /\ Taken \o rest = queue
      BY <2>1, TakenSplits
  <2>3. batch' = Taken /\ queue' = rest /\ UNCHANGED <<stored, failed, dropped, made>>
      BY <1>1, <1>m, <2>1 DEF WriterTake
  <2>4. batch = <<>>
      BY <1>1, <1>m DEF WriterTake, BatchInv
  <2>5. stored \in Seq(Message)
      BY DEF TypeOK
  <2>6. (stored \o Taken) \o rest = stored \o queue
    <3>1. Taken \in Seq(Nat) /\ rest \in Seq(Nat) /\ stored \in Seq(Nat)
      <4>1. Message \subseteq Nat
          BY WriterAssumption DEF Message
      <4> QED BY <4>1, <2>2, <2>5, SeqMonotonic
    <3>2. (stored \o Taken) \o rest = stored \o (Taken \o rest)
        BY <3>1, Associative
    <3> QED BY <3>2, <2>2
  <2>7. stored \o <<>> = stored
      BY <2>5, ConcatEmptySeq
  <2>8. Line' = Line
      BY <2>3, <2>4, <2>6, <2>7 DEF Line
  <2> QED BY <2>3, <2>8, LineKept
<1>2. ASSUME NEW t \in Thread, GetConnection(t) PROVE MessageInv'
  <2>1. CASE UNCHANGED queueVars
    <3>1. Line' = Line /\ UNCHANGED <<failed, dropped, made>>
        BY <2>1 DEF Line
    <3> QED BY <3>1, LineKept
  <2>2. CASE GiveUp(t) /\ stored' = stored
      BY <2>2, MessagesGivenUp
  <2> QED BY <1>2, <1>m, <2>1, <2>2 DEF GetConnection
<1>3. ASSUME NEW t \in Thread, Ping(t) PROVE MessageInv'
  <2>1. CASE UNCHANGED queueVars
    <3>1. Line' = Line /\ UNCHANGED <<failed, dropped, made>>
        BY <2>1 DEF Line
    <3> QED BY <3>1, LineKept
  <2>2. CASE GiveUp(t) /\ stored' = stored
      BY <2>2, MessagesGivenUp
  <2> QED BY <1>3, <1>m, <2>1, <2>2 DEF Ping
<1>4. CASE InsertBatch
  <2>1. CASE GiveUp(Writer) /\ stored' = stored
      BY <2>1, MessagesGivenUp
  <2>2. CASE /\ stored' = stored \o batch /\ batch' = <<>>
             /\ UNCHANGED <<queue, failed, dropped, made>>
    <3>1. (stored \o batch) \o <<>> = stored \o batch
        BY LineTypes, ConcatEmptySeq
    <3>2. Line' = Line
        BY <2>2, <3>1 DEF Line
    <3> QED BY <2>2, <3>2, LineKept
  <2> QED BY <1>4, <1>m, <2>1, <2>2 DEF InsertBatch
<1>5. ASSUME NEW w \in Workers, EnqueueMessage(w) PROVE MessageInv'
  <2>0. PICK n \in Nat : n = made + 1
      BY <1>m
  <2>1. made' = n /\ UNCHANGED <<stored, batch, failed>> /\ 1..n = 1..made \cup {n}
            /\ n \notin 1..made
      BY <1>5, <1>m, <2>0, <1>m DEF EnqueueMessage
  <2>2. CASE QueueFull
    <3>1. dropped' = dropped \cup {n} /\ queue' = queue
        BY <1>5, <1>m, <2>0, <2>2 DEF EnqueueMessage
    <3>2. Line' = Line
        BY <2>1, <3>1 DEF Line
    <3>3. Ascending(Line)' /\ SetOf(Line)' = SetOf(Line)
        BY <3>2 DEF MessageInv, Ascending, SetOf
    <3> QED BY <2>1, <3>1, <3>3 DEF MessageInv
  <2>3. CASE ~QueueFull
    <3>1. queue' = Append(queue, n) /\ dropped' = dropped
        BY <1>5, <1>m, <2>0, <2>3 DEF EnqueueMessage
    <3>2. Line' = Line \o <<n>>
      <4>1. Append(queue, n) = queue \o <<n>> /\ <<n>> \in Seq(Nat)
          BY LineTypes, AppendIsConcat
      <4>2. ((stored \o batch) \o queue) \o <<n>> = (stored \o batch) \o (queue \o <<n>>)
        <5>1. PICK r \in Seq(Nat) : r = stored \o batch
            BY LineTypes
        <5>2. (r \o queue) \o <<n>> = r \o (queue \o <<n>>)
            BY <4>1, LineTypes, Associative
        <5> QED BY <5>1, <5>2
      <4> QED BY <2>1, <3>1, <4>1, <4>2 DEF Line
    <3>3. PICK line \in Seq(Nat) : line = Line
        BY LineTypes
    <3>4. <<n>> \in Seq(Nat) /\ SetOf(<<n>>) = {n} /\ Ascending(<<n>>)
      <4>1. Len(<<n>>) = 1 /\ <<n>>[1] = n /\ <<n>> \in Seq(Nat)
          OBVIOUS
      <4>2. 1..1 = {1}
          OBVIOUS
      <4> QED BY <4>1, <4>2 DEF SetOf, Ascending
    <3>5. SetOf(line) \subseteq 1..made /\ Ascending(line)
        BY <3>3 DEF MessageInv
    <3>6. SetOf(line \o <<n>>) = SetOf(line) \cup {n}
      <4>1. PICK one \in Seq(Nat) : one = <<n>>
          BY <3>4
      <4>2. SetOf(line \o one) = SetOf(line) \cup SetOf(one)
          BY ConcatSet
      <4> QED BY <4>1, <4>2, <3>4
    <3>7. Ascending(line \o <<n>>)
      <4>1. \A x \in SetOf(line), y \in SetOf(<<n>>) : x < y
          BY <3>4, <3>5, <2>0, <1>m
      <4> QED BY <4>1, <3>4, <3>5, ConcatAscends
    <3>8. Ascending(Line)' /\ SetOf(Line)' = SetOf(Line) \cup {n}
      <4>1. Ascending(Line') /\ SetOf(Line') = SetOf(Line) \cup {n}
          BY <3>2, <3>3, <3>6, <3>7
      <4> QED BY <4>1 DEF Ascending, SetOf
    <3> QED BY <2>1, <3>1, <3>8 DEF MessageInv
  <2> QED BY <2>2, <2>3
<1>6. ASSUME NEW w \in Workers, Query(w) PROVE MessageInv'
  <2>1. Line' = Line /\ UNCHANGED <<failed, dropped, made>>
      BY <1>6, <1>m DEF Query, Line
  <2> QED BY <2>1, LineKept
<1>7. ASSUME NEW w \in Workers, RunQuery(w) PROVE MessageInv'
  <2>1. Line' = Line /\ UNCHANGED <<failed, dropped, made>>
      BY <1>7, <1>m DEF RunQuery, Line
  <2> QED BY <2>1, LineKept
<1>8. CASE MysqlDown
  <2>1. Line' = Line /\ UNCHANGED <<failed, dropped, made>>
      BY <1>8, <1>m DEF MysqlDown, Line
  <2> QED BY <2>1, LineKept
<1>9. CASE MysqlBack
  <2>1. Line' = Line /\ UNCHANGED <<failed, dropped, made>>
      BY <1>9, <1>m DEF MysqlBack, Line
  <2> QED BY <2>1, LineKept
<1>10. CASE HeartWake
  <2>1. Line' = Line /\ UNCHANGED <<failed, dropped, made>>
      BY <1>10, <1>m DEF HeartWake, Line
  <2> QED BY <2>1, LineKept
<1>11. CASE HeartBorrow
  <2>1. Line' = Line /\ UNCHANGED <<failed, dropped, made>>
      BY <1>11, <1>m DEF HeartBorrow, Line
  <2> QED BY <2>1, LineKept
<1>12. CASE HeartRegister
  <2>1. Line' = Line /\ UNCHANGED <<failed, dropped, made>>
      BY <1>12, <1>m DEF HeartRegister, Line
  <2> QED BY <2>1, LineKept
<1>13. CASE RedisRestart
  <2>1. Line' = Line /\ UNCHANGED <<failed, dropped, made>>
      BY <1>13, <1>m DEF RedisRestart, Line
  <2> QED BY <2>1, LineKept
<1>14. CASE StopWriter
  <2>1. Line' = Line /\ UNCHANGED <<failed, dropped, made>>
      BY <1>14, <1>m DEF StopWriter, Line
  <2> QED BY <2>1, LineKept
<1>15. CASE JoinWriter
  <2>1. Line' = Line /\ UNCHANGED <<failed, dropped, made>>
      BY <1>15, <1>m DEF JoinWriter, Line
  <2> QED BY <2>1, LineKept
<1>16. CASE JoinHeart
  <2>1. Line' = Line /\ UNCHANGED <<failed, dropped, made>>
      BY <1>16, <1>m DEF JoinHeart, Line
  <2> QED BY <2>1, LineKept
<1>17. CASE Closed
  <2>1. Line' = Line /\ UNCHANGED <<failed, dropped, made>>
      BY <1>17, <1>m DEF Closed, vars, Line
  <2> QED BY <2>1, LineKept
<1>18. CASE UNCHANGED vars
  <2>1. Line' = Line /\ UNCHANGED <<failed, dropped, made>>
      BY <1>18, <1>m DEF vars, Line
  <2> QED BY <2>1, LineKept
<1> QED
    BY <1>1, <1>2, <1>3, <1>4, <1>5, <1>6, <1>7, <1>8, <1>9, <1>10, <1>11,
       <1>12, <1>13, <1>14, <1>15, <1>16, <1>17, <1>18
    DEF Next, WriterStep, WorkerStep, HeartStep, Thread

\* Before the first step nothing was sent and nobody holds a connection.
LEMMA WriterInit ==
  ASSUME Init
  PROVE  WriterInv
<1>a. /\ PoolSize \in Nat /\ LeaseBeats \in Nat /\ MaxMessages \in Nat /\ MaxOutages \in Nat
      /\ MaxRestarts \in Nat /\ MaxQueue \in Nat /\ MaxBatch \in Nat
    BY WriterAssumption
<1>w. Writer \in Thread /\ Workers \subseteq Thread
    BY DEF Thread
<1>p. opened \in Nat /\ pool = [i \in 1..opened |-> TRUE] /\ pool \in Seq(BOOLEAN)
          /\ Len(pool) = opened
  <2>1. opened \in Nat /\ pool = [i \in 1..opened |-> TRUE]
      BY <1>a DEF Init
  <2> QED BY <2>1, Filled
<1>r. redisPool \in Seq(BOOLEAN)
  <2>1. PICK n \in 0..PoolSize : redisPool = [i \in 1..n |-> TRUE]
      BY DEF Init
  <2> QED BY <2>1, <1>a, Filled
<1>1. TypeOK
  <2>1. queue \in Seq(Message) /\ batch \in Seq(Message) /\ stored \in Seq(Message)
      BY DEF Init
  <2>2. /\ made \in 0..MaxMessages /\ outages \in 0..MaxOutages /\ restarts \in 0..MaxRestarts
        /\ age \in 0..LeaseBeats /\ forsaken \in Nat
      BY <1>a DEF Init
  <2>3. /\ place \in [Thread -> {"idle", "borrow", "ping", "use", "done"}]
        /\ held \in [Thread -> SUBSET Link]
      BY DEF Init
  <2>4. mysqlUp \in BOOLEAN
      BY DEF Init
  <2>5. /\ failed \subseteq Message /\ dropped \subseteq Message /\ stop \in BOOLEAN
        /\ heart \in {"sleep", "borrow", "use", "done"} /\ heartStop \in BOOLEAN
        /\ redisHeld \subseteq Link /\ dtor \in {"serving", "joinWriter", "joinHeart", "closed"}
      BY DEF Init
  <2> QED BY <1>p, <1>r, <2>1, <2>2, <2>3, <2>4, <2>5 DEF TypeOK, Link
<1>2. HoldInv /\ ExitInv
    BY <1>w DEF Init, HoldInv, HeldOk, ExitInv
<1>3. BatchInv
    BY <1>a, <1>w DEF Init, BatchInv
<1>4. SoundInv
    BY <1>p DEF Init, SoundInv
<1>5. CountInv
  <2>1. Out = {} /\ forsaken = 0
      BY DEF Init, Out
  <2> QED BY <2>1, <1>p, FS_EmptySet DEF CountInv
<1>6. MessageInv
  <2>1. Line = <<>>
    <3>1. <<>> \o <<>> = <<>>
        OBVIOUS
    <3> QED BY <3>1 DEF Init, Line
  <2>2. SetOf(Line) = {} /\ Ascending(Line)
    <3>1. 1..Len(Line) = {}
        BY <2>1
    <3> QED BY <3>1 DEF SetOf, Ascending
  <2>3. 1..made = {}
      BY DEF Init
  <2> QED BY <2>2, <2>3 DEF Init, MessageInv
<1> QED BY <1>1, <1>2, <1>3, <1>4, <1>5, <1>6 DEF WriterInv

-----------------------------------------------------------------------------
(* The theorems *)

\* The invariant of the writer, the pools and the destructor, for every value of
\* the constants.
THEOREM WriterInvariance == Spec => []WriterInv
<1>1. WriterInv /\ [Next]_vars => WriterInv'
  <2>1. ASSUME WriterInv, [Next]_vars PROVE WriterInv'
    <3>1. TypeOK' /\ HoldInv'
        BY <2>1, WriterTypeStep, HoldStep
    <3>2. ExitInv' /\ BatchInv'
        BY <2>1, ExitStep, BatchStep
    <3>3. SoundInv' /\ CountInv'
        BY <2>1, SoundStep, CountStep
    <3>4. MessageInv'
        BY <2>1, MessageStep
    <3> QED BY <3>1, <3>2, <3>3, <3>4 DEF WriterInv
  <2> QED BY <2>1
<1> QED BY <1>1, WriterInit, PTL DEF Spec

\* dbWriterLoop() and enqueueMessage(): every message is in one place, what is or
\* will be in the table is in the order of sending, and the counts add up.
THEOREM MessagesAccountedHolds == Spec => []MessagesAccounted
<1>1. ASSUME WriterInv PROVE MessagesAccounted
  <2>1. PICK line \in Seq(Nat) : line = Line /\ line = stored \o batch \o queue
      BY <1>1, LineTypes DEF WriterInv, Line
  <2>2. /\ Ascending(line) /\ SetOf(line) \cup failed \cup dropped = 1..made
        /\ SetOf(line) \cap failed = {} /\ SetOf(line) \cap dropped = {}
        /\ failed \cap dropped = {}
      BY <1>1, <2>1 DEF WriterInv, MessageInv
  <2>3. made \in Nat /\ Len(line) \in Nat
      BY <1>1, WriterAssumption DEF WriterInv, TypeOK
  <2>4. IsFiniteSet(1..made) /\ Cardinality(1..made) = made
      BY <2>3, FS_Interval
  <2>5. IsFiniteSet(SetOf(line)) /\ Cardinality(SetOf(line)) = Len(line)
      BY <2>2, AscendingCard
  <2>6. /\ IsFiniteSet(failed) /\ IsFiniteSet(dropped)
        /\ Cardinality(failed) \in Nat /\ Cardinality(dropped) \in Nat
    <3>1. failed \in SUBSET (1..made) /\ dropped \in SUBSET (1..made)
        BY <2>2
    <3> QED BY <3>1, <2>4, FS_Subset, FS_CardinalityType
  <2>7. /\ IsFiniteSet(SetOf(line) \cup failed)
        /\ Cardinality(SetOf(line) \cup failed) = Len(line) + Cardinality(failed)
    <3>1. /\ IsFiniteSet(SetOf(line) \cup failed)
          /\ Cardinality(SetOf(line) \cup failed)
               = Len(line) + Cardinality(failed) - Cardinality({})
        BY <2>2, <2>5, <2>6, FS_Union
    <3> QED BY <3>1, <2>3, <2>6, FS_EmptySet
  <2>8. Cardinality((SetOf(line) \cup failed) \cup dropped)
          = Len(line) + Cardinality(failed) + Cardinality(dropped)
    <3>1. (SetOf(line) \cup failed) \cap dropped = {}
        BY <2>2
    <3>2. Cardinality((SetOf(line) \cup failed) \cup dropped)
            = Len(line) + Cardinality(failed) + Cardinality(dropped) - Cardinality({})
        BY <2>6, <2>7, <3>1, FS_Union
    <3> QED BY <3>2, <2>3, <2>6, FS_EmptySet
  <2>9. Cardinality(failed) + Cardinality(dropped) + Len(line) = made
    <3>1. (SetOf(line) \cup failed) \cup dropped = 1..made
        BY <2>2
    <3>2. made = Len(line) + Cardinality(failed) + Cardinality(dropped)
        BY <3>1, <2>4, <2>8
    <3> QED BY <3>2, <2>3, <2>6
  <2> QED BY <1>1, <2>1, <2>2, <2>9 DEF MessagesAccounted, Ascending, WriterInv, BatchInv
<1> QED BY <1>1, WriterInvariance, PTL

\* ~ChatService(): the writer leaves an empty queue, and the pools are destroyed
\* when nobody has one of their connections.
THEOREM DrainedAtExitHolds == Spec => []DrainedAtExit
<1>1. ASSUME WriterInv PROVE DrainedAtExit
  <2>1. ASSUME dtor = "closed", NEW t \in Thread PROVE held[t] = {}
    <3>1. place[t] \in {"idle", "done"}
        BY <1>1, <2>1 DEF WriterInv, ExitInv, Thread
    <3> QED BY <1>1, <3>1 DEF WriterInv, HoldInv, HeldOk
  <2> QED BY <1>1, <2>1 DEF WriterInv, DrainedAtExit, BatchInv, ExitInv, HoldInv
<1> QED BY <1>1, WriterInvariance, PTL

\* MySQLPool: a connection is in the pool or with one thread; only a reconnection
\* that fails makes the pool smaller, and without an outage none does.
THEOREM ConnectionsKeptHolds == Spec => []ConnectionsKept
<1>1. WriterInv => ConnectionsKept
    BY DEF WriterInv, ConnectionsKept, SoundInv, CountInv, Out
<1> QED BY <1>1, WriterInvariance, PTL

-----------------------------------------------------------------------------
(* The logger *)

\* The lines in the file, in the writer's batch and in the queue continue each other.
LineInv ==
  /\ lines = Len(file) + Len(local) + Len(lineQueue)
  /\ \A i \in 1..Len(file) : file[i] = i
  /\ \A i \in 1..Len(local) : local[i] = Len(file) + i
  /\ \A i \in 1..Len(lineQueue) : lineQueue[i] = Len(file) + Len(local) + i

\* The writer has a batch only while it writes it, and it leaves only after stop().
LeaveInv ==
  /\ writer # "writing" => local = <<>>
  /\ writer = "done" => logStop
  /\ logStop => logStopper # "idle"
  /\ before <= lines
  /\ FlushedAtExit

\* The inductive invariant of the logger.
LogInv == LogTypeOK /\ LineInv /\ LeaveInv

\* Every step of the logger keeps the invariant.
LEMMA LogStep ==
  ASSUME LogInv, [LogNext]_loggerVars PROVE LogInv'
<1>typ. /\ lineQueue \in Seq(1..MaxLines) /\ local \in Seq(1..MaxLines)
        /\ file \in Seq(1..MaxLines) /\ lines \in 0..MaxLines /\ before \in 0..MaxLines
        /\ Len(file) \in Nat /\ Len(local) \in Nat /\ Len(lineQueue) \in Nat
    BY DEF LogInv, LogTypeOK
<1>inv. LogTypeOK /\ LineInv /\ LeaveInv
    BY DEF LogInv
<1>k. ASSUME UNCHANGED <<lineQueue, local, file, lines>> PROVE LineInv'
    BY <1>k, <1>inv DEF LineInv
<1> USE LinesAssumption DEF WriterPlace
<1>1. ASSUME NEW l \in Loggers, LogPush(l) PROVE LogInv'
  <2>1. /\ lines < MaxLines /\ lines' = lines + 1 /\ lineQueue' = Append(lineQueue, lines + 1)
        /\ UNCHANGED <<local, file, logStop, writer, logStopper, before>>
      BY <1>1 DEF LogPush, PushLine
  <2>2. /\ lineQueue' \in Seq(1..MaxLines) /\ Len(lineQueue') = Len(lineQueue) + 1
        /\ \A i \in 1..Len(lineQueue) : lineQueue'[i] = lineQueue[i]
        /\ lineQueue'[Len(lineQueue) + 1] = lines + 1
      BY <2>1, <1>typ
  <2>3. LogTypeOK'
      BY <1>1, <2>1, <2>2, <1>inv DEF LogTypeOK, LogPush
  <2>4. LineInv'
    <3>1. \A i \in 1..Len(lineQueue') : i \in 1..Len(lineQueue) \/ i = Len(lineQueue) + 1
        BY <2>2, <1>typ
    <3>2. ASSUME NEW i \in 1..Len(lineQueue')
          PROVE  lineQueue'[i] = Len(file) + Len(local) + i
      <4>1. CASE i \in 1..Len(lineQueue)
          BY <4>1, <2>2, <1>inv DEF LineInv
      <4>2. CASE i = Len(lineQueue) + 1
          BY <4>2, <2>2, <1>inv, <1>typ DEF LineInv
      <4> QED BY <3>1, <4>1, <4>2
    <3> QED BY <2>1, <2>2, <3>2, <1>inv, <1>typ DEF LineInv
  <2>5. LeaveInv'
      BY <2>1, <1>inv, <1>typ DEF LeaveInv, FlushedAtExit
  <2> QED BY <2>3, <2>4, <2>5 DEF LogInv
<1>2. ASSUME NEW l \in Loggers, LogNotify(l) PROVE LogInv'
  <2>1. LogTypeOK' /\ LeaveInv'
      BY <1>2, <1>inv DEF LogNotify, Notified, LogTypeOK, LeaveInv, FlushedAtExit
  <2> QED BY <1>2, <1>k, <2>1 DEF LogNotify, LogInv
<1>3. CASE WriterCheck
  <2>1. CASE ExitTest
    <3>1. writer' = "done" /\ logStop /\ lineQueue = <<>> /\ local = <<>>
          /\ UNCHANGED <<lineQueue, local, file, logStop, logger, logStopper, lines, before>>
        BY <1>3, <2>1, <1>inv DEF WriterCheck, ExitTest, LeaveInv
    <3>2. Len(file) = lines /\ \A n \in 1..before : n \in 1..Len(file) /\ file[n] = n
      <4>1. Len(local) = 0 /\ Len(lineQueue) = 0
          BY <3>1
      <4> QED BY <4>1, <1>inv, <1>typ DEF LineInv, LeaveInv
    <3>3. FlushedAtExit'
        BY <3>1, <3>2 DEF FlushedAtExit
    <3>4. LogTypeOK' /\ LeaveInv'
        BY <3>1, <3>3, <1>inv DEF LogTypeOK, LeaveInv
    <3> QED BY <3>1, <3>4, <1>k DEF LogInv
  <2>2. CASE ~ExitTest /\ lineQueue # <<>>
    <3>1. /\ writer = "lock" /\ writer' = "writing" /\ local' = lineQueue /\ lineQueue' = <<>>
          /\ local = <<>> /\ UNCHANGED <<file, logStop, logger, logStopper, lines, before>>
        BY <1>3, <2>2, <1>inv DEF WriterCheck, LeaveInv
    <3>2. Len(local) = 0 /\ Len(lineQueue') = 0 /\ <<>> \in Seq(1..MaxLines)
        BY <3>1
    <3>3. LineInv'
        BY <3>1, <3>2, <1>inv, <1>typ DEF LineInv
    <3>4. LogTypeOK' /\ LeaveInv'
        BY <3>1, <3>2, <1>inv DEF LogTypeOK, LeaveInv, FlushedAtExit
    <3> QED BY <3>3, <3>4 DEF LogInv
  <2>3. CASE ~ExitTest /\ lineQueue = <<>>
    <3>1. /\ writer = "lock" /\ writer' = "held"
          /\ UNCHANGED <<lineQueue, local, file, logStop, logger, logStopper, lines, before>>
        BY <1>3, <2>3 DEF WriterCheck
    <3>2. LogTypeOK' /\ LeaveInv'
        BY <3>1, <1>inv DEF LogTypeOK, LeaveInv, FlushedAtExit
    <3> QED BY <3>1, <3>2, <1>k DEF LogInv
  <2> QED BY <2>1, <2>2, <2>3
<1>4. CASE WriterBlock \/ LogWakeup
  <2>1. LogTypeOK' /\ LeaveInv'
      BY <1>4, <1>inv DEF WriterBlock, LogWakeup, LogTypeOK, LeaveInv, FlushedAtExit
  <2> QED BY <1>4, <1>k, <2>1 DEF WriterBlock, LogWakeup, LogInv
<1>5. CASE WriterFlush
  <2>1. /\ writer = "writing" /\ writer' = "lock" /\ file' = file \o local /\ local' = <<>>
        /\ UNCHANGED <<lineQueue, logStop, logger, logStopper, lines, before>>
      BY <1>5 DEF WriterFlush
  <2>2. /\ file' \in Seq(1..MaxLines) /\ Len(file') = Len(file) + Len(local)
        /\ \A i \in 1..Len(file) : file'[i] = file[i]
        /\ \A i \in 1..Len(local) : file'[Len(file) + i] = local[i]
        /\ local' \in Seq(1..MaxLines) /\ Len(local') = 0
      BY <2>1, <1>typ
  <2>3. \A i \in 1..Len(file') : file'[i] = i
    <3> SUFFICES ASSUME NEW i \in 1..Len(file') PROVE file'[i] = i
        OBVIOUS
    <3>1. CASE i \in 1..Len(file)
        BY <3>1, <2>2, <1>inv DEF LineInv
    <3>2. CASE i > Len(file)
      <4>1. i - Len(file) \in 1..Len(local) /\ Len(file) + (i - Len(file)) = i
          BY <3>2, <2>2, <1>typ
      <4> QED BY <4>1, <2>2, <1>inv DEF LineInv
    <3> QED BY <3>1, <3>2, <2>2, <1>typ
  <2>4. LineInv'
      BY <2>1, <2>2, <2>3, <1>inv, <1>typ DEF LineInv
  <2>5. LogTypeOK' /\ LeaveInv'
      BY <2>1, <2>2, <1>inv DEF LogTypeOK, LeaveInv, FlushedAtExit
  <2> QED BY <2>4, <2>5 DEF LogInv
<1>6. CASE StopSet
  <2>1. writer # "done"
      BY <1>6, <1>inv DEF StopSet, LeaveInv
  <2>2. LogTypeOK' /\ LeaveInv'
      BY <1>6, <2>1, <1>inv, <1>typ DEF StopSet, LogTypeOK, LeaveInv, FlushedAtExit
  <2> QED BY <1>6, <1>k, <2>2 DEF StopSet, LogInv
<1>7. CASE StopNotify \/ LogStopJoin
  <2>1. LogTypeOK' /\ LeaveInv'
      BY <1>7, <1>inv DEF StopNotify, Notified, LogStopJoin, LogTypeOK, LeaveInv, FlushedAtExit
  <2> QED BY <1>7, <1>k, <2>1 DEF StopNotify, LogStopJoin, LogInv
<1>8. CASE UNCHANGED loggerVars
  <2>1. LogTypeOK' /\ LeaveInv'
      BY <1>8, <1>inv DEF loggerVars, LogTypeOK, LeaveInv, FlushedAtExit
  <2> QED BY <1>8, <1>k, <2>1 DEF loggerVars, LogInv
<1> QED BY <1>1, <1>2, <1>3, <1>4, <1>5, <1>6, <1>7, <1>8 DEF LogNext, LogWriterStep, LogAtRest

\* The invariant holds of every behaviour of the logger, for any number of lines.
THEOREM LogInvariance == LogSpec => []LogInv
<1>1. LogInit => LogInv
  <2> SUFFICES ASSUME LogInit PROVE LogInv
      OBVIOUS
  <2>1. Len(file) = 0 /\ Len(local) = 0 /\ Len(lineQueue) = 0
      BY DEF LogInit
  <2>2. LogTypeOK
    <3>1. <<>> \in Seq(1..MaxLines)
        OBVIOUS
    <3>2. lines \in 0..MaxLines /\ before \in 0..MaxLines
        BY LinesAssumption DEF LogInit
    <3>3. logger \in [Loggers -> {"idle", "notify"}]
        BY DEF LogInit
    <3> QED BY <3>1, <3>2, <3>3 DEF LogInit, LogTypeOK, WriterPlace
  <2>3. LineInv
      BY <2>1 DEF LogInit, LineInv
  <2>4. LeaveInv
      BY DEF LogInit, LeaveInv, FlushedAtExit
  <2> QED BY <2>2, <2>3, <2>4 DEF LogInv
<1> QED BY LogStep, <1>1, PTL DEF LogSpec

\* No line is lost, doubled or reordered.
THEOREM LinesInOrderHolds == LogSpec => []LinesInOrder
<1>1. LogInv => LinesInOrder
  <2> SUFFICES ASSUME LogInv PROVE LinesInOrder
      OBVIOUS
  <2>typ. /\ lineQueue \in Seq(1..MaxLines) /\ local \in Seq(1..MaxLines)
          /\ file \in Seq(1..MaxLines)
          /\ Len(file) \in Nat /\ Len(local) \in Nat /\ Len(lineQueue) \in Nat
      BY DEF LogInv, LogTypeOK
  <2> DEFINE all == (file \o local) \o lineQueue
  <2>1. /\ Len(file \o local) = Len(file) + Len(local) /\ file \o local \in Seq(1..MaxLines)
        /\ \A i \in 1..Len(file) : (file \o local)[i] = file[i]
        /\ \A i \in 1..Len(local) : (file \o local)[Len(file) + i] = local[i]
      BY <2>typ
  <2>2. all \in Seq(1..MaxLines) /\ Len(all) = lines
      BY <2>typ, <2>1 DEF LogInv, LineInv
  <2>3. /\ \A i \in 1..Len(file \o local) : all[i] = (file \o local)[i]
        /\ \A i \in 1..Len(lineQueue) : all[Len(file \o local) + i] = lineQueue[i]
      BY <2>typ, <2>1
  <2> HIDE DEF all
  <2>4. ASSUME NEW i \in 1..lines PROVE all[i] = i
    <3>1. CASE i \in 1..Len(file)
      <4>1. i \in 1..Len(file \o local)
          BY <3>1, <2>1, <2>typ
      <4> QED BY <3>1, <4>1, <2>1, <2>3 DEF LogInv, LineInv
    <3>2. CASE i - Len(file) \in 1..Len(local)
      <4>1. i = Len(file) + (i - Len(file)) /\ i \in 1..Len(file \o local)
          BY <3>2, <2>1, <2>typ
      <4> QED BY <3>2, <4>1, <2>1, <2>3, <2>typ DEF LogInv, LineInv
    <3>3. CASE i - Len(file) - Len(local) \in 1..Len(lineQueue)
      <4> DEFINE j == i - Len(file) - Len(local)
      <4>1. i = Len(file \o local) + j /\ j \in 1..Len(lineQueue)
          BY <3>3, <2>1, <2>typ
      <4>2. all[i] = lineQueue[j]
          BY <4>1, <2>3
      <4> QED BY <4>1, <4>2, <2>1, <2>typ DEF LogInv, LineInv
    <3> QED BY <3>1, <3>2, <3>3, <2>typ DEF LogInv, LineInv
  <2>5. all = [i \in 1..lines |-> i]
      BY <2>2, <2>4
  <2> QED BY <2>5 DEF LogInv, LeaveInv, LinesInOrder, all
<1> QED BY LogInvariance, <1>1, PTL
=============================================================================
