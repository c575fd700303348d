--------------------------- MODULE ServerStopProofs ---------------------------
(***************************************************************************)
(* Proofs about Server::stop (ServerStop), for any number of loops,        *)
(* workers, connections and requests: whenever stop() returns, every       *)
(* accepted connection has been closed and cleaned up exactly once, and    *)
(* the pool is closed only when no connection can submit to it.            *)
(*                                                                         *)
(* Neither is inductive.  The invariant follows a connection through the   *)
(* hands that have it: its build callback, its task, the worker that       *)
(* claimed its close, its final callback; and it says what each phase of   *)
(* stop() leaves behind it, the order of a loop's queue included: nothing  *)
(* is built behind closeAll, and nothing follows the barrier.              *)
(***************************************************************************)
EXTENDS ServerStop, TLAPS

\* The flags and promises in each phase of stop().
PhaseInv ==
  /\ poolStopped <=> main \notin {"serving", "closeAll", "poolStop"}
  /\ main \notin {"closeAll", "barrier"} => told = {}
  /\ answered \subseteq told
  /\ main \notin {"loopStop", "loopJoin", "returned"} => stopFlag = {}
  /\ exited \subseteq stopFlag

\* What a queued callback says of its connection and of the phase.  Only the
\* end-of-file checks of a connection may be several.
CallbackOk(l, i) ==
  LET kind == queue[l][i][1]
      c    == queue[l][i][2]
  IN  /\ kind \in {"build", "final", "eof"} => home[c] = l
      /\ kind = "build" => conn[c] = "posted"
      /\ kind = "final" => conn[c] = "closing" /\ slot[c] = "free"
      /\ kind = "eof" => conn[c] \notin {"new", "posted"}
      /\ kind = "closeAll" => main = "closeAll" /\ l \in told \ answered
      /\ kind = "barrier" =>
           main = "barrier" /\ l \in told \ answered /\ i = Len(queue[l])

QueueInv == \A l \in Loops : \A i \in 1..Len(queue[l]) : CallbackOk(l, i)

\* The order in a loop's queue: no callback twice, no build behind closeAll.
OrderInv ==
  \A l \in Loops : \A i, j \in 1..Len(queue[l]) :
    /\ queue[l][i] = queue[l][j] /\ queue[l][i][1] # "eof" => i = j
    /\ queue[l][i][1] = "build" /\ queue[l][j][1] = "closeAll" => i < j

Queued(kind, c) == \E i \in 1..Len(queue[home[c]]) : queue[home[c]][i] = <<kind, c>>

\* Whoever has to finish a connection's step has it in hand.
HandOk(c) ==
  /\ conn[c] = "posted" => Queued("build", c)
  /\ conn[c] = "closing" => \/ slot[c] # "free"
                            \/ \E w \in ServerWorkers : worker[w] = <<"final", c>>
                            \/ Queued("final", c)
  /\ slot[c] # "free" => conn[c] \in {"open", "closing"}
  /\ slot[c] = "running" => \E w \in ServerWorkers : worker[w] = <<"run", c>>
  /\ cleaned[c] = IF conn[c] = "closed" THEN 1 ELSE 0

HandInv == \A c \in ServerConns : HandOk(c)

\* What a worker's place says of the connection it works for.
WorkerOk(w) ==
  LET c == worker[w][2]
  IN  /\ worker[w][1] = "run" => slot[c] = "running"
      /\ worker[w][1] = "final" => /\ conn[c] = "closing" /\ slot[c] = "free"
                                   /\ ~Queued("final", c)
      /\ worker[w][1] = "eof" => conn[c] \notin {"new", "posted"}
      /\ \A v \in ServerWorkers :
           worker[v] = worker[w] /\ worker[w][1] \in {"run", "final"} => v = w

WorkerInv == \A w \in ServerWorkers : WorkerOk(w)

\* What each phase of stop() has achieved.
AchievedInv ==
  /\ \A l \in answered : main = "closeAll" =>
       \A c \in ServerConns : home[c] = l => conn[c] \notin {"posted", "open"}
  /\ main \notin {"serving", "closeAll"} =>
       \A c \in ServerConns : conn[c] \notin {"posted", "open"}
  /\ main \notin {"serving", "closeAll", "poolStop", "poolJoin"} =>
       /\ \A w \in ServerWorkers : worker[w][1] = "idle"
       /\ \A c \in ServerConns : slot[c] = "free"
  /\ \A l \in answered : main = "barrier" => queue[l] = <<>>
  /\ main \notin {"serving", "closeAll", "poolStop", "poolJoin", "barrier"} =>
       \A l \in Loops : queue[l] = <<>>

StopInv ==
  ServerTypeOK /\ PhaseInv /\ QueueInv /\ OrderInv /\ HandInv /\ WorkerInv /\ AchievedInv

-----------------------------------------------------------------------------
(* Queues, callbacks and workers *)

\* What appending a callback to one queue changes.
LEMMA PostQueue ==
  ASSUME NEW S, NEW L, NEW q \in [L -> Seq(S)], NEW l \in L, NEW cb \in S,
         NEW r, r = [q EXCEPT ![l] = Append(@, cb)]
  PROVE  /\ r \in [L -> Seq(S)]
         /\ \A m \in L : m # l => r[m] = q[m]
         /\ Len(q[l]) \in Nat /\ Len(r[l]) = Len(q[l]) + 1
         /\ Len(q[l]) + 1 \in 1..Len(r[l]) /\ r[l][Len(q[l]) + 1] = cb
         /\ \A m \in L : \A i \in 1..Len(q[m]) : i \in 1..Len(r[m]) /\ r[m][i] = q[m][i]
         /\ \A m \in L : \A i \in 1..Len(r[m]) :
              \/ i \in 1..Len(q[m]) /\ r[m][i] = q[m][i]
              \/ m = l /\ i = Len(q[l]) + 1 /\ r[m][i] = cb
<1>1. q[l] \in Seq(S) /\ Append(q[l], cb) \in Seq(S) /\ Len(q[l]) \in Nat
    OBVIOUS
<1>2. r[l] = Append(q[l], cb) /\ \A m \in L : m # l => r[m] = q[m]
    OBVIOUS
<1>3. r \in [L -> Seq(S)]
    BY <1>1
<1>4. /\ Len(r[l]) = Len(q[l]) + 1 /\ r[l][Len(q[l]) + 1] = cb
      /\ \A i \in 1..Len(q[l]) : r[l][i] = q[l][i]
    BY <1>1, <1>2
<1>5. ASSUME NEW m \in L, NEW i \in 1..Len(q[m])
      PROVE  i \in 1..Len(r[m]) /\ r[m][i] = q[m][i]
    BY <1>1, <1>2, <1>4
<1>6. ASSUME NEW m \in L, NEW i \in 1..Len(r[m])
      PROVE  \/ i \in 1..Len(q[m]) /\ r[m][i] = q[m][i]
             \/ m = l /\ i = Len(q[l]) + 1 /\ r[m][i] = cb
  <2>1. CASE m = l
    <3>1. i \in 1..Len(q[l]) \/ i = Len(q[l]) + 1
        BY <2>1, <1>1, <1>4
    <3> QED BY <3>1, <2>1, <1>4
  <2>2. CASE m # l
      BY <2>2, <1>2
  <2> QED BY <2>1, <2>2
<1> QED BY <1>1, <1>2, <1>3, <1>4, <1>5, <1>6

\* What taking the first callback from one queue changes.
LEMMA TakeQueue ==
  ASSUME NEW S, NEW L, NEW q \in [L -> Seq(S)], NEW l \in L, q[l] # <<>>,
         NEW r, r = [q EXCEPT ![l] = Tail(@)]
  PROVE  /\ r \in [L -> Seq(S)] /\ Head(q[l]) = q[l][1] /\ 1 \in 1..Len(q[l])
         /\ q[l][1] \in S
         /\ Len(q[l]) \in Nat /\ Len(r[l]) = Len(q[l]) - 1
         /\ \A m \in L : m # l => r[m] = q[m]
         /\ \A i \in 1..Len(r[l]) : i + 1 \in 1..Len(q[l]) /\ r[l][i] = q[l][i + 1]
         /\ \A i \in 1..Len(q[l]) : i = 1 \/ (i - 1 \in 1..Len(r[l]) /\ r[l][i - 1] = q[l][i])
<1>1. q[l] \in Seq(S) /\ Len(q[l]) \in Nat /\ Len(q[l]) >= 1
    OBVIOUS
<1>2. r[l] = Tail(q[l]) /\ \A m \in L : m # l => r[m] = q[m]
    OBVIOUS
<1>3. /\ Tail(q[l]) \in Seq(S) /\ Head(q[l]) = q[l][1] /\ q[l][1] \in S
      /\ Len(Tail(q[l])) = Len(q[l]) - 1
      /\ \A i \in 1..Len(q[l]) - 1 : Tail(q[l])[i] = q[l][i + 1]
    BY <1>1
<1>4. r \in [L -> Seq(S)]
    BY <1>3
<1>5. Len(r[l]) = Len(q[l]) - 1 /\ 1 \in 1..Len(q[l])
    BY <1>1, <1>2, <1>3
<1>6. \A i \in 1..Len(r[l]) : i + 1 \in 1..Len(q[l]) /\ r[l][i] = q[l][i + 1]
    BY <1>1, <1>2, <1>3, <1>5
<1>7. \A i \in 1..Len(q[l]) : i = 1 \/ (i - 1 \in 1..Len(r[l]) /\ r[l][i - 1] = q[l][i])
    BY <1>1, <1>5, <1>6
<1> QED BY <1>1, <1>2, <1>3, <1>4, <1>5, <1>6, <1>7

\* A callback is for one connection, or for all.
LEMMA CallbackParts ==
  ASSUME NEW cb \in Callback
  PROVE  /\ \/ cb[1] \in {"build", "final", "eof"} /\ cb[2] \in ServerConns
            \/ cb[1] \in {"closeAll", "barrier"} /\ cb[2] = "all"
         /\ cb = <<cb[1], cb[2]>>
BY DEF Callback

\* A worker is idle, or works for one connection.
LEMMA WorkerParts ==
  ASSUME ServerTypeOK, NEW w \in ServerWorkers
  PROVE  /\ \/ worker[w][1] = "idle"
            \/ worker[w][1] \in {"run", "final", "eof"} /\ worker[w][2] \in ServerConns
         /\ worker[w] = <<worker[w][1], worker[w][2]>>
BY DEF ServerTypeOK

-----------------------------------------------------------------------------
(* The steps that leave queues, connections and workers alone *)

\* stop() begins.
LEMMA BeginStopStep ==
  ASSUME StopAssumption, StopInv, BeginStop
  PROVE  StopInv'
<1> USE DEF StopInv
<1>e. /\ main = "serving" /\ main' = "closeAll"
      /\ UNCHANGED <<told, answered, queue, stopFlag, exited, next, home, conn, cleaned,
                slot, worker, poolStopped, requests>>
    BY DEF BeginStop, AfterServing, mainVars, loopVars, connVars, poolVars
<1>1. ServerTypeOK'
    BY <1>e DEF ServerTypeOK, MainPlace
<1>2. PhaseInv'
    BY <1>e DEF PhaseInv
<1>3. QueueInv'
    BY <1>e DEF QueueInv, CallbackOk
<1>4. OrderInv'
    BY <1>e DEF OrderInv
<1>5. HandInv'
    BY <1>e DEF HandInv, HandOk, Queued
<1>6. WorkerInv'
    BY <1>e DEF WorkerInv, WorkerOk, Queued
<1>7. AchievedInv'
    BY <1>e DEF AchievedInv, PhaseInv
<1> QED BY <1>1, <1>2, <1>3, <1>4, <1>5, <1>6, <1>7

\* The promises of closeAllConnections() or of the barrier are fulfilled.
LEMMA AwaitLoopsStep ==
  ASSUME StopAssumption, StopInv, AwaitLoops
  PROVE  StopInv'
<1> USE DEF StopInv
<1>e. /\ \/ main = "closeAll" /\ main' = "poolStop"
         \/ main = "barrier" /\ main' = "loopStop"
      /\ told = Loops /\ answered = Loops /\ told' = {} /\ answered' = {}
      /\ UNCHANGED <<queue, stopFlag, exited, next, home, conn, cleaned, slot, worker,
                poolStopped, requests>>
    BY DEF AwaitLoops, Awaited, mainVars, loopVars, connVars, poolVars
<1>h. \A c \in ServerConns : home[c] \in Loops
    BY DEF ServerTypeOK
<1>1. ServerTypeOK'
    BY <1>e DEF ServerTypeOK, MainPlace
<1>2. PhaseInv'
    BY <1>e DEF PhaseInv
<1>3. QueueInv'
    BY <1>e DEF QueueInv, CallbackOk
<1>4. OrderInv'
    BY <1>e DEF OrderInv
<1>5. HandInv'
    BY <1>e DEF HandInv, HandOk, Queued
<1>6. WorkerInv'
    BY <1>e DEF WorkerInv, WorkerOk, Queued
<1>7. AchievedInv'
    BY <1>e, <1>h DEF AchievedInv
<1> QED BY <1>1, <1>2, <1>3, <1>4, <1>5, <1>6, <1>7

\* The worker pool's queue is closed.
LEMMA PoolStopStep ==
  ASSUME StopAssumption, StopInv, PoolStop
  PROVE  StopInv'
<1> USE DEF StopInv
<1>e. /\ main = "poolStop" /\ main' = "poolJoin" /\ poolStopped' = TRUE
      /\ UNCHANGED <<told, answered, queue, stopFlag, exited, next, home, conn, cleaned,
                slot, worker, requests>>
    BY DEF PoolStop, loopVars, connVars
<1>1. ServerTypeOK'
    BY <1>e DEF ServerTypeOK, MainPlace
<1>2. PhaseInv'
    BY <1>e DEF PhaseInv
<1>3. QueueInv'
    BY <1>e DEF QueueInv, CallbackOk
<1>4. OrderInv'
    BY <1>e DEF OrderInv
<1>5. HandInv'
    BY <1>e DEF HandInv, HandOk, Queued
<1>6. WorkerInv'
    BY <1>e DEF WorkerInv, WorkerOk, Queued
<1>7. AchievedInv'
    BY <1>e DEF AchievedInv
<1> QED BY <1>1, <1>2, <1>3, <1>4, <1>5, <1>6, <1>7

\* The workers have ended.
LEMMA PoolJoinStep ==
  ASSUME StopAssumption, StopInv, PoolJoin
  PROVE  StopInv'
<1> USE DEF StopInv
<1>e. /\ main = "poolJoin" /\ main' = "barrier"
      /\ UNCHANGED <<told, answered, queue, stopFlag, exited, next, home, conn, cleaned,
                slot, worker, poolStopped, requests>>
    BY DEF PoolJoin, AfterPool, mainVars, loopVars, connVars, poolVars
<1>j. (\A w \in ServerWorkers : worker[w][1] = "idle")
      /\ \A c \in ServerConns : slot[c] # "queued"
    BY DEF PoolJoin, PoolJoined
<1>s. \A c \in ServerConns : slot[c] = "free"
  <2>1. \A c \in ServerConns : slot[c] \in {"free", "queued", "running"}
      BY DEF ServerTypeOK
  <2>2. \A c \in ServerConns : slot[c] # "running"
      BY <1>j DEF HandInv, HandOk
  <2> QED BY <1>j, <2>1, <2>2
<1>t. told = {} /\ answered = {}
    BY <1>e DEF PhaseInv
<1>1. ServerTypeOK'
    BY <1>e DEF ServerTypeOK, MainPlace
<1>2. PhaseInv'
    BY <1>e DEF PhaseInv
<1>3. QueueInv'
    BY <1>e DEF QueueInv, CallbackOk
<1>4. OrderInv'
    BY <1>e DEF OrderInv
<1>5. HandInv'
    BY <1>e DEF HandInv, HandOk, Queued
<1>6. WorkerInv'
    BY <1>e DEF WorkerInv, WorkerOk, Queued
<1>7. AchievedInv'
    BY <1>e, <1>j, <1>s, <1>t DEF AchievedInv
<1> QED BY <1>1, <1>2, <1>3, <1>4, <1>5, <1>6, <1>7

\* A loop is told to stop.
LEMMA StopLoopStep ==
  ASSUME StopAssumption, StopInv, NEW l \in Loops, StopLoop(l)
  PROVE  StopInv'
<1> USE DEF StopInv
<1>e. /\ main = "loopStop" /\ main' \in {"loopStop", "loopJoin"} /\ stopFlag' = stopFlag \cup {l}
      /\ UNCHANGED <<told, answered, queue, exited, next, home, conn, cleaned, slot, worker,
                poolStopped, requests>>
    BY DEF StopLoop, mainVars, loopVars, connVars, poolVars
<1>1. ServerTypeOK'
    BY <1>e DEF ServerTypeOK, MainPlace
<1>2. PhaseInv'
    BY <1>e DEF PhaseInv
<1>3. QueueInv'
    BY <1>e DEF QueueInv, CallbackOk
<1>4. OrderInv'
    BY <1>e DEF OrderInv
<1>5. HandInv'
    BY <1>e DEF HandInv, HandOk, Queued
<1>6. WorkerInv'
    BY <1>e DEF WorkerInv, WorkerOk, Queued
<1>7. AchievedInv'
    BY <1>e DEF AchievedInv
<1> QED BY <1>1, <1>2, <1>3, <1>4, <1>5, <1>6, <1>7

\* The loops have ended.
LEMMA JoinLoopsStep ==
  ASSUME StopAssumption, StopInv, JoinLoops
  PROVE  StopInv'
<1> USE DEF StopInv
<1>e. /\ main = "loopJoin" /\ main' = "returned"
      /\ UNCHANGED <<told, answered, queue, stopFlag, exited, next, home, conn, cleaned,
                slot, worker, poolStopped, requests>>
    BY DEF JoinLoops, mainVars, loopVars, connVars, poolVars
<1>1. ServerTypeOK'
    BY <1>e DEF ServerTypeOK, MainPlace
<1>2. PhaseInv'
    BY <1>e DEF PhaseInv
<1>3. QueueInv'
    BY <1>e DEF QueueInv, CallbackOk
<1>4. OrderInv'
    BY <1>e DEF OrderInv
<1>5. HandInv'
    BY <1>e DEF HandInv, HandOk, Queued
<1>6. WorkerInv'
    BY <1>e DEF WorkerInv, WorkerOk, Queued
<1>7. AchievedInv'
    BY <1>e DEF AchievedInv
<1> QED BY <1>1, <1>2, <1>3, <1>4, <1>5, <1>6, <1>7

\* A loop's thread leaves.
LEMMA LoopExitStep ==
  ASSUME StopAssumption, StopInv, NEW l \in Loops, LoopExit(l)
  PROVE  StopInv'
<1> USE DEF StopInv
<1>e. /\ l \in stopFlag /\ exited' = exited \cup {l}
      /\ UNCHANGED <<main, told, answered, queue, stopFlag, next, home, conn, cleaned, slot,
                worker, poolStopped, requests>>
    BY DEF LoopExit, mainVars, loopVars, connVars, poolVars
<1>1. ServerTypeOK'
    BY <1>e DEF ServerTypeOK
<1>2. PhaseInv'
    BY <1>e DEF PhaseInv
<1>3. QueueInv'
    BY <1>e DEF QueueInv, CallbackOk
<1>4. OrderInv'
    BY <1>e DEF OrderInv
<1>5. HandInv'
    BY <1>e DEF HandInv, HandOk, Queued
<1>6. WorkerInv'
    BY <1>e DEF WorkerInv, WorkerOk, Queued
<1>7. AchievedInv'
    BY <1>e DEF AchievedInv
<1> QED BY <1>1, <1>2, <1>3, <1>4, <1>5, <1>6, <1>7

\* Nothing changes.
LEMMA IdleStep ==
  ASSUME StopAssumption, StopInv, UNCHANGED serverVars
  PROVE  StopInv'
<1> USE DEF StopInv
<1>e. UNCHANGED <<main, told, answered, queue, stopFlag, exited, next, home, conn, cleaned,
          slot, worker, poolStopped, requests>>
    BY DEF serverVars, mainVars, loopVars, connVars, poolVars
<1>1. ServerTypeOK'
    BY <1>e DEF ServerTypeOK
<1>2. PhaseInv'
    BY <1>e DEF PhaseInv
<1>3. QueueInv'
    BY <1>e DEF QueueInv, CallbackOk
<1>4. OrderInv'
    BY <1>e DEF OrderInv
<1>5. HandInv'
    BY <1>e DEF HandInv, HandOk, Queued
<1>6. WorkerInv'
    BY <1>e DEF WorkerInv, WorkerOk, Queued
<1>7. AchievedInv'
    BY <1>e DEF AchievedInv
<1> QED BY <1>1, <1>2, <1>3, <1>4, <1>5, <1>6, <1>7

-----------------------------------------------------------------------------
(* Requests, tasks and the close of a connection *)

\* A connection whose final callback is queued is closing and has no task.
LEMMA FinalQueued ==
  ASSUME StopInv, NEW c \in ServerConns, Queued("final", c)
  PROVE  conn[c] = "closing" /\ slot[c] = "free"
<1>1. home[c] \in Loops
    BY DEF StopInv, ServerTypeOK
<1>2. PICK i \in 1..Len(queue[home[c]]) : queue[home[c]][i] = <<"final", c>>
    BY DEF Queued
<1>3. CallbackOk(home[c], i)
    BY <1>1 DEF StopInv, QueueInv
<1> QED BY <1>2, <1>3 DEF CallbackOk

\* A request is queued in the pool.
LEMMA RequestStep ==
  ASSUME StopAssumption, StopInv, NEW c \in ServerConns, Request(c)
  PROVE  StopInv'
<1> USE DEF StopInv
<1>t. /\ conn \in [ServerConns -> {"new", "posted", "open", "closing", "closed"}]
      /\ slot \in [ServerConns -> {"free", "queued", "running"}]
      /\ cleaned \in [ServerConns -> Nat] /\ home \in [ServerConns -> Loops]
      /\ worker \in [ServerWorkers -> {<<"idle", "all">>} \cup ({"run", "final",
           "eof"} \X ServerConns)]
      /\ queue \in [Loops -> Seq(Callback)]
    BY DEF ServerTypeOK
<1>q. \A l \in Loops : \A i \in 1..Len(queue[l]) : queue[l][i] \in Callback
    BY <1>t
<1>p. \A l \in Loops : \A i \in 1..Len(queue[l]) :
        queue[l][i][1] \in {"build", "final", "eof"} => queue[l][i][2] \in ServerConns
    BY <1>q, CallbackParts
<1>w. \A w \in ServerWorkers :
        worker[w][1] \in {"run", "final", "eof"} => worker[w][2] \in ServerConns
    BY WorkerParts
<1>e. /\ conn[c] = "open" /\ slot[c] = "free" /\ slot' = [slot EXCEPT ![c] = "queued"]
      /\ UNCHANGED <<main, told, answered, queue, stopFlag, exited, next, home, conn,
                cleaned, worker, poolStopped>>
    BY DEF Request, mainVars, loopVars, connVars
<1>r. requests' \in 0..MaxReq
    BY DEF Request, ServerTypeOK, StopAssumption
<1>s. slot'[c] = "queued" /\ \A d \in ServerConns : d # c => slot'[d] = slot[d]
    BY <1>e, <1>t
<1>f. main \in {"serving", "closeAll"}
    BY <1>e DEF AchievedInv
<1>1. ServerTypeOK'
    BY <1>e, <1>r DEF ServerTypeOK
<1>2. PhaseInv'
    BY <1>e DEF PhaseInv
<1>3. QueueInv'
    BY <1>e, <1>s, <1>p DEF QueueInv, CallbackOk
<1>4. OrderInv'
    BY <1>e DEF OrderInv
<1>5. HandInv'
    BY <1>e, <1>s DEF HandInv, HandOk, Queued
<1>6. WorkerInv'
    BY <1>e, <1>s, <1>w DEF WorkerInv, WorkerOk, Queued
<1>7. AchievedInv'
    BY <1>e, <1>s, <1>f DEF AchievedInv
<1> QED BY <1>1, <1>2, <1>3, <1>4, <1>5, <1>6, <1>7

\* A worker takes a queued task.
LEMMA TakeTaskStep ==
  ASSUME StopAssumption, StopInv, NEW w \in ServerWorkers, NEW c \in ServerConns, TakeTask(w, c)
  PROVE  StopInv'
<1> USE DEF StopInv
<1>t. /\ conn \in [ServerConns -> {"new", "posted", "open", "closing", "closed"}]
      /\ slot \in [ServerConns -> {"free", "queued", "running"}]
      /\ cleaned \in [ServerConns -> Nat] /\ home \in [ServerConns -> Loops]
      /\ worker \in [ServerWorkers -> {<<"idle", "all">>} \cup ({"run", "final",
           "eof"} \X ServerConns)]
      /\ queue \in [Loops -> Seq(Callback)]
    BY DEF ServerTypeOK
<1>q. \A l \in Loops : \A i \in 1..Len(queue[l]) : queue[l][i] \in Callback
    BY <1>t
<1>p. \A l \in Loops : \A i \in 1..Len(queue[l]) :
        queue[l][i][1] \in {"build", "final", "eof"} => queue[l][i][2] \in ServerConns
    BY <1>q, CallbackParts
<1>w. \A r \in ServerWorkers :
        worker[r][1] \in {"run", "final", "eof"} => worker[r][2] \in ServerConns
    BY WorkerParts
<1>e. /\ worker[w][1] = "idle" /\ slot[c] = "queued"
      /\ slot' = [slot EXCEPT ![c] = "running"] /\ worker' = [worker EXCEPT ![w] = <<"run", c>>]
      /\ UNCHANGED <<main, told, answered, queue, stopFlag, exited, next, home, conn,
                cleaned, poolStopped, requests>>
    BY DEF TakeTask, mainVars, loopVars, connVars
<1>s. slot'[c] = "running" /\ \A d \in ServerConns : d # c => slot'[d] = slot[d]
    BY <1>e, <1>t
<1>v. worker'[w] = <<"run", c>> /\ \A v \in ServerWorkers : v # w => worker'[v] = worker[v]
    BY <1>e, <1>t
<1>f. main \in {"serving", "closeAll", "poolStop", "poolJoin"}
    BY <1>e DEF AchievedInv, ServerTypeOK, MainPlace
<1>1. ServerTypeOK'
    BY <1>e DEF ServerTypeOK
<1>2. PhaseInv'
    BY <1>e DEF PhaseInv
<1>3. QueueInv'
    BY <1>e, <1>s, <1>p DEF QueueInv, CallbackOk
<1>4. OrderInv'
    BY <1>e DEF OrderInv
<1>5. HandInv'
  <2> SUFFICES ASSUME NEW d \in ServerConns PROVE HandOk(d)'
      BY DEF HandInv
  <2>u. HandOk(d)
      BY DEF HandInv
  <2>q. \A x \in {"build", "final"} : Queued(x, d) => Queued(x, d)'
      BY <1>e DEF Queued
  <2>1. CASE d = c
      BY <2>u, <2>1, <2>q, <1>e, <1>s, <1>v DEF HandOk
  <2>2. CASE d # c
    <3>1. worker[w] # <<"final", d>> /\ worker[w] # <<"run", d>>
        BY <1>e
    <3>2. \A x \in {"run", "final"} : (\E v \in ServerWorkers : worker[v] = <<x, d>>) =>
             \E v \in ServerWorkers : worker'[v] = <<x, d>>
        BY <3>1, <1>v
    <3> QED BY <2>u, <2>2, <2>q, <3>2, <1>e, <1>s DEF HandOk
  <2> QED BY <2>1, <2>2
<1>6. WorkerInv'
  <2> SUFFICES ASSUME NEW u \in ServerWorkers PROVE WorkerOk(u)'
      BY DEF WorkerInv
  <2>u. WorkerOk(u)
      BY DEF WorkerInv
  <2>1. CASE u = w
    <3>1. \A v \in ServerWorkers : worker[v][1] = "run" => worker[v][2] # c
        BY <1>e DEF WorkerInv, WorkerOk
    <3> QED BY <2>1, <3>1, <1>e, <1>s, <1>v DEF WorkerOk
  <2>2. CASE u # w
    <3>1. worker'[u] = worker[u]
        BY <2>2, <1>v
    <3>2. worker[u][1] \in {"run", "final"} => worker[u][2] # c /\ worker[u][2] \in ServerConns
        BY <2>u, <1>e, <1>w DEF WorkerOk
    <3>3. Queued("final", worker[u][2])' => Queued("final", worker[u][2])
        BY <1>e, <3>1 DEF Queued
    <3>4. worker[u][1] = "eof" => worker[u][2] \in ServerConns
        BY <1>w
    <3>5. \A v \in ServerWorkers : worker'[v] = worker[u] /\ worker[u][1] \in {"run",
                                                               "final"} => v = u
        BY <2>u, <3>2, <1>v DEF WorkerOk
    <3> QED BY <2>u, <3>1, <3>2, <3>3, <3>4, <3>5, <1>e, <1>s DEF WorkerOk
  <2> QED BY <2>1, <2>2
<1>7. AchievedInv'
    BY <1>e, <1>s, <1>f DEF AchievedInv
<1> QED BY <1>1, <1>2, <1>3, <1>4, <1>5, <1>6, <1>7

\* A task ends, and its worker claims a deferred close.
LEMMA TaskDoneStep ==
  ASSUME StopAssumption, StopInv, NEW w \in ServerWorkers, TaskDone(w)
  PROVE  StopInv'
<1> USE DEF StopInv
<1>t. /\ conn \in [ServerConns -> {"new", "posted", "open", "closing", "closed"}]
      /\ slot \in [ServerConns -> {"free", "queued", "running"}]
      /\ cleaned \in [ServerConns -> Nat] /\ home \in [ServerConns -> Loops]
      /\ worker \in [ServerWorkers -> {<<"idle", "all">>} \cup ({"run", "final",
           "eof"} \X ServerConns)]
      /\ queue \in [Loops -> Seq(Callback)]
    BY DEF ServerTypeOK
<1>q. \A l \in Loops : \A i \in 1..Len(queue[l]) : queue[l][i] \in Callback
    BY <1>t
<1>p. \A l \in Loops : \A i \in 1..Len(queue[l]) :
        queue[l][i][1] \in {"build", "final", "eof"} => queue[l][i][2] \in ServerConns
    BY <1>q, CallbackParts
<1>w. \A r \in ServerWorkers :
        worker[r][1] \in {"run", "final", "eof"} => worker[r][2] \in ServerConns
    BY WorkerParts
<1>c. PICK c \in ServerConns : c = worker[w][2]
    BY <1>w DEF TaskDone
<1>k. PICK k \in {"final", "eof"} : k = IF conn[c] = "closing" THEN "final" ELSE "eof"
    OBVIOUS
<1>e. /\ worker[w][1] = "run" /\ c \in ServerConns
      /\ slot' = [slot EXCEPT ![c] = "free"] /\ worker' = [worker EXCEPT ![w] = <<k, c>>]
      /\ UNCHANGED <<main, told, answered, queue, stopFlag, exited, next, home, conn,
                cleaned, poolStopped, requests>>
    BY <1>c, <1>k DEF TaskDone, mainVars, loopVars, connVars
<1>r. slot[c] = "running" /\ conn[c] \in {"open", "closing"}
    BY <1>c, <1>e DEF WorkerInv, WorkerOk, HandInv, HandOk
<1>s. slot'[c] = "free" /\ \A d \in ServerConns : d # c => slot'[d] = slot[d]
    BY <1>e, <1>t
<1>v. worker'[w] = <<k, c>> /\ \A v \in ServerWorkers : v # w => worker'[v] = worker[v]
    BY <1>e, <1>t
<1>f. main \in {"serving", "closeAll", "poolStop", "poolJoin"}
    BY <1>e DEF AchievedInv, ServerTypeOK, MainPlace
<1>n. ~Queued("final", c)
    BY <1>r, FinalQueued
<1>o. \A v \in ServerWorkers : v # w => worker[v] # <<"final", c>> /\ worker[v] # <<"run", c>>
  <2>1. worker[w] = <<"run", c>>
      BY <1>c, <1>e, WorkerParts
  <2> QED BY <1>e, <1>r, <2>1 DEF WorkerInv, WorkerOk
<1>1. ServerTypeOK'
    BY <1>e, <1>k DEF ServerTypeOK
<1>2. PhaseInv'
    BY <1>e DEF PhaseInv
<1>3. QueueInv'
    BY <1>e, <1>s, <1>p DEF QueueInv, CallbackOk
<1>4. OrderInv'
    BY <1>e DEF OrderInv
<1>5. HandInv'
  <2> SUFFICES ASSUME NEW d \in ServerConns PROVE HandOk(d)'
      BY DEF HandInv
  <2>u. HandOk(d)
      BY DEF HandInv
  <2>q. \A x \in {"build", "final"} : Queued(x, d) => Queued(x, d)'
      BY <1>e DEF Queued
  <2>1. CASE d = c
    <3>1. conn[c] = "closing" => worker'[w] = <<"final", c>>
        BY <1>v, <1>k
    <3> QED BY <2>u, <2>1, <2>q, <3>1, <1>e, <1>r, <1>s DEF HandOk
  <2>2. CASE d # c
    <3>1. worker[w] # <<"final", d>> /\ worker[w] # <<"run", d>>
        BY <2>2, <1>c, <1>e
    <3>2. \A x \in {"run", "final"} : (\E v \in ServerWorkers : worker[v] = <<x, d>>) =>
             \E v \in ServerWorkers : worker'[v] = <<x, d>>
        BY <3>1, <1>v
    <3> QED BY <2>u, <2>2, <2>q, <3>2, <1>e, <1>s DEF HandOk
  <2> QED BY <2>1, <2>2
<1>6. WorkerInv'
  <2> SUFFICES ASSUME NEW u \in ServerWorkers PROVE WorkerOk(u)'
      BY DEF WorkerInv
  <2>u. WorkerOk(u)
      BY DEF WorkerInv
  <2>n. ~Queued("final", c)'
      BY <1>n, <1>e DEF Queued
  <2>1. CASE u = w
      BY <2>1, <2>n, <1>e, <1>k, <1>o, <1>r, <1>s, <1>v DEF WorkerOk
  <2>2. CASE u # w
    <3>1. worker'[u] = worker[u]
        BY <2>2, <1>v
    <3>2. worker[u][1] \in {"run", "final"} => worker[u][2] # c /\ worker[u][2] \in ServerConns
        BY <2>2, <1>o, <1>w, WorkerParts
    <3>3. Queued("final", worker[u][2])' => Queued("final", worker[u][2])
        BY <1>e, <3>1 DEF Queued
    <3>4. worker[u][1] = "eof" => worker[u][2] \in ServerConns
        BY <1>w
    <3>5. \A v \in ServerWorkers : worker'[v] = worker[u] /\ worker[u][1] \in {"run",
                                                               "final"} => v = u
        BY <2>u, <3>2, <1>v DEF WorkerOk
    <3> QED BY <2>u, <3>1, <3>2, <3>3, <3>4, <3>5, <1>e, <1>s DEF WorkerOk
  <2> QED BY <2>1, <2>2
<1>7. AchievedInv'
    BY <1>e, <1>s, <1>f DEF AchievedInv
<1> QED BY <1>1, <1>2, <1>3, <1>4, <1>5, <1>6, <1>7

\* handleClose() of the connections in S: the open ones are closed, or wait for
\* their task.
LEMMA CloseEffect ==
  ASSUME ServerTypeOK, NEW S \in SUBSET ServerConns, CloseOpen(S)
  PROVE  /\ conn' \in [ServerConns -> {"new", "posted", "open", "closing", "closed"}]
         /\ cleaned' \in [ServerConns -> Nat]
         /\ \A c \in ServerConns :
              \/ conn'[c] = conn[c] /\ cleaned'[c] = cleaned[c] /\ (c \in S => conn[c] # "open")
              \/ /\ c \in S /\ conn[c] = "open" /\ slot[c] = "free"
                 /\ conn'[c] = "closed" /\ cleaned'[c] = cleaned[c] + 1
              \/ /\ c \in S /\ conn[c] = "open" /\ slot[c] # "free"
                 /\ conn'[c] = "closing" /\ cleaned'[c] = cleaned[c]
<1>1. conn' \in [ServerConns -> {"new", "posted", "open", "closing", "closed"}]
    BY DEF CloseOpen, ServerTypeOK
<1>2. cleaned' \in [ServerConns -> Nat]
    BY DEF CloseOpen, ServerTypeOK
<1>3. ASSUME NEW c \in ServerConns
      PROVE  \/ conn'[c] = conn[c] /\ cleaned'[c] = cleaned[c] /\ (c \in S => conn[c] # "open")
             \/ /\ c \in S /\ conn[c] = "open" /\ slot[c] = "free"
                /\ conn'[c] = "closed" /\ cleaned'[c] = cleaned[c] + 1
             \/ /\ c \in S /\ conn[c] = "open" /\ slot[c] # "free"
                /\ conn'[c] = "closing" /\ cleaned'[c] = cleaned[c]
  <2>1. CASE c \in S /\ conn[c] = "open" /\ slot[c] = "free"
      BY <2>1 DEF CloseOpen
  <2>2. CASE c \in S /\ conn[c] = "open" /\ slot[c] # "free"
      BY <2>2 DEF CloseOpen
  <2>3. CASE ~(c \in S /\ conn[c] = "open")
      BY <2>3 DEF CloseOpen
  <2> QED BY <2>1, <2>2, <2>3
<1> QED BY <1>1, <1>2, <1>3

\* The network closes a connection.
LEMMA NetworkCloseStep ==
  ASSUME StopAssumption, StopInv, NEW c \in ServerConns, NetworkClose(c)
  PROVE  StopInv'
<1> USE DEF StopInv
<1>t. /\ conn \in [ServerConns -> {"new", "posted", "open", "closing", "closed"}]
      /\ slot \in [ServerConns -> {"free", "queued", "running"}]
      /\ cleaned \in [ServerConns -> Nat] /\ home \in [ServerConns -> Loops]
      /\ worker \in [ServerWorkers -> {<<"idle", "all">>} \cup ({"run", "final",
           "eof"} \X ServerConns)]
      /\ queue \in [Loops -> Seq(Callback)]
    BY DEF ServerTypeOK
<1>q. \A l \in Loops : \A i \in 1..Len(queue[l]) : queue[l][i] \in Callback
    BY <1>t
<1>p. \A l \in Loops : \A i \in 1..Len(queue[l]) :
        queue[l][i][1] \in {"build", "final", "eof"} => queue[l][i][2] \in ServerConns
    BY <1>q, CallbackParts
<1>w. \A w \in ServerWorkers :
        worker[w][1] \in {"run", "final", "eof"} => worker[w][2] \in ServerConns
    BY WorkerParts
<1>e. /\ CloseOpen({c})
      /\ UNCHANGED <<main, told, answered, queue, stopFlag, exited, next, home, slot,
                worker, poolStopped, requests>>
    BY DEF NetworkClose, mainVars, loopVars, poolVars
<1>c. /\ conn' \in [ServerConns -> {"new", "posted", "open", "closing", "closed"}]
      /\ cleaned' \in [ServerConns -> Nat]
    BY <1>e, CloseEffect
<1>d. \A d \in ServerConns :
        \/ conn'[d] = conn[d] /\ cleaned'[d] = cleaned[d]
        \/ /\ conn[d] = "open" /\ slot[d] = "free"
           /\ conn'[d] = "closed" /\ cleaned'[d] = cleaned[d] + 1
        \/ /\ conn[d] = "open" /\ slot[d] # "free"
           /\ conn'[d] = "closing" /\ cleaned'[d] = cleaned[d]
    BY <1>e, CloseEffect
<1>x. \A y, d : Queued(y, d)' <=> Queued(y, d)
    BY <1>e DEF Queued
<1>1. ServerTypeOK'
    BY <1>e, <1>c DEF ServerTypeOK
<1>2. PhaseInv'
    BY <1>e DEF PhaseInv
<1>3. QueueInv'
    BY <1>e, <1>d, <1>p DEF QueueInv, CallbackOk
<1>4. OrderInv'
    BY <1>e DEF OrderInv
<1>5. HandInv'
  <2> SUFFICES ASSUME NEW d \in ServerConns PROVE HandOk(d)'
      BY DEF HandInv
  <2>u. HandOk(d)
      BY DEF HandInv
  <2> QED BY <2>u, <1>d, <1>e, <1>x DEF HandOk
<1>6. WorkerInv'
  <2> SUFFICES ASSUME NEW u \in ServerWorkers PROVE WorkerOk(u)'
      BY DEF WorkerInv
  <2>u. WorkerOk(u)
      BY DEF WorkerInv
  <2> QED BY <2>u, <1>d, <1>e, <1>w, <1>x DEF WorkerOk
<1>7. AchievedInv'
    BY <1>e, <1>d DEF AchievedInv
<1> QED BY <1>1, <1>2, <1>3, <1>4, <1>5, <1>6, <1>7

-----------------------------------------------------------------------------
(* The loops' callbacks *)

\* A loop takes its first callback: the others keep their order, and the one that
\* was taken is gone, unless it was an end-of-file check.
LEMMA TakeStep ==
  ASSUME StopInv, NEW l \in Loops, queue[l] # <<>>,
         queue' = [queue EXCEPT ![l] = Tail(@)], home' = home
  PROVE  /\ queue' \in [Loops -> Seq(Callback)]
         /\ 1 \in 1..Len(queue[l]) /\ Head(queue[l]) = queue[l][1] /\ queue[l][1] \in Callback
         /\ OrderInv'
         /\ \A m \in Loops : \A i \in 1..Len(queue'[m]) : \E j \in 1..Len(queue[m]) :
              /\ queue'[m][i] = queue[m][j]
              /\ j = Len(queue[m]) => i = Len(queue'[m])
              /\ m = l /\ queue[m][j][1] # "eof" => queue[m][j] # queue[l][1]
         /\ \A c \in ServerConns, x \in {"build", "final"} :
              /\ Queued(x, c) => queue[l][1] = <<x, c>> \/ Queued(x, c)'
              /\ Queued(x, c)' => Queued(x, c)
         /\ \A m \in Loops : queue[m] = <<>> => queue'[m] = <<>>
         /\ queue[l][1][1] = "barrier" => queue'[l] = <<>>
<1>t. queue \in [Loops -> Seq(Callback)] /\ home \in [ServerConns -> Loops]
    BY DEF StopInv, ServerTypeOK
<1>1. /\ queue' \in [Loops -> Seq(Callback)] /\ Head(queue[l]) = queue[l][1]
      /\ 1 \in 1..Len(queue[l]) /\ queue[l][1] \in Callback
      /\ Len(queue[l]) \in Nat /\ Len(queue'[l]) = Len(queue[l]) - 1
      /\ \A m \in Loops : m # l => queue'[m] = queue[m]
      /\ \A i \in 1..Len(queue'[l]) : i + 1 \in 1..Len(queue[l]) /\ queue'[l][i] = queue[l][i + 1]
      /\ \A i \in 1..Len(queue[l]) :
           i = 1 \/ (i - 1 \in 1..Len(queue'[l]) /\ queue'[l][i - 1] = queue[l][i])
    BY <1>t, TakeQueue
<1>o. \A m \in Loops : \A i, j \in 1..Len(queue[m]) :
        /\ queue[m][i] = queue[m][j] /\ queue[m][i][1] # "eof" => i = j
        /\ queue[m][i][1] = "build" /\ queue[m][j][1] = "closeAll" => i < j
    BY DEF StopInv, OrderInv
<1>2. OrderInv'
  <2> SUFFICES ASSUME NEW m \in Loops, NEW i \in 1..Len(queue'[m]), NEW j \in 1..Len(queue'[m])
               PROVE  /\ queue'[m][i] = queue'[m][j] /\ queue'[m][i][1] # "eof" => i = j
                      /\ queue'[m][i][1] = "build" /\ queue'[m][j][1] = "closeAll" => i < j
      BY DEF OrderInv
  <2>1. CASE m = l
    <3>1. /\ i + 1 \in 1..Len(queue[l]) /\ queue'[l][i] = queue[l][i + 1]
          /\ j + 1 \in 1..Len(queue[l]) /\ queue'[l][j] = queue[l][j + 1]
        BY <2>1, <1>1
    <3>2. i + 1 = j + 1 => i = j
        OBVIOUS
    <3>3. i + 1 < j + 1 => i < j
        OBVIOUS
    <3> QED BY <2>1, <3>1, <3>2, <3>3, <1>o
  <2>2. CASE m # l
      BY <2>2, <1>1, <1>o
  <2> QED BY <2>1, <2>2
<1>3. ASSUME NEW m \in Loops, NEW i \in 1..Len(queue'[m])
      PROVE  \E j \in 1..Len(queue[m]) :
               /\ queue'[m][i] = queue[m][j]
               /\ j = Len(queue[m]) => i = Len(queue'[m])
               /\ m = l /\ queue[m][j][1] # "eof" => queue[m][j] # queue[l][1]
  <2>1. CASE m = l
    <3>1. i + 1 \in 1..Len(queue[l]) /\ queue'[l][i] = queue[l][i + 1] /\ i + 1 # 1
        BY <2>1, <1>1
    <3>2. i + 1 = Len(queue[l]) => i = Len(queue'[l])
      <4>1. i \in Int /\ Len(queue[l]) \in Nat /\ Len(queue'[l]) = Len(queue[l]) - 1
          BY <1>1
      <4> QED BY <4>1
    <3>3. queue[l][i + 1][1] # "eof" => queue[l][i + 1] # queue[l][1]
        BY <3>1, <1>o, <1>1
    <3> QED BY <2>1, <3>1, <3>2, <3>3
  <2>2. CASE m # l
      BY <2>2, <1>1
  <2> QED BY <2>1, <2>2
<1>4. ASSUME NEW c \in ServerConns, NEW x \in {"build", "final"}
      PROVE  /\ Queued(x, c) => queue[l][1] = <<x, c>> \/ Queued(x, c)'
             /\ Queued(x, c)' => Queued(x, c)
  <2>h. home[c] \in Loops
      BY <1>t
  <2>1. CASE home[c] = l
    <3>1. ASSUME NEW i \in 1..Len(queue[l]), queue[l][i] = <<x, c>>
          PROVE  queue[l][1] = <<x, c>> \/ Queued(x, c)'
      <4>1. CASE i = 1
          BY <3>1, <4>1
      <4>2. CASE i # 1
        <5>1. i - 1 \in 1..Len(queue'[l]) /\ queue'[l][i - 1] = <<x, c>>
            BY <3>1, <4>2, <1>1
        <5> QED BY <2>1, <5>1 DEF Queued
      <4> QED BY <4>1, <4>2
    <3>2. ASSUME NEW i \in 1..Len(queue'[l]), queue'[l][i] = <<x, c>>
          PROVE  Queued(x, c)
        BY <2>1, <3>2, <1>1 DEF Queued
    <3> QED BY <2>1, <3>1, <3>2 DEF Queued
  <2>2. CASE home[c] # l
      BY <2>2, <2>h, <1>1 DEF Queued
  <2> QED BY <2>1, <2>2
<1>5. ASSUME NEW m \in Loops, queue[m] = <<>> PROVE queue'[m] = <<>>
    BY <1>5, <1>1
<1>6. ASSUME queue[l][1][1] = "barrier" PROVE queue'[l] = <<>>
  <2>1. 1 = Len(queue[l])
      BY <1>6, <1>1 DEF StopInv, QueueInv, CallbackOk
  <2>2. queue'[l] \in Seq(Callback) /\ Len(queue'[l]) = 0
      BY <2>1, <1>1
  <2> QED BY <2>2
<1> QED BY <1>1, <1>2, <1>3, <1>4, <1>5, <1>6

\* A connection is built.
LEMMA RunBuild ==
  ASSUME StopAssumption, StopInv, NEW l \in Loops, RunCallback(l), Head(queue[l])[1] = "build"
  PROVE  StopInv'
<1> USE DEF StopInv
<1>t. /\ conn \in [ServerConns -> {"new", "posted", "open", "closing", "closed"}]
      /\ slot \in [ServerConns -> {"free", "queued", "running"}]
      /\ cleaned \in [ServerConns -> Nat] /\ home \in [ServerConns -> Loops]
      /\ worker \in [ServerWorkers -> {<<"idle", "all">>} \cup ({"run", "final",
           "eof"} \X ServerConns)]
      /\ queue \in [Loops -> Seq(Callback)]
    BY DEF ServerTypeOK
<1>q. \A m \in Loops : \A i \in 1..Len(queue[m]) : queue[m][i] \in Callback
    BY <1>t
<1>p. \A m \in Loops : \A i \in 1..Len(queue[m]) :
        queue[m][i][1] \in {"build", "final", "eof"} => queue[m][i][2] \in ServerConns
    BY <1>q, CallbackParts
<1>w. \A w \in ServerWorkers :
        worker[w][1] \in {"run", "final", "eof"} => worker[w][2] \in ServerConns
    BY WorkerParts
<1>e. /\ queue[l] # <<>> /\ queue' = [queue EXCEPT ![l] = Tail(@)]
      /\ UNCHANGED <<main, told, stopFlag, exited, next, home, slot, worker, poolStopped,
                requests>>
    BY DEF RunCallback, poolVars
<1>k. /\ queue' \in [Loops -> Seq(Callback)]
      /\ 1 \in 1..Len(queue[l]) /\ Head(queue[l]) = queue[l][1] /\ queue[l][1] \in Callback
      /\ OrderInv'
    BY <1>e, TakeStep
<1>j. \A m \in Loops : \A i \in 1..Len(queue'[m]) : \E j \in 1..Len(queue[m]) :
        /\ queue'[m][i] = queue[m][j]
        /\ j = Len(queue[m]) => i = Len(queue'[m])
        /\ m = l /\ queue[m][j][1] # "eof" => queue[m][j] # queue[l][1]
    BY <1>e, TakeStep
<1>x. \A d \in ServerConns, x \in {"build", "final"} :
        /\ Queued(x, d) => queue[l][1] = <<x, d>> \/ Queued(x, d)'
        /\ Queued(x, d)' => Queued(x, d)
    BY <1>e, TakeStep
<1>y. \A m \in Loops : queue[m] = <<>> => queue'[m] = <<>>
    BY <1>e, TakeStep
<1>b. CallbackOk(l, 1)
    BY <1>k DEF QueueInv
<1>c. PICK c \in ServerConns : queue[l][1] = <<"build", c>>
    BY <1>k, CallbackParts
<1>f. /\ conn' = [conn EXCEPT ![c] = "open"] /\ UNCHANGED <<answered, cleaned>>
    BY <1>c, <1>k DEF RunCallback
<1>g. conn[c] = "posted" /\ home[c] = l
    BY <1>b, <1>c DEF CallbackOk
<1>n. conn'[c] = "open" /\ \A d \in ServerConns : d # c => conn'[d] = conn[d]
    BY <1>f, <1>t
<1>m. main \in {"serving", "closeAll"} /\ (main = "closeAll" => l \notin answered)
    BY <1>g DEF AchievedInv
<1>1. ServerTypeOK'
    BY <1>e, <1>f, <1>k DEF ServerTypeOK
<1>2. PhaseInv'
    BY <1>e, <1>f DEF PhaseInv
<1>3. QueueInv'
  <2> SUFFICES ASSUME NEW m \in Loops, NEW i \in 1..Len(queue'[m]) PROVE CallbackOk(m, i)'
      BY DEF QueueInv
  <2>1. PICK j \in 1..Len(queue[m]) :
          /\ queue'[m][i] = queue[m][j]
          /\ j = Len(queue[m]) => i = Len(queue'[m])
          /\ m = l /\ queue[m][j][1] # "eof" => queue[m][j] # queue[l][1]
      BY <1>j
  <2>2. CallbackOk(m, j) /\ queue[m][j] \in Callback
      BY <1>t DEF QueueInv
  <2>3. /\ queue[m][j][1] \in {"build", "final", "eof"} => queue[m][j][2] \in ServerConns
        /\ queue[m][j] = <<queue[m][j][1], queue[m][j][2]>>
      BY <2>2, CallbackParts
  <2>4. queue[m][j][1] \in {"build", "final", "eof"} => queue[m][j][2] # c
    <3>1. queue[m][j] # <<"build", c>>
        BY <2>1, <2>2, <1>c, <1>g DEF CallbackOk
    <3> QED BY <2>2, <2>3, <3>1, <1>g DEF CallbackOk
  <2> QED BY <2>1, <2>2, <2>3, <2>4, <1>e, <1>f, <1>n DEF CallbackOk
<1>4. OrderInv'
    BY <1>k
<1>5. HandInv'
  <2> SUFFICES ASSUME NEW d \in ServerConns PROVE HandOk(d)'
      BY DEF HandInv
  <2>u. HandOk(d)
      BY DEF HandInv
  <2>1. CASE d = c
      BY <2>1, <2>u, <1>e, <1>f, <1>g, <1>n DEF HandOk
  <2>2. CASE d # c
    <3>1. \A x \in {"build", "final"} : Queued(x, d) => Queued(x, d)'
        BY <2>2, <1>c, <1>x
    <3> QED BY <2>2, <2>u, <3>1, <1>e, <1>f, <1>n DEF HandOk
  <2> QED BY <2>1, <2>2
<1>6. WorkerInv'
  <2> SUFFICES ASSUME NEW u \in ServerWorkers PROVE WorkerOk(u)'
      BY DEF WorkerInv
  <2>u. WorkerOk(u)
      BY DEF WorkerInv
  <2>x. worker[u][1] \in {"run", "final", "eof"} =>
          worker[u][2] \in ServerConns /\ (Queued("final", worker[u][2])' => Queued("final",
                    worker[u][2]))
      BY <1>x, <1>e, <1>w
  <2> QED BY <2>u, <2>x, <1>e, <1>f, <1>g, <1>n DEF WorkerOk
<1>7. AchievedInv'
    BY <1>e, <1>f, <1>g, <1>m, <1>n DEF AchievedInv
<1> QED BY <1>1, <1>2, <1>3, <1>4, <1>5, <1>6, <1>7

\* The final callback cleans a connection up.
LEMMA RunFinal ==
  ASSUME StopAssumption, StopInv, NEW l \in Loops, RunCallback(l), Head(queue[l])[1] = "final"
  PROVE  StopInv'
<1> USE DEF StopInv
<1>t. /\ conn \in [ServerConns -> {"new", "posted", "open", "closing", "closed"}]
      /\ slot \in [ServerConns -> {"free", "queued", "running"}]
      /\ cleaned \in [ServerConns -> Nat] /\ home \in [ServerConns -> Loops]
      /\ worker \in [ServerWorkers -> {<<"idle", "all">>} \cup ({"run", "final",
           "eof"} \X ServerConns)]
      /\ queue \in [Loops -> Seq(Callback)]
    BY DEF ServerTypeOK
<1>q. \A m \in Loops : \A i \in 1..Len(queue[m]) : queue[m][i] \in Callback
    BY <1>t
<1>p. \A m \in Loops : \A i \in 1..Len(queue[m]) :
        queue[m][i][1] \in {"build", "final", "eof"} => queue[m][i][2] \in ServerConns
    BY <1>q, CallbackParts
<1>w. \A w \in ServerWorkers :
        worker[w][1] \in {"run", "final", "eof"} => worker[w][2] \in ServerConns
    BY WorkerParts
<1>e. /\ queue[l] # <<>> /\ queue' = [queue EXCEPT ![l] = Tail(@)]
      /\ UNCHANGED <<main, told, stopFlag, exited, next, home, slot, worker, poolStopped,
                requests>>
    BY DEF RunCallback, poolVars
<1>k. /\ queue' \in [Loops -> Seq(Callback)]
      /\ 1 \in 1..Len(queue[l]) /\ Head(queue[l]) = queue[l][1] /\ queue[l][1] \in Callback
      /\ OrderInv'
    BY <1>e, TakeStep
<1>j. \A m \in Loops : \A i \in 1..Len(queue'[m]) : \E j \in 1..Len(queue[m]) :
        /\ queue'[m][i] = queue[m][j]
        /\ j = Len(queue[m]) => i = Len(queue'[m])
        /\ m = l /\ queue[m][j][1] # "eof" => queue[m][j] # queue[l][1]
    BY <1>e, TakeStep
<1>x. \A d \in ServerConns, x \in {"build", "final"} :
        /\ Queued(x, d) => queue[l][1] = <<x, d>> \/ Queued(x, d)'
        /\ Queued(x, d)' => Queued(x, d)
    BY <1>e, TakeStep
<1>y. \A m \in Loops : queue[m] = <<>> => queue'[m] = <<>>
    BY <1>e, TakeStep
<1>b. CallbackOk(l, 1)
    BY <1>k DEF QueueInv
<1>c. PICK c \in ServerConns : queue[l][1] = <<"final", c>>
    BY <1>k, CallbackParts
<1>f. /\ conn' = [conn EXCEPT ![c] = "closed"] /\ cleaned' = [cleaned EXCEPT ![c] = @ + 1]
      /\ answered' = answered
    BY <1>c, <1>k DEF RunCallback
<1>g. conn[c] = "closing" /\ home[c] = l /\ slot[c] = "free"
    BY <1>b, <1>c DEF CallbackOk
<1>n. /\ conn'[c] = "closed" /\ cleaned'[c] = cleaned[c] + 1
      /\ \A d \in ServerConns : d # c => conn'[d] = conn[d] /\ cleaned'[d] = cleaned[d]
    BY <1>f, <1>t
<1>z. Queued("final", c)
    BY <1>c, <1>g, <1>k DEF Queued
<1>1. ServerTypeOK'
    BY <1>e, <1>f, <1>k DEF ServerTypeOK
<1>2. PhaseInv'
    BY <1>e, <1>f DEF PhaseInv
<1>3. QueueInv'
  <2> SUFFICES ASSUME NEW m \in Loops, NEW i \in 1..Len(queue'[m]) PROVE CallbackOk(m, i)'
      BY DEF QueueInv
  <2>1. PICK j \in 1..Len(queue[m]) :
          /\ queue'[m][i] = queue[m][j]
          /\ j = Len(queue[m]) => i = Len(queue'[m])
          /\ m = l /\ queue[m][j][1] # "eof" => queue[m][j] # queue[l][1]
      BY <1>j
  <2>2. CallbackOk(m, j) /\ queue[m][j] \in Callback
      BY <1>t DEF QueueInv
  <2>3. /\ queue[m][j][1] \in {"build", "final", "eof"} => queue[m][j][2] \in ServerConns
        /\ queue[m][j] = <<queue[m][j][1], queue[m][j][2]>>
      BY <2>2, CallbackParts
  <2>4. queue[m][j][1] \in {"build", "final"} => queue[m][j][2] # c
    <3>1. queue[m][j] # <<"final", c>>
        BY <2>1, <2>2, <1>c, <1>g DEF CallbackOk
    <3> QED BY <2>2, <2>3, <3>1, <1>g DEF CallbackOk
  <2> QED BY <2>1, <2>2, <2>3, <2>4, <1>e, <1>f, <1>n DEF CallbackOk
<1>4. OrderInv'
    BY <1>k
<1>5. HandInv'
  <2> SUFFICES ASSUME NEW d \in ServerConns PROVE HandOk(d)'
      BY DEF HandInv
  <2>u. HandOk(d)
      BY DEF HandInv
  <2>1. CASE d = c
    <3>1. cleaned[c] = 0
        BY <2>1, <2>u, <1>g DEF HandOk
    <3> QED BY <2>1, <3>1, <1>e, <1>g, <1>n DEF HandOk
  <2>2. CASE d # c
    <3>1. \A x \in {"build", "final"} : Queued(x, d) => Queued(x, d)'
        BY <2>2, <1>c, <1>x
    <3> QED BY <2>2, <2>u, <3>1, <1>e, <1>n DEF HandOk
  <2> QED BY <2>1, <2>2
<1>6. WorkerInv'
  <2> SUFFICES ASSUME NEW u \in ServerWorkers PROVE WorkerOk(u)'
      BY DEF WorkerInv
  <2>u. WorkerOk(u)
      BY DEF WorkerInv
  <2>x. worker[u][1] \in {"run", "final", "eof"} =>
          worker[u][2] \in ServerConns /\ (Queued("final", worker[u][2])' => Queued("final",
                    worker[u][2]))
      BY <1>x, <1>e, <1>w
  <2>1. worker[u][1] = "final" => worker[u][2] # c
      BY <2>u, <1>z DEF WorkerOk
  <2> QED BY <2>u, <2>x, <2>1, <1>e, <1>n DEF WorkerOk
<1>7. AchievedInv'
  <2>1. \A d \in ServerConns : conn'[d] \in {"posted", "open"} => conn[d] \in {"posted", "open"}
      BY <1>n
  <2>2. \A m \in answered : m \in Loops
      BY DEF ServerTypeOK
  <2> QED BY <2>1, <2>2, <1>e, <1>f, <1>y DEF AchievedInv
<1> QED BY <1>1, <1>2, <1>3, <1>4, <1>5, <1>6, <1>7

\* The end-of-file check changes nothing here.
LEMMA RunEof ==
  ASSUME StopAssumption, StopInv, NEW l \in Loops, RunCallback(l), Head(queue[l])[1] = "eof"
  PROVE  StopInv'
<1> USE DEF StopInv
<1>t. /\ conn \in [ServerConns -> {"new", "posted", "open", "closing", "closed"}]
      /\ slot \in [ServerConns -> {"free", "queued", "running"}]
      /\ cleaned \in [ServerConns -> Nat] /\ home \in [ServerConns -> Loops]
      /\ worker \in [ServerWorkers -> {<<"idle", "all">>} \cup ({"run", "final",
           "eof"} \X ServerConns)]
      /\ queue \in [Loops -> Seq(Callback)]
    BY DEF ServerTypeOK
<1>q. \A m \in Loops : \A i \in 1..Len(queue[m]) : queue[m][i] \in Callback
    BY <1>t
<1>p. \A m \in Loops : \A i \in 1..Len(queue[m]) :
        queue[m][i][1] \in {"build", "final", "eof"} => queue[m][i][2] \in ServerConns
    BY <1>q, CallbackParts
<1>w. \A w \in ServerWorkers :
        worker[w][1] \in {"run", "final", "eof"} => worker[w][2] \in ServerConns
    BY WorkerParts
<1>e. /\ queue[l] # <<>> /\ queue' = [queue EXCEPT ![l] = Tail(@)]
      /\ UNCHANGED <<main, told, stopFlag, exited, next, home, slot, worker, poolStopped,
                requests>>
    BY DEF RunCallback, poolVars
<1>k. /\ queue' \in [Loops -> Seq(Callback)]
      /\ 1 \in 1..Len(queue[l]) /\ Head(queue[l]) = queue[l][1] /\ queue[l][1] \in Callback
      /\ OrderInv'
    BY <1>e, TakeStep
<1>j. \A m \in Loops : \A i \in 1..Len(queue'[m]) : \E j \in 1..Len(queue[m]) :
        /\ queue'[m][i] = queue[m][j]
        /\ j = Len(queue[m]) => i = Len(queue'[m])
        /\ m = l /\ queue[m][j][1] # "eof" => queue[m][j] # queue[l][1]
    BY <1>e, TakeStep
<1>x. \A d \in ServerConns, x \in {"build", "final"} :
        /\ Queued(x, d) => queue[l][1] = <<x, d>> \/ Queued(x, d)'
        /\ Queued(x, d)' => Queued(x, d)
    BY <1>e, TakeStep
<1>y. \A m \in Loops : queue[m] = <<>> => queue'[m] = <<>>
    BY <1>e, TakeStep
<1>b. CallbackOk(l, 1)
    BY <1>k DEF QueueInv
<1>f. UNCHANGED <<answered, conn, cleaned>>
    BY <1>k DEF RunCallback
<1>n. \A d \in ServerConns, x \in {"build", "final"} : Queued(x, d) => Queued(x, d)'
    BY <1>k, <1>x
<1>1. ServerTypeOK'
    BY <1>e, <1>f, <1>k DEF ServerTypeOK
<1>2. PhaseInv'
    BY <1>e, <1>f DEF PhaseInv
<1>3. QueueInv'
  <2> SUFFICES ASSUME NEW m \in Loops, NEW i \in 1..Len(queue'[m]) PROVE CallbackOk(m, i)'
      BY DEF QueueInv
  <2>1. PICK j \in 1..Len(queue[m]) :
          /\ queue'[m][i] = queue[m][j]
          /\ j = Len(queue[m]) => i = Len(queue'[m])
          /\ m = l /\ queue[m][j][1] # "eof" => queue[m][j] # queue[l][1]
      BY <1>j
  <2>2. CallbackOk(m, j) /\ queue[m][j] \in Callback
      BY <1>t DEF QueueInv
  <2>3. /\ queue[m][j][1] \in {"build", "final", "eof"} => queue[m][j][2] \in ServerConns
        /\ queue[m][j] = <<queue[m][j][1], queue[m][j][2]>>
      BY <2>2, CallbackParts
  <2> QED BY <2>1, <2>2, <1>e, <1>f DEF CallbackOk
<1>4. OrderInv'
    BY <1>k
<1>5. HandInv'
  <2> SUFFICES ASSUME NEW d \in ServerConns PROVE HandOk(d)'
      BY DEF HandInv
  <2>u. HandOk(d)
      BY DEF HandInv
  <2> QED BY <2>u, <1>e, <1>f, <1>n DEF HandOk
<1>6. WorkerInv'
  <2> SUFFICES ASSUME NEW u \in ServerWorkers PROVE WorkerOk(u)'
      BY DEF WorkerInv
  <2>u. WorkerOk(u)
      BY DEF WorkerInv
  <2>x. worker[u][1] \in {"run", "final", "eof"} =>
          worker[u][2] \in ServerConns /\ (Queued("final", worker[u][2])' => Queued("final",
                    worker[u][2]))
      BY <1>x, <1>e, <1>w
  <2> QED BY <2>u, <2>x, <1>e, <1>f DEF WorkerOk
<1>7. AchievedInv'
  <2>2. \A m \in answered : m \in Loops
      BY DEF ServerTypeOK
  <2> QED BY <2>2, <1>e, <1>f, <1>y DEF AchievedInv
<1> QED BY <1>1, <1>2, <1>3, <1>4, <1>5, <1>6, <1>7

\* The barrier is the last callback of its loop.
LEMMA RunBarrier ==
  ASSUME StopAssumption, StopInv, NEW l \in Loops, RunCallback(l), Head(queue[l])[1] = "barrier"
  PROVE  StopInv'
<1> USE DEF StopInv
<1>t. /\ conn \in [ServerConns -> {"new", "posted", "open", "closing", "closed"}]
      /\ slot \in [ServerConns -> {"free", "queued", "running"}]
      /\ cleaned \in [ServerConns -> Nat] /\ home \in [ServerConns -> Loops]
      /\ worker \in [ServerWorkers -> {<<"idle", "all">>} \cup ({"run", "final",
           "eof"} \X ServerConns)]
      /\ queue \in [Loops -> Seq(Callback)]
    BY DEF ServerTypeOK
<1>q. \A m \in Loops : \A i \in 1..Len(queue[m]) : queue[m][i] \in Callback
    BY <1>t
<1>p. \A m \in Loops : \A i \in 1..Len(queue[m]) :
        queue[m][i][1] \in {"build", "final", "eof"} => queue[m][i][2] \in ServerConns
    BY <1>q, CallbackParts
<1>w. \A w \in ServerWorkers :
        worker[w][1] \in {"run", "final", "eof"} => worker[w][2] \in ServerConns
    BY WorkerParts
<1>e. /\ queue[l] # <<>> /\ queue' = [queue EXCEPT ![l] = Tail(@)]
      /\ UNCHANGED <<main, told, stopFlag, exited, next, home, slot, worker, poolStopped,
                requests>>
    BY DEF RunCallback, poolVars
<1>k. /\ queue' \in [Loops -> Seq(Callback)]
      /\ 1 \in 1..Len(queue[l]) /\ Head(queue[l]) = queue[l][1] /\ queue[l][1] \in Callback
      /\ OrderInv'
    BY <1>e, TakeStep
<1>j. \A m \in Loops : \A i \in 1..Len(queue'[m]) : \E j \in 1..Len(queue[m]) :
        /\ queue'[m][i] = queue[m][j]
        /\ j = Len(queue[m]) => i = Len(queue'[m])
        /\ m = l /\ queue[m][j][1] # "eof" => queue[m][j] # queue[l][1]
    BY <1>e, TakeStep
<1>x. \A d \in ServerConns, x \in {"build", "final"} :
        /\ Queued(x, d) => queue[l][1] = <<x, d>> \/ Queued(x, d)'
        /\ Queued(x, d)' => Queued(x, d)
    BY <1>e, TakeStep
<1>y. \A m \in Loops : queue[m] = <<>> => queue'[m] = <<>>
    BY <1>e, TakeStep
<1>b. CallbackOk(l, 1)
    BY <1>k DEF QueueInv
<1>f. UNCHANGED <<conn, cleaned>> /\ answered' = answered \cup {l}
    BY <1>k DEF RunCallback
<1>g. main = "barrier" /\ l \in told
    BY <1>b, <1>k DEF CallbackOk
<1>z. queue'[l] = <<>>
    BY <1>e, <1>k, TakeStep
<1>n. \A d \in ServerConns, x \in {"build", "final"} : Queued(x, d) => Queued(x, d)'
    BY <1>k, <1>x
<1>1. ServerTypeOK'
    BY <1>e, <1>f, <1>k DEF ServerTypeOK
<1>2. PhaseInv'
    BY <1>e, <1>f, <1>g DEF PhaseInv
<1>3. QueueInv'
  <2> SUFFICES ASSUME NEW m \in Loops, NEW i \in 1..Len(queue'[m]) PROVE CallbackOk(m, i)'
      BY DEF QueueInv
  <2>1. PICK j \in 1..Len(queue[m]) :
          /\ queue'[m][i] = queue[m][j]
          /\ j = Len(queue[m]) => i = Len(queue'[m])
          /\ m = l /\ queue[m][j][1] # "eof" => queue[m][j] # queue[l][1]
      BY <1>j
  <2>2. CallbackOk(m, j) /\ queue[m][j] \in Callback
      BY <1>t DEF QueueInv
  <2>3. /\ queue[m][j][1] \in {"build", "final", "eof"} => queue[m][j][2] \in ServerConns
        /\ queue[m][j] = <<queue[m][j][1], queue[m][j][2]>>
      BY <2>2, CallbackParts
  <2>4. m # l
      BY <1>z
  <2> QED BY <2>1, <2>2, <2>4, <1>e, <1>f DEF CallbackOk
<1>4. OrderInv'
    BY <1>k
<1>5. HandInv'
  <2> SUFFICES ASSUME NEW d \in ServerConns PROVE HandOk(d)'
      BY DEF HandInv
  <2>u. HandOk(d)
      BY DEF HandInv
  <2> QED BY <2>u, <1>e, <1>f, <1>n DEF HandOk
<1>6. WorkerInv'
  <2> SUFFICES ASSUME NEW u \in ServerWorkers PROVE WorkerOk(u)'
      BY DEF WorkerInv
  <2>u. WorkerOk(u)
      BY DEF WorkerInv
  <2>x. worker[u][1] \in {"run", "final", "eof"} =>
          worker[u][2] \in ServerConns /\ (Queued("final", worker[u][2])' => Queued("final",
                    worker[u][2]))
      BY <1>x, <1>e, <1>w
  <2> QED BY <2>u, <2>x, <1>e, <1>f DEF WorkerOk
<1>7. AchievedInv'
  <2>2. \A m \in answered : m \in Loops
      BY DEF ServerTypeOK
  <2> QED BY <2>2, <1>e, <1>f, <1>g, <1>y, <1>z DEF AchievedInv
<1> QED BY <1>1, <1>2, <1>3, <1>4, <1>5, <1>6, <1>7

\* closeAllConnections() closes what is open in its loop.
LEMMA RunCloseAll ==
  ASSUME StopAssumption, StopInv, NEW l \in Loops, RunCallback(l), Head(queue[l])[1] = "closeAll"
  PROVE  StopInv'
<1> USE DEF StopInv
<1>t. /\ conn \in [ServerConns -> {"new", "posted", "open", "closing", "closed"}]
      /\ slot \in [ServerConns -> {"free", "queued", "running"}]
      /\ cleaned \in [ServerConns -> Nat] /\ home \in [ServerConns -> Loops]
      /\ worker \in [ServerWorkers -> {<<"idle", "all">>} \cup ({"run", "final",
           "eof"} \X ServerConns)]
      /\ queue \in [Loops -> Seq(Callback)]
    BY DEF ServerTypeOK
<1>q. \A m \in Loops : \A i \in 1..Len(queue[m]) : queue[m][i] \in Callback
    BY <1>t
<1>p. \A m \in Loops : \A i \in 1..Len(queue[m]) :
        queue[m][i][1] \in {"build", "final", "eof"} => queue[m][i][2] \in ServerConns
    BY <1>q, CallbackParts
<1>w. \A w \in ServerWorkers :
        worker[w][1] \in {"run", "final", "eof"} => worker[w][2] \in ServerConns
    BY WorkerParts
<1>e. /\ queue[l] # <<>> /\ queue' = [queue EXCEPT ![l] = Tail(@)]
      /\ UNCHANGED <<main, told, stopFlag, exited, next, home, slot, worker, poolStopped,
                requests>>
    BY DEF RunCallback, poolVars
<1>k. /\ queue' \in [Loops -> Seq(Callback)]
      /\ 1 \in 1..Len(queue[l]) /\ Head(queue[l]) = queue[l][1] /\ queue[l][1] \in Callback
      /\ OrderInv'
    BY <1>e, TakeStep
<1>j. \A m \in Loops : \A i \in 1..Len(queue'[m]) : \E j \in 1..Len(queue[m]) :
        /\ queue'[m][i] = queue[m][j]
        /\ j = Len(queue[m]) => i = Len(queue'[m])
        /\ m = l /\ queue[m][j][1] # "eof" => queue[m][j] # queue[l][1]
    BY <1>e, TakeStep
<1>x. \A d \in ServerConns, x \in {"build", "final"} :
        /\ Queued(x, d) => queue[l][1] = <<x, d>> \/ Queued(x, d)'
        /\ Queued(x, d)' => Queued(x, d)
    BY <1>e, TakeStep
<1>y. \A m \in Loops : queue[m] = <<>> => queue'[m] = <<>>
    BY <1>e, TakeStep
<1>b. CallbackOk(l, 1)
    BY <1>k DEF QueueInv
<1> DEFINE S == {d \in ServerConns : home[d] = l}
<1>f. answered' = answered \cup {l} /\ CloseOpen(S)
    BY <1>k DEF RunCallback, DoneCalled
<1>g. main = "closeAll" /\ l \in told \ answered
    BY <1>b, <1>k DEF CallbackOk
<1>d. /\ conn' \in [ServerConns -> {"new", "posted", "open", "closing", "closed"}]
      /\ cleaned' \in [ServerConns -> Nat]
      /\ \A d \in ServerConns :
           \/ conn'[d] = conn[d] /\ cleaned'[d] = cleaned[d] /\ (home[d] = l => conn[d] # "open")
           \/ /\ conn[d] = "open" /\ slot[d] = "free"
              /\ conn'[d] = "closed" /\ cleaned'[d] = cleaned[d] + 1
           \/ /\ conn[d] = "open" /\ slot[d] # "free"
              /\ conn'[d] = "closing" /\ cleaned'[d] = cleaned[d]
    BY <1>f, CloseEffect
<1>n. \A d \in ServerConns, x \in {"build", "final"} : Queued(x, d) => Queued(x, d)'
    BY <1>k, <1>x
<1>z. \A i \in 1..Len(queue[l]) : queue[l][i][1] # "build"
  <2> SUFFICES ASSUME NEW i \in 1..Len(queue[l]), queue[l][i][1] = "build" PROVE FALSE
      OBVIOUS
  <2>1. i < 1
      BY <1>k DEF OrderInv
  <2> QED BY <2>1
<1>o. \A d \in ServerConns : home[d] = l => conn[d] # "posted"
  <2> SUFFICES ASSUME NEW d \in ServerConns, home[d] = l, conn[d] = "posted" PROVE FALSE
      OBVIOUS
  <2>1. HandOk(d)
      BY DEF HandInv
  <2>2. PICK i \in 1..Len(queue[l]) : queue[l][i] = <<"build", d>>
      BY <2>1 DEF HandOk, Queued
  <2> QED BY <2>2, <1>z
<1> HIDE DEF S
<1>1. ServerTypeOK'
    BY <1>d, <1>e, <1>f, <1>k DEF ServerTypeOK
<1>2. PhaseInv'
    BY <1>e, <1>f, <1>g DEF PhaseInv
<1>3. QueueInv'
  <2> SUFFICES ASSUME NEW m \in Loops, NEW i \in 1..Len(queue'[m]) PROVE CallbackOk(m, i)'
      BY DEF QueueInv
  <2>1. PICK j \in 1..Len(queue[m]) :
          /\ queue'[m][i] = queue[m][j]
          /\ j = Len(queue[m]) => i = Len(queue'[m])
          /\ m = l /\ queue[m][j][1] # "eof" => queue[m][j] # queue[l][1]
      BY <1>j
  <2>2. CallbackOk(m, j) /\ queue[m][j] \in Callback
      BY <1>t DEF QueueInv
  <2>3. /\ queue[m][j][1] \in {"build", "final", "eof"} => queue[m][j][2] \in ServerConns
        /\ queue[m][j] = <<queue[m][j][1], queue[m][j][2]>>
      BY <2>2, CallbackParts
  <2>4. m = l => queue[m][j][1] # "closeAll"
    <3>1. queue[l][1] = <<"closeAll", "all">>
        BY <1>k, CallbackParts
    <3> QED BY <2>1, <2>2, <3>1, CallbackParts
  <2>5. queue[m][j][1] # "barrier"
      BY <2>2, <1>g DEF CallbackOk
  <2> QED BY <2>1, <2>2, <2>3, <2>4, <2>5, <1>d, <1>e, <1>f DEF CallbackOk
<1>4. OrderInv'
    BY <1>k
<1>5. HandInv'
  <2> SUFFICES ASSUME NEW d \in ServerConns PROVE HandOk(d)'
      BY DEF HandInv
  <2>u. HandOk(d)
      BY DEF HandInv
  <2> QED BY <2>u, <1>d, <1>e, <1>n DEF HandOk
<1>6. WorkerInv'
  <2> SUFFICES ASSUME NEW u \in ServerWorkers PROVE WorkerOk(u)'
      BY DEF WorkerInv
  <2>u. WorkerOk(u)
      BY DEF WorkerInv
  <2>x. worker[u][1] \in {"run", "final", "eof"} =>
          worker[u][2] \in ServerConns /\ (Queued("final", worker[u][2])' => Queued("final",
                    worker[u][2]))
      BY <1>x, <1>e, <1>w
  <2> QED BY <2>u, <2>x, <1>d, <1>e DEF WorkerOk
<1>7. AchievedInv'
  <2>1. ASSUME NEW m \in answered', NEW d \in ServerConns, home[d] = m
        PROVE  conn'[d] \notin {"posted", "open"}
    <3>1. conn[d] # "posted" /\ (m # l => conn[d] # "open")
        BY <2>1, <1>f, <1>g, <1>o DEF AchievedInv
    <3> QED BY <2>1, <3>1, <1>d
  <2> QED BY <2>1, <1>e, <1>g DEF AchievedInv
<1> QED BY <1>1, <1>2, <1>3, <1>4, <1>5, <1>6, <1>7

-----------------------------------------------------------------------------
(* Posting to a loop *)

\* A callback is posted to a loop, behind the others; it is not there yet, unless
\* it is an end-of-file check, and a build does not come behind closeAll.
LEMMA PostStep ==
  ASSUME StopInv, NEW l \in Loops, NEW cb \in Callback,
         queue' = [queue EXCEPT ![l] = Append(@, cb)],
         cb[1] # "eof" => \A i \in 1..Len(queue[l]) : queue[l][i] # cb,
         cb[1] = "build" => \A i \in 1..Len(queue[l]) : queue[l][i][1] # "closeAll"
  PROVE  /\ queue' \in [Loops -> Seq(Callback)]
         /\ OrderInv'
         /\ \A m \in Loops : \A i \in 1..Len(queue'[m]) :
              \/ i \in 1..Len(queue[m]) /\ queue'[m][i] = queue[m][i]
              \/ m = l /\ i = Len(queue'[l]) /\ queue'[m][i] = cb
         /\ \A m \in Loops : m # l => queue'[m] = queue[m]
<1>t. queue \in [Loops -> Seq(Callback)] /\ home \in [ServerConns -> Loops]
    BY DEF StopInv, ServerTypeOK
<1> DEFINE n == Len(queue[l])
<1>1. /\ queue' \in [Loops -> Seq(Callback)]
      /\ \A m \in Loops : m # l => queue'[m] = queue[m]
      /\ n \in Nat /\ Len(queue'[l]) = n + 1 /\ n + 1 \in 1..Len(queue'[l])
      /\ queue'[l][n + 1] = cb
    BY <1>t, PostQueue
<1>2. \A m \in Loops : \A i \in 1..Len(queue[m]) :
        i \in 1..Len(queue'[m]) /\ queue'[m][i] = queue[m][i]
    BY <1>t, PostQueue
<1>3. \A m \in Loops : \A i \in 1..Len(queue'[m]) :
        \/ i \in 1..Len(queue[m]) /\ queue'[m][i] = queue[m][i]
        \/ m = l /\ i = n + 1 /\ queue'[m][i] = cb
    BY <1>t, PostQueue
<1>o. \A m \in Loops : \A i, j \in 1..Len(queue[m]) :
        /\ queue[m][i] = queue[m][j] /\ queue[m][i][1] # "eof" => i = j
        /\ queue[m][i][1] = "build" /\ queue[m][j][1] = "closeAll" => i < j
    BY DEF StopInv, OrderInv
<1> HIDE DEF n
<1>4. OrderInv'
  <2> SUFFICES ASSUME NEW m \in Loops, NEW i \in 1..Len(queue'[m]), NEW j \in 1..Len(queue'[m])
               PROVE  /\ queue'[m][i] = queue'[m][j] /\ queue'[m][i][1] # "eof" => i = j
                      /\ queue'[m][i][1] = "build" /\ queue'[m][j][1] = "closeAll" => i < j
      BY DEF OrderInv
  <2>1. CASE i \in 1..Len(queue[m]) /\ j \in 1..Len(queue[m])
      BY <2>1, <1>2, <1>o
  <2>2. CASE m = l /\ i = n + 1 /\ j = n + 1
      BY <2>2, <1>1
  <2>3. CASE m = l /\ i = n + 1 /\ j \in 1..Len(queue[m])
    <3>1. queue'[m][i] = cb /\ queue'[m][j] = queue[l][j] /\ j \in 1..Len(queue[l])
        BY <2>3, <1>1, <1>2
    <3> QED BY <3>1
  <2>4. CASE m = l /\ j = n + 1 /\ i \in 1..Len(queue[m])
    <3>1. queue'[m][j] = cb /\ queue'[m][i] = queue[l][i] /\ i \in 1..Len(queue[l])
        BY <2>4, <1>1, <1>2
    <3>2. i < j
        BY <2>4, <1>1 DEF n
    <3> QED BY <3>1, <3>2
  <2> QED BY <2>1, <2>2, <2>3, <2>4, <1>3
<1> QED BY <1>1, <1>3, <1>4

\* What is queued for a connection once a callback has been posted.
LEMMA PostQueued ==
  ASSUME StopInv, NEW l \in Loops, NEW cb \in Callback,
         queue' = [queue EXCEPT ![l] = Append(@, cb)]
  PROVE  \A c \in ServerConns, x \in {"build", "final"} :
           /\ home'[c] = l /\ cb = <<x, c>> => Queued(x, c)'
           /\ home'[c] = home[c] =>
                /\ Queued(x, c) => Queued(x, c)'
                /\ Queued(x, c)' => Queued(x, c) \/ cb = <<x, c>>
<1>t. queue \in [Loops -> Seq(Callback)] /\ home \in [ServerConns -> Loops]
    BY DEF StopInv, ServerTypeOK
<1>1. Len(queue[l]) + 1 \in 1..Len(queue'[l]) /\ queue'[l][Len(queue[l]) + 1] = cb
    BY <1>t, PostQueue
<1>2. \A m \in Loops : \A i \in 1..Len(queue[m]) :
        i \in 1..Len(queue'[m]) /\ queue'[m][i] = queue[m][i]
    BY <1>t, PostQueue
<1>3. \A m \in Loops : \A i \in 1..Len(queue'[m]) :
        \/ i \in 1..Len(queue[m]) /\ queue'[m][i] = queue[m][i]
        \/ m = l /\ i = Len(queue[l]) + 1 /\ queue'[m][i] = cb
    BY <1>t, PostQueue
<1>5. ASSUME NEW c \in ServerConns, NEW x \in {"build", "final"}, home'[c] = l, cb = <<x, c>>
      PROVE  Queued(x, c)'
    BY <1>5, <1>1 DEF Queued
<1>6. ASSUME NEW c \in ServerConns, NEW x \in {"build", "final"}, home'[c] = home[c], Queued(x, c)
      PROVE  Queued(x, c)'
  <2>1. PICK i \in 1..Len(queue[home[c]]) : queue[home[c]][i] = <<x, c>>
      BY <1>6 DEF Queued
  <2>2. home[c] \in Loops
      BY <1>t
  <2> QED BY <2>1, <2>2, <1>2, <1>6 DEF Queued
<1>7. ASSUME NEW c \in ServerConns, NEW x \in {"build", "final"}, home'[c] = home[c], Queued(x,
     c)'
      PROVE  Queued(x, c) \/ cb = <<x, c>>
  <2>1. PICK i \in 1..Len(queue'[home[c]]) : queue'[home[c]][i] = <<x, c>>
      BY <1>7 DEF Queued
  <2>2. home[c] \in Loops
      BY <1>t
  <2> QED BY <2>1, <2>2, <1>3 DEF Queued
<1> QED BY <1>5, <1>6, <1>7

\* A connection is accepted and posted to a loop.
LEMMA AcceptStep ==
  ASSUME StopAssumption, StopInv, NEW c \in ServerConns, AcceptConn(c)
  PROVE  StopInv'
<1> USE DEF StopInv
<1>t. /\ conn \in [ServerConns -> {"new", "posted", "open", "closing", "closed"}]
      /\ slot \in [ServerConns -> {"free", "queued", "running"}]
      /\ cleaned \in [ServerConns -> Nat] /\ home \in [ServerConns -> Loops]
      /\ worker \in [ServerWorkers -> {<<"idle", "all">>} \cup ({"run", "final",
           "eof"} \X ServerConns)]
      /\ queue \in [Loops -> Seq(Callback)]
    BY DEF ServerTypeOK
<1>q. \A l \in Loops : \A i \in 1..Len(queue[l]) : queue[l][i] \in Callback
    BY <1>t
<1>p. \A l \in Loops : \A i \in 1..Len(queue[l]) :
        queue[l][i][1] \in {"build", "final", "eof"} => queue[l][i][2] \in ServerConns
    BY <1>q, CallbackParts
<1>w. \A w \in ServerWorkers :
        worker[w][1] \in {"run", "final", "eof"} => worker[w][2] \in ServerConns
    BY WorkerParts
<1>l. PICK l \in Loops : l = RoundRobin
  <2>1. next \in Nat /\ NumLoops \in Nat /\ NumLoops > 0
      BY DEF ServerTypeOK, StopAssumption
  <2>2. next % NumLoops \in 0..(NumLoops - 1)
      BY <2>1
  <2> QED BY <2>2 DEF Loops, RoundRobin
<1>e. /\ main = "serving" /\ conn[c] = "new"
      /\ conn' = [conn EXCEPT ![c] = "posted"] /\ home' = [home EXCEPT ![c] = l]
      /\ queue' = [queue EXCEPT ![l] = Append(@, <<"build", c>>)]
      /\ next' = next + 1
      /\ UNCHANGED <<main, told, answered, stopFlag, exited, cleaned, slot, worker,
                poolStopped, requests>>
  <2>1. queue' = [queue EXCEPT ![l] = Append(@, <<"build", c>>)]
      BY <1>l, <1>t DEF AcceptConn
  <2> QED BY <2>1, <1>l DEF AcceptConn, mainVars, poolVars
<1>n. /\ conn'[c] = "posted" /\ home'[c] = l
      /\ \A d \in ServerConns : d # c => conn'[d] = conn[d] /\ home'[d] = home[d]
    BY <1>e, <1>t
<1>g. main # "barrier" /\ main # "closeAll" /\ answered = {}
    BY <1>e DEF PhaseInv
<1>u. /\ <<"build", c>> \in Callback
      /\ \A i \in 1..Len(queue[l]) : queue[l][i] # <<"build", c>> /\ queue[l][i][1] # "closeAll"
    BY <1>e, <1>g DEF Callback, QueueInv, CallbackOk
<1>a. PICK cb \in Callback : cb = <<"build", c>>
    BY <1>u
<1>z. /\ queue' = [queue EXCEPT ![l] = Append(@, cb)]
      /\ cb[1] # "eof" => \A i \in 1..Len(queue[l]) : queue[l][i] # cb
      /\ cb[1] = "build" => \A i \in 1..Len(queue[l]) : queue[l][i][1] # "closeAll"
    BY <1>a, <1>e, <1>u
<1>k. /\ queue' \in [Loops -> Seq(Callback)] /\ OrderInv'
      /\ \A m \in Loops : m # l => queue'[m] = queue[m]
    BY <1>z, PostStep
<1>j. \A m \in Loops : \A i \in 1..Len(queue'[m]) :
        \/ i \in 1..Len(queue[m]) /\ queue'[m][i] = queue[m][i]
        \/ m = l /\ i = Len(queue'[l]) /\ queue'[m][i] = cb
    BY <1>z, PostStep
<1>x. \A d \in ServerConns, x \in {"build", "final"} :
        /\ home'[d] = l /\ cb = <<x, d>> => Queued(x, d)'
        /\ home'[d] = home[d] =>
             /\ Queued(x, d) => Queued(x, d)'
             /\ Queued(x, d)' => Queued(x, d) \/ cb = <<x, d>>
    BY <1>z, PostQueued
<1>b. \A i \in 1..Len(queue[l]) : queue[l][i][1] # "barrier"
    BY <1>g DEF QueueInv, CallbackOk
<1>1. ServerTypeOK'
    BY <1>e, <1>k DEF ServerTypeOK
<1>2. PhaseInv'
    BY <1>e DEF PhaseInv
<1>3. QueueInv'
  <2> SUFFICES ASSUME NEW m \in Loops, NEW i \in 1..Len(queue'[m]) PROVE CallbackOk(m, i)'
      BY DEF QueueInv
  <2>1. CASE i \in 1..Len(queue[m]) /\ queue'[m][i] = queue[m][i]
    <3>1. CallbackOk(m, i) /\ queue[m][i] \in Callback
        BY <2>1, <1>t DEF QueueInv
    <3>2. queue[m][i][1] \in {"build", "final", "eof"} => queue[m][i][2] \in ServerConns
        BY <3>1, CallbackParts
    <3>3. queue[m][i][1] = "barrier" => m # l /\ Len(queue'[m]) = Len(queue[m])
        BY <2>1, <1>b, <1>k
    <3>4. queue[m][i][1] \in {"build", "final", "eof"} => queue[m][i][2] # c
        BY <3>1, <1>e DEF CallbackOk
    <3> QED BY <2>1, <3>1, <3>2, <3>3, <3>4, <1>e, <1>n DEF CallbackOk
  <2>2. CASE m = l /\ i = Len(queue'[l]) /\ queue'[m][i] = cb
      BY <2>2, <1>a, <1>n DEF CallbackOk
  <2> QED BY <2>1, <2>2, <1>j
<1>4. OrderInv'
    BY <1>k
<1>5. HandInv'
  <2> SUFFICES ASSUME NEW d \in ServerConns PROVE HandOk(d)'
      BY DEF HandInv
  <2>u. HandOk(d)
      BY DEF HandInv
  <2>1. CASE d = c
    <3>1. Queued("build", c)'
        BY <1>a, <1>n, <1>x
    <3> QED BY <2>1, <2>u, <3>1, <1>e, <1>n DEF HandOk
  <2>2. CASE d # c
    <3>1. \A x \in {"build", "final"} : Queued(x, d) => Queued(x, d)'
        BY <2>2, <1>n, <1>x
    <3> QED BY <2>2, <2>u, <3>1, <1>e, <1>n DEF HandOk
  <2> QED BY <2>1, <2>2
<1>6. WorkerInv'
  <2> SUFFICES ASSUME NEW u \in ServerWorkers PROVE WorkerOk(u)'
      BY DEF WorkerInv
  <2>u. WorkerOk(u)
      BY DEF WorkerInv
  <2>1. worker[u][1] \in {"run", "final",
       "eof"} => worker[u][2] # c /\ worker[u][2] \in ServerConns
      BY <2>u, <1>e, <1>w DEF WorkerOk, HandInv, HandOk
  <2>2. worker[u][1] = "final" => ~Queued("final", worker[u][2])'
      BY <2>u, <2>1, <1>a, <1>n, <1>x, <1>e DEF WorkerOk
  <2> QED BY <2>u, <2>1, <2>2, <1>e, <1>n DEF WorkerOk
<1>7. AchievedInv'
    BY <1>e, <1>g DEF AchievedInv
<1> QED BY <1>1, <1>2, <1>3, <1>4, <1>5, <1>6, <1>7

\* stop() posts closeAll or the barrier to a loop.
LEMMA PostToLoopStep ==
  ASSUME StopAssumption, StopInv, NEW l \in Loops, PostToLoop(l)
  PROVE  StopInv'
<1> USE DEF StopInv
<1>t. /\ conn \in [ServerConns -> {"new", "posted", "open", "closing", "closed"}]
      /\ slot \in [ServerConns -> {"free", "queued", "running"}]
      /\ cleaned \in [ServerConns -> Nat] /\ home \in [ServerConns -> Loops]
      /\ worker \in [ServerWorkers -> {<<"idle", "all">>} \cup ({"run", "final",
           "eof"} \X ServerConns)]
      /\ queue \in [Loops -> Seq(Callback)]
    BY DEF ServerTypeOK
<1>q. \A m \in Loops : \A i \in 1..Len(queue[m]) : queue[m][i] \in Callback
    BY <1>t
<1>p. \A m \in Loops : \A i \in 1..Len(queue[m]) :
        queue[m][i][1] \in {"build", "final", "eof"} => queue[m][i][2] \in ServerConns
    BY <1>q, CallbackParts
<1>w. \A w \in ServerWorkers :
        worker[w][1] \in {"run", "final", "eof"} => worker[w][2] \in ServerConns
    BY WorkerParts
<1>e. /\ main \in {"closeAll", "barrier"} /\ l \notin told /\ told' = told \cup {l}
      /\ queue' = [queue EXCEPT ![l] = Append(@, <<main, "all">>)]
      /\ UNCHANGED <<main, answered, stopFlag, exited, next, home, conn, cleaned, slot,
                worker, poolStopped, requests>>
    BY DEF PostToLoop, PostTo, connVars, poolVars
<1>g. l \notin told /\ l \notin answered
    BY <1>e DEF PhaseInv
<1>u. /\ <<main, "all">> \in Callback
      /\ \A i \in 1..Len(queue[l]) : queue[l][i] # <<main, "all">>
      /\ <<main, "all">>[1] # "build"
    BY <1>e, <1>g DEF Callback, QueueInv, CallbackOk
<1>a. PICK cb \in Callback : cb = <<main, "all">>
    BY <1>u
<1>z. /\ queue' = [queue EXCEPT ![l] = Append(@, cb)]
      /\ cb[1] # "eof" => \A i \in 1..Len(queue[l]) : queue[l][i] # cb
      /\ cb[1] = "build" => \A i \in 1..Len(queue[l]) : queue[l][i][1] # "closeAll"
    BY <1>a, <1>e, <1>u
<1>k. /\ queue' \in [Loops -> Seq(Callback)] /\ OrderInv'
      /\ \A m \in Loops : m # l => queue'[m] = queue[m]
    BY <1>z, PostStep
<1>j. \A m \in Loops : \A i \in 1..Len(queue'[m]) :
        \/ i \in 1..Len(queue[m]) /\ queue'[m][i] = queue[m][i]
        \/ m = l /\ i = Len(queue'[l]) /\ queue'[m][i] = cb
    BY <1>z, PostStep
<1>x. \A d \in ServerConns, x \in {"build", "final"} :
        /\ home'[d] = l /\ cb = <<x, d>> => Queued(x, d)'
        /\ home'[d] = home[d] =>
             /\ Queued(x, d) => Queued(x, d)'
             /\ Queued(x, d)' => Queued(x, d) \/ cb = <<x, d>>
    BY <1>z, PostQueued
<1>b. \A i \in 1..Len(queue[l]) : queue[l][i][1] # "barrier"
    BY <1>g DEF QueueInv, CallbackOk
<1>1. ServerTypeOK'
    BY <1>e, <1>k DEF ServerTypeOK
<1>2. PhaseInv'
    BY <1>e DEF PhaseInv
<1>3. QueueInv'
  <2> SUFFICES ASSUME NEW m \in Loops, NEW i \in 1..Len(queue'[m]) PROVE CallbackOk(m, i)'
      BY DEF QueueInv
  <2>1. CASE i \in 1..Len(queue[m]) /\ queue'[m][i] = queue[m][i]
    <3>1. CallbackOk(m, i) /\ queue[m][i] \in Callback
        BY <2>1, <1>t DEF QueueInv
    <3>2. queue[m][i][1] \in {"build", "final", "eof"} => queue[m][i][2] \in ServerConns
        BY <3>1, CallbackParts
    <3>3. queue[m][i][1] = "barrier" => m # l /\ Len(queue'[m]) = Len(queue[m])
        BY <2>1, <1>b, <1>k
    <3> QED BY <2>1, <3>1, <3>2, <3>3, <1>e DEF CallbackOk
  <2>2. CASE m = l /\ i = Len(queue'[l]) /\ queue'[m][i] = cb
      BY <2>2, <1>a, <1>e, <1>g DEF CallbackOk
  <2> QED BY <2>1, <2>2, <1>j
<1>4. OrderInv'
    BY <1>k
<1>5. HandInv'
  <2> SUFFICES ASSUME NEW d \in ServerConns PROVE HandOk(d)'
      BY DEF HandInv
  <2>u. HandOk(d)
      BY DEF HandInv
  <2>1. \A x \in {"build", "final"} : Queued(x, d) => Queued(x, d)'
      BY <1>e, <1>x
  <2> QED BY <2>u, <2>1, <1>e DEF HandOk
<1>6. WorkerInv'
  <2> SUFFICES ASSUME NEW u \in ServerWorkers PROVE WorkerOk(u)'
      BY DEF WorkerInv
  <2>u. WorkerOk(u)
      BY DEF WorkerInv
  <2>x. worker[u][1] \in {"run", "final", "eof"} =>
          worker[u][2] \in ServerConns /\ (Queued("final", worker[u][2])' => Queued("final",
                    worker[u][2]))
      BY <1>a, <1>x, <1>e, <1>w
  <2> QED BY <2>u, <2>x, <1>e DEF WorkerOk
<1>7. AchievedInv'
  <2>1. \A m \in answered : m \in Loops /\ queue'[m] = queue[m]
      BY <1>g, <1>k DEF ServerTypeOK
  <2> QED BY <2>1, <1>e DEF AchievedInv
<1> QED BY <1>1, <1>2, <1>3, <1>4, <1>5, <1>6, <1>7

\* A worker posts the final callback or the end-of-file check.
LEMMA PostBackStep ==
  ASSUME StopAssumption, StopInv, NEW w \in ServerWorkers, PostFinal(w)
  PROVE  StopInv'
<1> USE DEF StopInv
<1>t. /\ conn \in [ServerConns -> {"new", "posted", "open", "closing", "closed"}]
      /\ slot \in [ServerConns -> {"free", "queued", "running"}]
      /\ cleaned \in [ServerConns -> Nat] /\ home \in [ServerConns -> Loops]
      /\ worker \in [ServerWorkers -> {<<"idle", "all">>} \cup ({"run", "final",
           "eof"} \X ServerConns)]
      /\ queue \in [Loops -> Seq(Callback)]
    BY DEF ServerTypeOK
<1>q. \A l \in Loops : \A i \in 1..Len(queue[l]) : queue[l][i] \in Callback
    BY <1>t
<1>p. \A l \in Loops : \A i \in 1..Len(queue[l]) :
        queue[l][i][1] \in {"build", "final", "eof"} => queue[l][i][2] \in ServerConns
    BY <1>q, CallbackParts
<1>w. \A r \in ServerWorkers :
        worker[r][1] \in {"run", "final", "eof"} => worker[r][2] \in ServerConns
    BY WorkerParts
<1>c. PICK c \in ServerConns : c = worker[w][2]
    BY <1>w DEF PostFinal
<1>v. PICK k \in {"final", "eof"} : worker[w] = <<k, c>>
    BY <1>c, WorkerParts DEF PostFinal
<1>l. PICK l \in Loops : l = home[c]
    BY <1>t
<1>e. /\ queue' = [queue EXCEPT ![l] = Append(@, <<k, c>>)]
      /\ worker' = [worker EXCEPT ![w] = <<"idle", "all">>]
      /\ UNCHANGED <<main, told, answered, stopFlag, exited, next, home, conn, cleaned,
                slot, poolStopped, requests>>
    BY <1>c, <1>v, <1>l DEF PostFinal, PostTo, mainVars, connVars
<1>n. worker'[w] = <<"idle", "all">> /\ \A v \in ServerWorkers : v # w => worker'[v] = worker[v]
    BY <1>e, <1>t
<1>o. WorkerOk(w)
    BY DEF WorkerInv
<1>g. main \in {"serving", "closeAll", "poolStop", "poolJoin"}
  <2>1. worker[w][1] # "idle"
      BY <1>v
  <2> QED BY <2>1 DEF AchievedInv, ServerTypeOK, MainPlace
<1>u. /\ <<k, c>> \in Callback /\ <<k, c>>[1] # "build"
      /\ <<k, c>>[1] # "eof" => \A i \in 1..Len(queue[l]) : queue[l][i] # <<k, c>>
  <2>1. k = "final" => ~Queued("final", c)
      BY <1>o, <1>v DEF WorkerOk
  <2> QED BY <2>1, <1>l DEF Callback, Queued
<1>a. PICK cb \in Callback : cb = <<k, c>>
    BY <1>u
<1>z. /\ queue' = [queue EXCEPT ![l] = Append(@, cb)]
      /\ cb[1] # "eof" => \A i \in 1..Len(queue[l]) : queue[l][i] # cb
      /\ cb[1] = "build" => \A i \in 1..Len(queue[l]) : queue[l][i][1] # "closeAll"
    BY <1>a, <1>e, <1>u
<1>k. /\ queue' \in [Loops -> Seq(Callback)] /\ OrderInv'
      /\ \A m \in Loops : m # l => queue'[m] = queue[m]
    BY <1>z, PostStep
<1>j. \A m \in Loops : \A i \in 1..Len(queue'[m]) :
        \/ i \in 1..Len(queue[m]) /\ queue'[m][i] = queue[m][i]
        \/ m = l /\ i = Len(queue'[l]) /\ queue'[m][i] = cb
    BY <1>z, PostStep
<1>x. \A d \in ServerConns, x \in {"build", "final"} :
        /\ home'[d] = l /\ cb = <<x, d>> => Queued(x, d)'
        /\ home'[d] = home[d] =>
             /\ Queued(x, d) => Queued(x, d)'
             /\ Queued(x, d)' => Queued(x, d) \/ cb = <<x, d>>
    BY <1>z, PostQueued
<1>b. \A i \in 1..Len(queue[l]) : queue[l][i][1] # "barrier"
    BY <1>g DEF QueueInv, CallbackOk
<1>1. ServerTypeOK'
    BY <1>e, <1>k DEF ServerTypeOK
<1>2. PhaseInv'
    BY <1>e DEF PhaseInv
<1>3. QueueInv'
  <2> SUFFICES ASSUME NEW m \in Loops, NEW i \in 1..Len(queue'[m]) PROVE CallbackOk(m, i)'
      BY DEF QueueInv
  <2>1. CASE i \in 1..Len(queue[m]) /\ queue'[m][i] = queue[m][i]
    <3>1. CallbackOk(m, i) /\ queue[m][i] \in Callback
        BY <2>1, <1>t DEF QueueInv
    <3>2. queue[m][i][1] \in {"build", "final", "eof"} => queue[m][i][2] \in ServerConns
        BY <3>1, CallbackParts
    <3>3. queue[m][i][1] = "barrier" => m # l /\ Len(queue'[m]) = Len(queue[m])
        BY <2>1, <1>b, <1>k
    <3> QED BY <2>1, <3>1, <3>2, <3>3, <1>e DEF CallbackOk
  <2>2. CASE m = l /\ i = Len(queue'[l]) /\ queue'[m][i] = cb
    <3>1. home'[c] = l
        BY <1>e, <1>l
    <3>2. k = "final" => conn[c] = "closing" /\ slot[c] = "free"
        BY <1>o, <1>v DEF WorkerOk
    <3>3. k = "eof" => conn[c] \notin {"new", "posted"}
        BY <1>o, <1>v DEF WorkerOk
    <3> QED BY <2>2, <3>1, <3>2, <3>3, <1>a, <1>e DEF CallbackOk
  <2> QED BY <2>1, <2>2, <1>j
<1>4. OrderInv'
    BY <1>k
<1>5. HandInv'
  <2> SUFFICES ASSUME NEW d \in ServerConns PROVE HandOk(d)'
      BY DEF HandInv
  <2>u. HandOk(d)
      BY DEF HandInv
  <2>1. \A x \in {"build", "final"} : Queued(x, d) => Queued(x, d)'
      BY <1>e, <1>x
  <2>2. worker[w] = <<"final", d>> => Queued("final", d)'
      BY <1>a, <1>e, <1>l, <1>v, <1>x
  <2>3. (\E v \in ServerWorkers : worker[v] = <<"run", d>>) =>
            \E v \in ServerWorkers : worker'[v] = <<"run", d>>
      BY <1>n, <1>v
  <2>4. (\E v \in ServerWorkers : worker[v] = <<"final", d>>) =>
          Queued("final", d)' \/ \E v \in ServerWorkers : worker'[v] = <<"final", d>>
      BY <2>2, <1>n
  <2> QED BY <2>u, <2>1, <2>3, <2>4, <1>e DEF HandOk
<1>6. WorkerInv'
  <2> SUFFICES ASSUME NEW u \in ServerWorkers PROVE WorkerOk(u)'
      BY DEF WorkerInv
  <2>u. WorkerOk(u)
      BY DEF WorkerInv
  <2>1. CASE u = w
      BY <2>1, <1>n DEF WorkerOk
  <2>2. CASE u # w
    <3>1. worker'[u] = worker[u]
        BY <2>2, <1>n
    <3>2. worker[u][1] = "final" => worker[u][2] \in ServerConns /\ worker[u] # <<k, c>>
        BY <2>2, <2>u, <1>v, <1>w DEF WorkerOk
    <3>3. worker[u][1] = "final" => ~Queued("final", worker[u][2])'
      <4> SUFFICES ASSUME worker[u][1] = "final" PROVE ~Queued("final", worker[u][2])'
          OBVIOUS
      <4>1. PICK d \in ServerConns : d = worker[u][2]
          BY <3>2
      <4>2. ~Queued("final", d) /\ <<k, c>> # <<"final", d>>
          BY <2>u, <3>2, <4>1, WorkerParts DEF WorkerOk
      <4>3. ~Queued("final", d)'
          BY <4>2, <1>a, <1>e, <1>x
      <4> QED BY <3>1, <4>1, <4>3 DEF Queued
    <3>4. \A v \in ServerWorkers : worker'[v] = worker[u] /\ worker[u][1] \in {"run",
                                                               "final"} => v = u
        BY <2>u, <1>n DEF WorkerOk
    <3> QED BY <2>u, <3>1, <3>3, <3>4, <1>e DEF WorkerOk
  <2> QED BY <2>1, <2>2
<1>7. AchievedInv'
  <2>1. answered # {} => main = "closeAll"
      BY <1>g DEF PhaseInv
  <2> QED BY <2>1, <1>e, <1>g DEF AchievedInv
<1> QED BY <1>1, <1>2, <1>3, <1>4, <1>5, <1>6, <1>7

-----------------------------------------------------------------------------
(* The theorems *)

\* Nothing has happened yet.
LEMMA StopInit == ASSUME StopAssumption PROVE ServerInit => StopInv
<1> SUFFICES ASSUME ServerInit PROVE StopInv
    OBVIOUS
<1>q. \A l \in Loops : queue[l] = <<>> /\ Len(queue[l]) = 0
    BY DEF ServerInit
<1>1. ServerTypeOK
  <2>1. 0 \in Loops /\ requests \in 0..MaxReq
      BY DEF ServerInit, Loops, StopAssumption
  <2>2. queue \in [Loops -> Seq(Callback)]
      BY DEF ServerInit
  <2> QED BY <2>1, <2>2 DEF ServerInit, ServerTypeOK, MainPlace
<1>2. PhaseInv
    BY DEF ServerInit, PhaseInv
<1>3. QueueInv /\ OrderInv
    BY <1>q DEF QueueInv, OrderInv
<1>4. HandInv
    BY DEF ServerInit, HandInv, HandOk
<1>5. WorkerInv
    BY DEF ServerInit, WorkerInv, WorkerOk
<1>6. AchievedInv
    BY DEF ServerInit, AchievedInv
<1> QED BY <1>1, <1>2, <1>3, <1>4, <1>5, <1>6 DEF StopInv

\* Every callback keeps the invariant.
LEMMA RunCallbackStep ==
  ASSUME StopAssumption, StopInv, NEW l \in Loops, RunCallback(l)
  PROVE  StopInv'
<1>1. Head(queue[l])[1] \in {"build", "final", "closeAll", "barrier", "eof"}
    BY DEF RunCallback
<1> QED BY <1>1, RunBuild, RunFinal, RunCloseAll, RunBarrier, RunEof

\* StopInv is an invariant for any number of loops but none, any workers,
\* connections and requests.
THEOREM StopInvariance == ASSUME StopAssumption PROVE ServerSpec => []StopInv
<1>1. ServerInit => StopInv
    BY StopInit
<1>2. StopInv /\ [ServerNext]_serverVars => StopInv'
  <2> SUFFICES ASSUME StopInv, [ServerNext]_serverVars PROVE StopInv'
      OBVIOUS
  <2>1. CASE BeginStop
      BY <2>1, BeginStopStep
  <2>2. CASE MainStep
      BY <2>2, PostToLoopStep, StopLoopStep, AwaitLoopsStep, PoolStopStep, PoolJoinStep,
         JoinLoopsStep DEF MainStep
  <2>3. CASE \E c \in ServerConns : AcceptConn(c) \/ Request(c) \/ NetworkClose(c)
      BY <2>3, AcceptStep, RequestStep, NetworkCloseStep
  <2>4. CASE \E w \in ServerWorkers : WorkerStep(w)
      BY <2>4, TakeTaskStep, TaskDoneStep, PostBackStep DEF WorkerStep
  <2>5. CASE \E l \in Loops : IoLoopStep(l)
      BY <2>5, RunCallbackStep, LoopExitStep DEF IoLoopStep
  <2>6. CASE Returned \/ UNCHANGED serverVars
      BY <2>6, IdleStep DEF Returned
  <2> QED BY <2>1, <2>2, <2>3, <2>4, <2>5, <2>6 DEF ServerNext
<1> QED
    BY <1>1, <1>2, PTL DEF ServerSpec

\* When stop() returns every accepted connection has been cleaned up exactly once,
\* no callback was lost with its loop, and no cleanup came before its task's end.
THEOREM CleanExitHolds == ASSUME StopAssumption PROVE ServerSpec => []CleanExit
<1>1. StopInv => CleanExit
  <2> SUFFICES ASSUME StopInv PROVE CleanExit
      OBVIOUS
  <2> USE DEF StopInv
  <2>1. NoCallbackLost
    <3>1. exited # {} => main \in {"loopStop", "loopJoin", "returned"}
        BY DEF PhaseInv
    <3>2. exited \subseteq Loops
        BY DEF ServerTypeOK
    <3> QED BY <3>1, <3>2 DEF NoCallbackLost, AchievedInv
  <2>2. CleanupAfterTask
      BY DEF CleanupAfterTask, HandInv, HandOk
  <2>3. ASSUME main = "returned", NEW c \in ServerConns, conn[c] # "new"
        PROVE  conn[c] = "closed" /\ cleaned[c] = 1
    <3>1. HandOk(c) /\ home[c] \in Loops /\ conn[c] \in {"new", "posted", "open", "closing",
              "closed"}
        BY DEF HandInv, ServerTypeOK
    <3>2. slot[c] = "free" /\ conn[c] \notin {"posted", "open"}
        BY <2>3 DEF AchievedInv
    <3>3. ~Queued("final", c)
        BY <2>3, <3>1 DEF AchievedInv, Queued
    <3>4. \A w \in ServerWorkers : worker[w] # <<"final", c>>
        BY <2>3 DEF AchievedInv
    <3> QED BY <2>3, <3>1, <3>2, <3>3, <3>4 DEF HandOk
  <2> QED BY <2>1, <2>2, <2>3 DEF CleanExit
<1> QED
    BY <1>1, StopInvariance, PTL

\* The pool is closed only when no connection is waiting to be built or open.
THEOREM PoolStopsLastHolds == ASSUME StopAssumption PROVE ServerSpec => []PoolStopsLast
<1>1. StopInv => PoolStopsLast
    BY DEF StopInv, PhaseInv, AchievedInv, PoolStopsLast
<1> QED
    BY <1>1, StopInvariance, PTL
=============================================================================
