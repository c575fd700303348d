------------------------------ MODULE ServerStop ------------------------------
(***************************************************************************)
(* The shutdown of the server (Server::stop) across its main thread, the   *)
(* loops of IoThreadPool and the threads of WorkThreadPool, from a server  *)
(* that is accepting and serving connections.                              *)
(*                                                                         *)
(* A loop's callback queue is the Executor that EventLoop implements.  A   *)
(* connection is reduced to what Connection shows of it: it is posted to   *)
(* its loop, open, closing (its close waits for the running task) or       *)
(* closed; slot is the place of the one task it may have in the pool.  The *)
(* tasks that wait behind it in the connection are left out: they are      *)
(* dropped by the close or follow it as new requests.                      *)
(***************************************************************************)
EXTENDS Integers, Sequences, FiniteSets

CONSTANTS
  NumLoops,     \* num_: event loops of the I/O pool
  ServerWorkers, \* the threads of the worker pool
  ServerConns,  \* bound: the connections that are accepted
  MaxReq        \* bound: requests on all connections

StopAssumption == MaxReq \in Nat /\ NumLoops \in Nat \ {0}

Loops == 0..(NumLoops - 1)

VARIABLES
  main,         \* place of the main thread
  told,         \* loops the current step of stop() has posted to
  answered,     \* loops whose promise is fulfilled
  queue,        \* task_queue_ of each loop
  stopFlag,     \* stop_ of each loop
  exited,       \* loops whose thread has left loop()
  next, home,   \* next_, and the loop a connection was assigned to
  conn,         \* state of each connection
  slot,         \* its running slot: taskRunning_ and where the task is
  worker,       \* what each worker does, and for which connection
  poolStopped,  \* TaskQueue::stop_
  requests,     \* requests so far
  cleaned       \* calls of the close callback for each connection

mainVars == <<main, told, answered>>
loopVars == <<queue, stopFlag, exited>>
connVars == <<next, home, conn, cleaned>>
poolVars == <<slot, worker, poolStopped, requests>>

serverVars == <<mainVars, loopVars, connVars, poolVars>>

Callback ==
  ({"build", "final", "eof"} \X ServerConns) \cup ({"closeAll", "barrier"} \X {"all"})

MainPlace == {"serving", "closeAll", "poolStop", "poolJoin", "barrier",
              "loopStop", "loopJoin", "returned"}

ServerTypeOK ==
  /\ main \in MainPlace
  /\ told \subseteq Loops /\ answered \subseteq Loops
  /\ queue \in [Loops -> Seq(Callback)]
  /\ stopFlag \subseteq Loops /\ exited \subseteq Loops
  /\ next \in Nat /\ home \in [ServerConns -> Loops]
  /\ conn \in [ServerConns -> {"new", "posted", "open", "closing", "closed"}]
  /\ slot \in [ServerConns -> {"free", "queued", "running"}]
  /\ worker \in [ServerWorkers -> {<<"idle", "all">>}
                                   \cup ({"run", "final", "eof"} \X ServerConns)]
  /\ poolStopped \in BOOLEAN /\ requests \in 0..MaxReq
  /\ cleaned \in [ServerConns -> Nat]

ServerInit ==
  /\ main = "serving" /\ told = {} /\ answered = {}
  /\ queue = [l \in Loops |-> <<>>]
  /\ stopFlag = {} /\ exited = {}
  /\ next = 0 /\ home = [c \in ServerConns |-> 0]
  /\ conn = [c \in ServerConns |-> "new"] /\ slot = [c \in ServerConns |-> "free"]
  /\ worker = [w \in ServerWorkers |-> <<"idle", "all">>]
  /\ poolStopped = FALSE /\ requests = 0
  /\ cleaned = [c \in ServerConns |-> 0]

PostTo(l, cb) == queue' = [queue EXCEPT ![l] = Append(@, cb)]

-----------------------------------------------------------------------------
(* The order of Server::stop *)

\* The connections are left to the pools' destructors.
SkipCloseAll == "poolStop"

\* mainloop_ has ended, the acceptor is gone: closeAllConnections() is next.
AfterServing == "closeAll"

\* stop() does not wait for the promises.
NotAwaited == told = Loops

\* IoThreadPool::closeAllConnections() and waitForPendingCallbacks() return
\* when every loop has fulfilled its promise.
Awaited == told = Loops /\ answered = Loops

\* waitForPendingCallbacks() is left out.
NoBarrier == "loopStop"

\* waitForPendingCallbacks() follows the pool's threads' end.
AfterPool == "barrier"

\* WorkThreadPool::stop() joins: its threads leave when the queue is empty and
\* the task each of them has, its completion included, is done.
PoolJoined ==
  /\ \A w \in ServerWorkers : worker[w][1] = "idle"
  /\ \A c \in ServerConns : slot[c] # "queued"

-----------------------------------------------------------------------------
(* The main thread *)

\* IoThreadPool::submit(): loops_ is used in turn.
RoundRobin == next % NumLoops

\* Acceptor::handleAccept() and IoThreadPool::submit().
AcceptConn(c) ==
  /\ main = "serving" /\ conn[c] = "new"
  /\ conn' = [conn EXCEPT ![c] = "posted"]
  /\ next' = next + 1 /\ home' = [home EXCEPT ![c] = RoundRobin]
  /\ queue' = [l \in Loops |-> IF l = RoundRobin
                                THEN Append(queue[l], <<"build", c>>) ELSE queue[l]]
  /\ UNCHANGED <<mainVars, stopFlag, exited, cleaned, poolVars>>

\* A signal ends mainloop_; stop() unregisters and closes the listener.
BeginStop ==
  /\ main = "serving"
  /\ main' = AfterServing
  /\ UNCHANGED <<told, answered, loopVars, connVars, poolVars>>

\* closeAllConnections() and waitForPendingCallbacks() post to every loop.
PostToLoop(l) ==
  /\ main \in {"closeAll", "barrier"} /\ l \notin told
  /\ told' = told \cup {l}
  /\ PostTo(l, <<main, "all">>)
  /\ UNCHANGED <<main, answered, stopFlag, exited, connVars, poolVars>>

\* ...and wait for the promises.
AwaitLoops ==
  /\ main \in {"closeAll", "barrier"} /\ Awaited
  /\ main' = IF main = "closeAll" THEN "poolStop" ELSE "loopStop"
  /\ told' = {} /\ answered' = {}
  /\ UNCHANGED <<loopVars, connVars, poolVars>>

\* WorkThreadPool::stop(): close the task queue...
PoolStop ==
  /\ main = "poolStop"
  /\ poolStopped' = TRUE
  /\ main' = "poolJoin"
  /\ UNCHANGED <<told, answered, loopVars, connVars, slot, worker, requests>>

\* ...and join the workers.
PoolJoin ==
  /\ main = "poolJoin" /\ PoolJoined
  /\ main' = AfterPool
  /\ UNCHANGED <<told, answered, loopVars, connVars, poolVars>>

\* IoThreadPool::stop(): tell every loop to stop, one after the other...
StopLoop(l) ==
  /\ main = "loopStop" /\ l \notin stopFlag
  /\ stopFlag' = stopFlag \cup {l}
  /\ main' = IF stopFlag' = Loops THEN "loopJoin" ELSE main
  /\ UNCHANGED <<told, answered, queue, exited, connVars, poolVars>>

\* ...and join the threads.
JoinLoops ==
  /\ main = "loopJoin" /\ exited = Loops
  /\ main' = "returned"
  /\ UNCHANGED <<told, answered, loopVars, connVars, poolVars>>

-----------------------------------------------------------------------------
(* The loops *)

\* The cleanup does not wait for the running task.
CloseOpenNow(S) ==
  LET open == {c \in S : conn[c] = "open"}
  IN  /\ conn' = [c \in ServerConns |-> IF c \in open THEN "closed" ELSE conn[c]]
      /\ cleaned' = [c \in ServerConns |-> IF c \in open THEN cleaned[c] + 1
                                           ELSE cleaned[c]]

\* handleClose() of the open connections in S: a running task defers the
\* cleanup.
CloseOpen(S) ==
  LET open == {c \in S : conn[c] = "open"}
      now  == {c \in open : slot[c] = "free"}
  IN  /\ conn' = [c \in ServerConns |-> IF c \in now THEN "closed"
                                        ELSE IF c \in open THEN "closing" ELSE conn[c]]
      /\ cleaned' = [c \in ServerConns |-> IF c \in now THEN cleaned[c] + 1
                                           ELSE cleaned[c]]

\* The promise is fulfilled by the last connection that is closed.
DoneByLast(l) == {l} \cap {home[c] : c \in {d \in ServerConns : conn[d] = "open"}}

\* closeAllConnections(): done() is called after the snapshot was worked off.
DoneCalled(l) == {l}

\* The head of the loop's callback queue.
RunCallback(l) ==
  /\ l \notin exited /\ queue[l] # <<>>
  /\ queue' = [queue EXCEPT ![l] = Tail(@)]
  /\ LET kind == Head(queue[l])[1]
         c    == Head(queue[l])[2]
     IN  \/ /\ kind = "build"
            /\ conn' = [conn EXCEPT ![c] = "open"]
            /\ UNCHANGED <<answered, cleaned>>
         \/ /\ kind = "final"
            /\ conn' = [conn EXCEPT ![c] = "closed"]
            /\ cleaned' = [cleaned EXCEPT ![c] = @ + 1]
            /\ UNCHANGED answered
         \/ /\ kind = "closeAll"
            /\ CloseOpen({d \in ServerConns : home[d] = l})
            /\ answered' = answered \cup DoneCalled(l)
         \/ /\ kind = "barrier"
            /\ answered' = answered \cup {l}
            /\ UNCHANGED <<conn, cleaned>>
         \/ kind = "eof" /\ UNCHANGED <<answered, conn, cleaned>>
  /\ UNCHANGED <<main, told, stopFlag, exited, next, home, poolVars>>

\* A request arrives on an open connection and is submitted to the pool.  A
\* stopped pool rejects it; PoolStopsLast says that this does not happen here.
Request(c) ==
  /\ conn[c] = "open" /\ home[c] \notin exited /\ slot[c] = "free"
  /\ ~poolStopped /\ requests < MaxReq
  /\ requests' = requests + 1
  /\ slot' = [slot EXCEPT ![c] = "queued"]
  /\ UNCHANGED <<mainVars, loopVars, connVars, worker, poolStopped>>

\* The peer, an error or the idle timer closes the connection.
NetworkClose(c) ==
  /\ conn[c] = "open" /\ home[c] \notin exited
  /\ CloseOpen({c})
  /\ UNCHANGED <<mainVars, loopVars, next, home, poolVars>>

\* loop() tests stop_ between two batches and leaves, whatever is queued.
LoopExit(l) ==
  /\ l \in stopFlag \ exited
  /\ exited' = exited \cup {l}
  /\ UNCHANGED <<mainVars, queue, stopFlag, connVars, poolVars>>

-----------------------------------------------------------------------------
(* The workers *)

\* A worker takes a queued task, also from a queue that is closed.
TakeTask(w, c) ==
  /\ worker[w][1] = "idle" /\ slot[c] = "queued"
  /\ worker' = [worker EXCEPT ![w] = <<"run", c>>]
  /\ slot' = [slot EXCEPT ![c] = "running"]
  /\ UNCHANGED <<mainVars, loopVars, connVars, poolStopped, requests>>

\* onTaskComplete(), under taskMutex_: release the slot, claim a deferred close.
TaskDone(w) ==
  /\ worker[w][1] = "run"
  /\ LET c == worker[w][2] IN
       /\ slot' = [slot EXCEPT ![c] = "free"]
       /\ worker' = [worker EXCEPT
                       ![w] = <<IF conn[c] = "closing" THEN "final" ELSE "eof", c>>]
  /\ UNCHANGED <<mainVars, loopVars, connVars, poolStopped, requests>>

\* ...then runInLoop() posts the final callback or the end-of-file check.
PostFinal(w) ==
  /\ worker[w][1] \in {"final", "eof"}
  /\ PostTo(home[worker[w][2]], worker[w])
  /\ worker' = [worker EXCEPT ![w] = <<"idle", "all">>]
  /\ UNCHANGED <<mainVars, stopFlag, exited, connVars, slot, poolStopped, requests>>

Returned == main = "returned" /\ UNCHANGED serverVars

MainStep ==
  \/ \E l \in Loops : PostToLoop(l) \/ StopLoop(l)
  \/ AwaitLoops \/ PoolStop \/ PoolJoin \/ JoinLoops

IoLoopStep(l) == RunCallback(l) \/ LoopExit(l)

WorkerStep(w) == (\E c \in ServerConns : TakeTask(w, c)) \/ TaskDone(w) \/ PostFinal(w)

ServerNext ==
  \/ BeginStop \/ MainStep
  \/ \E c \in ServerConns : AcceptConn(c) \/ Request(c) \/ NetworkClose(c)
  \/ \E w \in ServerWorkers : WorkerStep(w)
  \/ \E l \in Loops : IoLoopStep(l)
  \/ Returned

\* Threads are scheduled and handlers return; nobody has to send, to close a
\* connection or to stop the server.
ServerFairness ==
  /\ WF_serverVars(MainStep)
  /\ \A l \in Loops : WF_serverVars(IoLoopStep(l))
  /\ \A w \in ServerWorkers : WF_serverVars(WorkerStep(w))

ServerSpec == ServerInit /\ [][ServerNext]_serverVars /\ ServerFairness

-----------------------------------------------------------------------------
\* No callback is left behind in the queue of a loop that has gone.
NoCallbackLost == \A l \in exited : queue[l] = <<>>

\* A cleanup never runs while a task of the connection can still touch the
\* session, whichever thread it is on.
CleanupAfterTask == \A c \in ServerConns : cleaned[c] > 0 => slot[c] = "free"

\* When Server::stop() returns, every connection that was ever accepted has
\* been closed and its session cleaned up exactly once: those still in a
\* loop's queue and those whose handler outlived closeAllConnections() too.
\* Until then no callback is lost with its loop and no cleanup is early.
CleanExit ==
  /\ ServerTypeOK /\ NoCallbackLost /\ CleanupAfterTask
  /\ main = "returned" =>
       \A c \in ServerConns : conn[c] # "new" => conn[c] = "closed" /\ cleaned[c] = 1

\* The pool is closed only when every connection has begun to close: no request
\* is parsed, submitted and rejected during the shutdown.
PoolStopsLast ==
  poolStopped => \A c \in ServerConns : conn[c] \notin {"posted", "open"}

\* Server::stop() returns; no step waits for one that waits for it.
StopCompletes == main # "serving" ~> main = "returned"
=============================================================================
