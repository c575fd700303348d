------------------------------ MODULE Connection ------------------------------
(***************************************************************************)
(* One TCP connection of EchoNet: class Connection (Net/Connection.cpp)    *)
(* together with the calls it makes into its EventLoop (registration in    *)
(* epoll, the cross-thread callback queue) and into the worker pool.       *)
(*                                                                         *)
(* Threads: the event loop that owns the connection (Loop), the pool's     *)
(* Workers, and Others - threads working for other connections that push   *)
(* a message to this one (Room::broadcast, the gateway's forwarding) or    *)
(* close it.  A step is what a thread does between two points where        *)
(* another thread can observe it: a critical section of taskMutex_ or of   *)
(* the loop's mtx_, one atomic operation, or a run of code on state that   *)
(* only the loop touches.  pc is the place in the code where a thread is.  *)
(*                                                                         *)
(* Data: a request frame is two chunks (the 16-byte header, the body); a   *)
(* request is its number on the connection; a response carries the number  *)
(* of its request, a pushed message carries 0.  sendQueue_ is not a        *)
(* variable: it is filled and emptied inside one loop callback.            *)
(***************************************************************************)
EXTENDS Integers, Sequences, FiniteSets

CONSTANTS
  Workers,      \* threads of WorkThreadPool
  Others,       \* threads that send to or close this connection from outside
  Loop,         \* the thread of the EventLoop that owns the connection
  MaxReq,       \* bound: complete request frames the peer sends
  HighWater,    \* HIGH_WATER_MARK, in messages
  MaxPush,      \* bound: pushes by Others
  MaxClose,     \* bound: Connection::close() calls by Others
  Outbound      \* TRUE: a gateway-to-backend connection (tasks run inline in
                \* the loop, no entry in connections_); FALSE: an accepted one

ASSUME ThreadsAssumption ==
  /\ Loop \notin Workers \cup Others
  /\ Workers \cap Others = {}
  /\ IsFiniteSet(Workers) /\ IsFiniteSet(Others)

ASSUME BoundsAssumption ==
  /\ MaxReq \in Nat /\ HighWater \in Nat /\ MaxPush \in Nat /\ MaxClose \in Nat
  /\ Outbound \in BOOLEAN

VARIABLES
  \* the peer and the kernel's socket
  sent,         \* chunks the peer has sent
  unread,       \* chunks in the kernel's receive buffer
  fin,          \* the peer has shut down its sending direction
  reset,        \* the connection was reset
  wire,         \* messages the kernel accepted from send()
  \* class Connection
  state, peerReadClosed, inBuffer, parsed, outBuffer, pendingTasks,
  taskRunning, closeCallbackPending, pendingSendCallbacks,
  \* the owning EventLoop
  taskQueue,    \* task_queue_: callbacks posted by runInLoop
  interest,     \* the events the channel is registered for
  registered,   \* the channel is in epoll and channels_
  mapped,       \* the connection is in connections_
  fdOpen,       \* the descriptor has not been closed
  \* the worker pool
  workQueue, poolStopped,
  \* the business layer
  session,      \* whose session is in sessions_ under the number: nobody's, this
                \* connection's, or that of the next one with the number
  \* threads
  pc, task,
  parsing,      \* the loop is inside read()'s parse loop
  \* history and bounds
  started,      \* requests whose handler was entered, in that order
  replied,      \* requests whose handler called sendResponse
  cause,        \* why handleClose() won its CAS
  cleanups,     \* completed calls of the business layer's closeCallback_
  pushes, closes

peerVars  == <<sent, unread, fin, reset, wire>>
bufVars   == <<peerReadClosed, inBuffer, parsed, outBuffer>>
taskVars  == <<pendingTasks, taskRunning, closeCallbackPending>>
epollVars == <<interest, registered, mapped, fdOpen>>
poolVars  == <<workQueue, poolStopped>>
histVars  == <<started, replied, pushes, closes>>
businessVars == <<cleanups, session>>

vars == <<peerVars, state, bufVars, taskVars, pendingSendCallbacks, taskQueue,
          epollVars, poolVars, pc, task, parsing, histVars, cause, businessVars>>

Thread == Workers \cup Others \cup {Loop}

FrameChunks == 2

Callback == {"send", "eof", "final", "close"}

PC == {"idle", "parse", "submit", "taken", "run", "post", "complete",
       "postEof", "postFinal", "eofTasks", "eofSends", "closing",
       "cleanup", "remove", "finish", "erase"}

TypeOK ==
  /\ sent \in Nat /\ unread \in Nat /\ fin \in BOOLEAN /\ reset \in BOOLEAN
  /\ wire \in Seq(Nat)
  /\ state \in {"Connected", "Closing", "Closed"}
  /\ peerReadClosed \in BOOLEAN
  /\ inBuffer \in Nat /\ parsed \in Nat
  /\ outBuffer \in Seq(Nat)
  /\ pendingTasks \in Seq(Nat)
  /\ taskRunning \in BOOLEAN /\ closeCallbackPending \in BOOLEAN
  /\ pendingSendCallbacks \in Int
  /\ taskQueue \in Seq(Callback \X Nat)
  /\ interest \in SUBSET {"IN", "OUT"}
  /\ registered \in BOOLEAN /\ mapped \in BOOLEAN /\ fdOpen \in BOOLEAN
  /\ workQueue \in Seq(Nat) /\ poolStopped \in BOOLEAN
  /\ pc \in [Thread -> PC] /\ task \in [Thread -> Nat] /\ parsing \in BOOLEAN
  /\ started \in Seq(Nat) /\ replied \in SUBSET Nat
  /\ cause \in {"none", "drained", "abort"}
  /\ cleanups \in Nat /\ session \in {"none", "own", "next"}
  /\ pushes \in Nat /\ closes \in Nat

(***************************************************************************)
(* The state right after the callback of IoThreadPool::submit (or, for an  *)
(* outbound connection, after the gateway's connect) has registered the    *)
(* channel for EPOLLIN.                                                    *)
(***************************************************************************)
Init ==
  /\ sent = 0 /\ unread = 0 /\ fin = FALSE /\ reset = FALSE /\ wire = <<>>
  /\ state = "Connected"
  /\ peerReadClosed = FALSE /\ inBuffer = 0 /\ parsed = 0 /\ outBuffer = <<>>
  /\ pendingTasks = <<>> /\ taskRunning = FALSE /\ closeCallbackPending = FALSE
  /\ pendingSendCallbacks = 0
  /\ taskQueue = <<>>
  /\ interest = {"IN"} /\ registered = TRUE /\ mapped = ~Outbound /\ fdOpen = TRUE
  /\ workQueue = <<>> /\ poolStopped = FALSE
  /\ pc = [t \in Thread |-> "idle"] /\ task = [t \in Thread |-> 0]
  /\ parsing = FALSE
  /\ started = <<>> /\ replied = {} /\ cause = "none" /\ cleanups = 0 /\ session = "none"
  /\ pushes = 0 /\ closes = 0

-----------------------------------------------------------------------------
(* Control flow of the loop thread *)

\* The loop leaves the current function: back into read()'s parse loop when
\* the function was called from there, else back to the event loop.
After == IF parsing THEN "parse" ELSE "idle"

\* The check after output or tasks have drained is left out.
EofNotChecked(p) == p

\* Entry of maybeFinishAfterPeerEof(), whose caller then continues at p.
EofEntry(p) == IF peerReadClosed /\ state = "Connected" THEN "eofTasks" ELSE p

Goto(t, p) == pc' = [pc EXCEPT ![t] = p]

-----------------------------------------------------------------------------
(* The decisions of the protocol.  Each is followed by the specification;    *)
(* before each stand the mistakes the properties are tried against.          *)

\* MyProtocol::parse returns OK: header and body are in the buffer.
FrameReady == inBuffer >= FrameChunks

\* Every parsed frame goes straight to the pool.
NoSlot == TRUE

\* enqueueTask(): nobody runs a task of this connection.
SlotFree == ~taskRunning

\* maybeFinishAfterPeerEof(), condition one.
TasksDrained == ~taskRunning /\ pendingTasks = <<>>

\* A send callback that is posted but not run is overlooked.
BufferEmptyOnly == outBuffer = <<>>

\* maybeFinishAfterPeerEof(), conditions two to four.
SendsDrained == pendingSendCallbacks = 0 /\ outBuffer = <<>>

\* The cleanup does not wait for the running handler.
NeverDefer == FALSE

\* handleClose(): the close callback has to wait for a running task.
DeferFinalClose == taskRunning

\* The last task does not claim the deferred close.
DeferredCloseForgotten(claimed) == "postEof"

\* onTaskComplete() without a next task: what is posted to the loop.
LastTaskPosts(claimed) == IF claimed THEN "postFinal" ELSE "postEof"

\* A rejected task is dropped without its completion.
RejectDropped == "idle"

\* WorkThreadPool::submit on a stopped pool runs onComplete_ itself.
Rejected == "complete"

\* A send callback on a closing connection returns before it is uncounted.
UncountLate == IF state = "Connected" THEN pendingSendCallbacks - 1
               ELSE pendingSendCallbacks

\* The send callback's first statement.
Uncount == pendingSendCallbacks - 1

\* The interest was changed in the channel and not passed on to epoll.
NotArmed == interest

\* flushSendQueue(): enableWriting() and updateChannelEvent().
ArmWrite == interest \cup {"OUT"}

\* handleClose() without its compare-and-swap.
HandleCloseAgain(why) ==
  /\ state' = "Closing" /\ cause' = why /\ parsing' = FALSE
  /\ Goto(Loop, "closing")

\* handleClose() up to and including its compare-and-swap; the rest of it is
\* the action CloseLocked.  A caller inside read() does nothing more on a
\* connection that is closing: the buffer it would parse has been emptied.
HandleClose(why) ==
  IF state = "Connected"
    THEN /\ state' = "Closing" /\ cause' = why /\ parsing' = FALSE
         /\ Goto(Loop, "closing")
    ELSE /\ UNCHANGED <<state, cause, parsing>>
         /\ Goto(Loop, After)

\* removeConnection() before the business cleanup.
RemoveFirst ==
  [begin |-> "remove", remove |-> "finish", finish |-> "erase", erase |-> "cleanup",
   cleanup |-> "idle"]

\* closeCallBack_(afd_), the lambda of IoThreadPool::submit: closeCallback_(fd), then
\* removeConnection(fd), whose steps are the channel, finishClose() and the map.
CloseOrder ==
  [begin |-> "cleanup", cleanup |-> "remove", remove |-> "finish", finish |-> "erase",
   erase |-> "idle"]

-----------------------------------------------------------------------------
(* The peer *)

PeerSend ==
  /\ ~fin /\ ~reset /\ sent < FrameChunks * MaxReq
  /\ sent' = sent + 1 /\ unread' = unread + 1
  /\ UNCHANGED <<fin, reset, wire, state, bufVars, taskVars,
                 pendingSendCallbacks, taskQueue, epollVars, poolVars, pc, task,
                 parsing, histVars, cause, businessVars>>

PeerFin ==
  /\ ~fin /\ ~reset
  /\ fin' = TRUE
  /\ UNCHANGED <<sent, unread, reset, wire, state, bufVars, taskVars,
                 pendingSendCallbacks, taskQueue, epollVars, poolVars, pc, task,
                 parsing, histVars, cause, businessVars>>

PeerReset ==
  /\ ~reset
  /\ reset' = TRUE
  /\ UNCHANGED <<sent, unread, fin, wire, state, bufVars, taskVars,
                 pendingSendCallbacks, taskQueue, epollVars, poolVars, pc, task,
                 parsing, histVars, cause, businessVars>>

-----------------------------------------------------------------------------
(* Socket events dispatched by the loop *)

\* read(), the readv() loop: take everything the kernel has; end of file
\* stops the interest in reading and goes on to the parse loop.
Read ==
  /\ pc[Loop] = "idle" /\ registered /\ "IN" \in interest
  /\ state = "Connected" /\ ~peerReadClosed
  /\ ~reset /\ (unread > 0 \/ fin)
  /\ inBuffer' = inBuffer + unread /\ unread' = 0
  /\ peerReadClosed' = fin
  /\ interest' = IF fin THEN interest \ {"IN"} ELSE interest
  /\ parsing' = TRUE
  /\ Goto(Loop, "parse")
  /\ UNCHANGED <<sent, fin, reset, wire, state, parsed, outBuffer, taskVars,
                 pendingSendCallbacks, taskQueue, registered, mapped, fdOpen,
                 poolVars, task, histVars, cause, businessVars>>

\* EPOLLERR, or readv()/send() failing: the connection is closed at once.
\* epoll reports the error whatever the channel is registered for.
ErrorEvent ==
  /\ pc[Loop] = "idle" /\ registered /\ reset
  /\ HandleClose("abort")
  /\ UNCHANGED <<peerVars, bufVars, taskVars, pendingSendCallbacks, taskQueue,
                 epollVars, poolVars, task, histVars, businessVars>>

\* write(): send() accepts k messages, then the buffer is empty or EAGAIN.
Write ==
  /\ pc[Loop] = "idle" /\ registered /\ "OUT" \in interest
  /\ state = "Connected" /\ ~reset
  /\ \E k \in 1..Len(outBuffer) :
       /\ wire' = wire \o SubSeq(outBuffer, 1, k)
       /\ outBuffer' = SubSeq(outBuffer, k + 1, Len(outBuffer))
       /\ IF k = Len(outBuffer)
            THEN /\ interest' = interest \ {"OUT"}
                 /\ Goto(Loop, EofEntry("idle"))
            ELSE UNCHANGED <<interest, pc>>
  /\ UNCHANGED <<sent, unread, fin, reset, state, peerReadClosed, inBuffer,
                 parsed, taskVars, pendingSendCallbacks, taskQueue, registered,
                 mapped, fdOpen, poolVars, task, parsing, histVars, cause,
                 businessVars>>

\* checkIdleConnections() found the connection idle; close() runs inline.
\* The timer is real time: it may fire whatever else is going on.
IdleTimeout ==
  /\ pc[Loop] = "idle" /\ mapped /\ state = "Connected"
  /\ HandleClose("abort")
  /\ UNCHANGED <<peerVars, bufVars, taskVars, pendingSendCallbacks, taskQueue,
                 epollVars, poolVars, task, histVars, businessVars>>

-----------------------------------------------------------------------------
(* read(): the parse loop *)

\* A complete frame: enqueueTask() appends it and, if no task of the
\* connection is running, claims the running slot and submits the head.
ParseOK ==
  /\ pc[Loop] = "parse" /\ FrameReady
  /\ inBuffer' = inBuffer - FrameChunks
  /\ parsed' = parsed + 1
  /\ LET q == Append(pendingTasks, parsed + 1) IN
       IF SlotFree
         THEN /\ taskRunning' = TRUE
              /\ pendingTasks' = Tail(q)
              /\ task' = [task EXCEPT ![Loop] = Head(q)]
              /\ Goto(Loop, "submit")
         ELSE /\ pendingTasks' = q
              /\ UNCHANGED <<taskRunning, task, pc>>
  /\ UNCHANGED <<peerVars, state, peerReadClosed, outBuffer,
                 closeCallbackPending, pendingSendCallbacks, taskQueue,
                 epollVars, poolVars, parsing, histVars, cause, businessVars>>

\* A header the protocol rejects (MyProtocol has no error response).
ParseError ==
  /\ pc[Loop] = "parse" /\ inBuffer > 0
  /\ HandleClose("abort")
  /\ UNCHANGED <<peerVars, bufVars, taskVars, pendingSendCallbacks, taskQueue,
                 epollVars, poolVars, task, histVars, businessVars>>

\* No complete frame is left: keep the partial one, unless the peer can no
\* longer complete it; then check for the end of a half-closed connection.
ParseNeedMore ==
  /\ pc[Loop] = "parse" /\ ~FrameReady
  /\ inBuffer' = IF peerReadClosed THEN 0 ELSE inBuffer
  /\ parsing' = FALSE
  /\ Goto(Loop, EofEntry("idle"))
  /\ UNCHANGED <<peerVars, state, peerReadClosed, parsed, outBuffer, taskVars,
                 pendingSendCallbacks, taskQueue, epollVars, poolVars, task,
                 histVars, cause, businessVars>>

-----------------------------------------------------------------------------
(* Tasks: submission, execution, completion *)

\* worksumbitcallback_(task): inline execution on an outbound connection,
\* WorkThreadPool::submit otherwise.  A stopped pool rejects the task, and
\* the submitting thread runs its completion itself.
Submit(t) ==
  /\ pc[t] = "submit"
  /\ IF Outbound THEN Goto(t, "taken") /\ UNCHANGED workQueue
     ELSE IF poolStopped THEN Goto(t, Rejected) /\ UNCHANGED workQueue
     ELSE /\ workQueue' = Append(workQueue, task[t])
          /\ Goto(t, IF t = Loop THEN After ELSE "idle")
  /\ UNCHANGED <<peerVars, state, bufVars, taskVars, pendingSendCallbacks,
                 taskQueue, epollVars, poolStopped, task, parsing, histVars,
                 cause, businessVars>>

\* TaskQueue::pop() by an idle worker.
TakeTask(w) ==
  /\ pc[w] = "idle" /\ workQueue # <<>>
  /\ task' = [task EXCEPT ![w] = Head(workQueue)]
  /\ workQueue' = Tail(workQueue)
  /\ Goto(w, "taken")
  /\ UNCHANGED <<peerVars, state, bufVars, taskVars, pendingSendCallbacks,
                 taskQueue, epollVars, poolStopped, parsing, histVars, cause,
                 businessVars>>

\* task.run_(): the handler is entered only on a connected connection.
StartTask(t) ==
  /\ pc[t] = "taken"
  /\ IF state = "Connected"
       THEN /\ started' = Append(started, task[t])
            /\ Goto(t, "run")
       ELSE /\ Goto(t, "complete")
            /\ UNCHANGED started
  /\ UNCHANGED <<peerVars, state, bufVars, taskVars, pendingSendCallbacks,
                 taskQueue, epollVars, poolVars, task, parsing, replied, pushes,
                 closes, cause, businessVars>>

\* The handler of a login stores the session in sessions_, under the number.
HandlerLogsIn(w) ==
  /\ pc[w] = "run"
  /\ session' = "own"
  /\ UNCHANGED <<peerVars, state, bufVars, taskVars, pendingSendCallbacks, taskQueue,
                 epollVars, poolVars, pc, task, parsing, histVars, cause, cleanups>>

\* The handler returns (or throws) without sending to its own connection.
\* The gateway's handler of a backend response sends to the client's.
HandlerReturns(t) ==
  /\ pc[t] = "run"
  /\ Goto(t, "complete")
  /\ UNCHANGED <<peerVars, state, bufVars, taskVars, pendingSendCallbacks,
                 taskQueue, epollVars, poolVars, task, parsing, histVars, cause,
                 businessVars>>

\* The handler calls sendResponse(): the callback is counted first...
HandlerReplies(w) ==
  /\ pc[w] = "run"
  /\ replied' = replied \cup {task[w]}
  /\ pendingSendCallbacks' = pendingSendCallbacks + 1
  /\ Goto(w, "post")
  /\ UNCHANGED <<peerVars, state, bufVars, taskVars, taskQueue, epollVars,
                 poolVars, task, parsing, started, pushes, closes, cause,
                 businessVars>>

\* ...and posted to the loop second; the handler then returns.
SendPost(t) ==
  /\ pc[t] = "post"
  /\ taskQueue' = Append(taskQueue, <<"send", task[t]>>)
  /\ Goto(t, IF t \in Others THEN "idle" ELSE "complete")
  /\ UNCHANGED <<peerVars, state, bufVars, taskVars, pendingSendCallbacks,
                 epollVars, poolVars, task, parsing, histVars, cause, businessVars>>

\* onTaskComplete(), the critical section: release the running slot (and
\* claim a deferred close) or pass the slot to the next pending task.
OnTaskComplete(t) ==
  /\ pc[t] = "complete"
  /\ IF state # "Connected"
       THEN /\ pendingTasks' = <<>> /\ taskRunning' = FALSE
            /\ closeCallbackPending' = FALSE
            /\ Goto(t, LastTaskPosts(closeCallbackPending))
            /\ UNCHANGED task
     ELSE IF pendingTasks = <<>>
       THEN /\ taskRunning' = FALSE
            /\ Goto(t, LastTaskPosts(FALSE))
            /\ UNCHANGED <<pendingTasks, closeCallbackPending, task>>
       ELSE /\ task' = [task EXCEPT ![t] = Head(pendingTasks)]
            /\ pendingTasks' = Tail(pendingTasks)
            /\ Goto(t, "submit")
            /\ UNCHANGED <<taskRunning, closeCallbackPending>>
  /\ UNCHANGED <<peerVars, state, bufVars, pendingSendCallbacks, taskQueue,
                 epollVars, poolVars, parsing, histVars, cause, businessVars>>

\* onTaskComplete(), after the critical section, on a worker: runInLoop()
\* posts the end-of-file check or the deferred close.
PostToLoop(w) ==
  /\ pc[w] \in {"postEof", "postFinal"}
  /\ taskQueue' = Append(taskQueue,
                         <<IF pc[w] = "postEof" THEN "eof" ELSE "final", 0>>)
  /\ Goto(w, "idle")
  /\ UNCHANGED <<peerVars, state, bufVars, taskVars, pendingSendCallbacks,
                 epollVars, poolVars, task, parsing, histVars, cause, businessVars>>

\* The same on the loop thread, where runInLoop() calls the callback at once.
RunPostedInline ==
  /\ pc[Loop] \in {"postEof", "postFinal"}
  /\ Goto(Loop, IF pc[Loop] = "postEof" THEN EofEntry(After) ELSE CloseOrder.begin)
  /\ UNCHANGED <<peerVars, state, bufVars, taskVars, pendingSendCallbacks, taskQueue,
                 epollVars, poolVars, task, parsing, histVars, cause, businessVars>>

\* runInLoop(): at once on the loop thread, as an outbound connection's tasks are;
\* through the queue from any other.
RunInLoop(t) == IF t = Loop THEN RunPostedInline ELSE PostToLoop(t)

-----------------------------------------------------------------------------
(* Other threads *)

OtherSend(o) ==
  /\ pc[o] = "idle" /\ pushes < MaxPush
  /\ pushes' = pushes + 1
  /\ pendingSendCallbacks' = pendingSendCallbacks + 1
  /\ Goto(o, "post")
  /\ UNCHANGED <<peerVars, state, bufVars, taskVars, taskQueue, epollVars,
                 poolVars, task, parsing, started, replied, closes, cause,
                 businessVars>>

\* Connection::close() from another thread.
OtherClose(o) ==
  /\ pc[o] = "idle" /\ closes < MaxClose
  /\ closes' = closes + 1
  /\ taskQueue' = Append(taskQueue, <<"close", 0>>)
  /\ UNCHANGED <<peerVars, state, bufVars, taskVars, pendingSendCallbacks,
                 epollVars, poolVars, pc, task, parsing, started, replied,
                 pushes, cause, businessVars>>

\* WorkThreadPool::stop(): Server::stop() calls it after
\* closeAllConnections() has run in every loop.
PoolStop ==
  /\ ~Outbound /\ ~poolStopped /\ state # "Connected"
  /\ poolStopped' = TRUE
  /\ UNCHANGED <<peerVars, state, bufVars, taskVars, pendingSendCallbacks,
                 taskQueue, epollVars, workQueue, pc, task, parsing, histVars,
                 cause, businessVars>>

-----------------------------------------------------------------------------
(* Callbacks the loop takes from task_queue_, in order *)

Dequeue(kind) ==
  /\ pc[Loop] = "idle" /\ taskQueue # <<>> /\ Head(taskQueue)[1] = kind
  /\ taskQueue' = Tail(taskQueue)

\* The callback of sendResponse(): uncount, then append to outBuffer_ and
\* flushSendQueue(), whose high-water check closes the connection.
RunSend ==
  /\ Dequeue("send")
  /\ pendingSendCallbacks' = Uncount
  /\ IF state # "Connected"
       THEN UNCHANGED <<outBuffer, interest, state, cause, parsing, pc>>
       ELSE /\ outBuffer' = Append(outBuffer, Head(taskQueue)[2])
            /\ IF Len(outBuffer) + 1 > HighWater
                 THEN HandleClose("abort") /\ UNCHANGED interest
                 ELSE /\ interest' = ArmWrite
                      /\ Goto(Loop, EofEntry("idle"))
                      /\ UNCHANGED <<state, cause, parsing>>
  /\ UNCHANGED <<peerVars, peerReadClosed, inBuffer, parsed, taskVars,
                 registered, mapped, fdOpen, poolVars, task, histVars, businessVars>>

\* maybeFinishAfterPeerEof() posted by a completed task.
RunEof ==
  /\ Dequeue("eof")
  /\ Goto(Loop, EofEntry("idle"))
  /\ UNCHANGED <<peerVars, state, bufVars, taskVars, pendingSendCallbacks,
                 epollVars, poolVars, task, parsing, histVars, cause, businessVars>>

\* The deferred closeCallBack_ posted by the last task of a closing connection.
RunFinal ==
  /\ Dequeue("final")
  /\ Goto(Loop, CloseOrder.begin)
  /\ UNCHANGED <<peerVars, state, bufVars, taskVars, pendingSendCallbacks, epollVars,
                 poolVars, task, parsing, histVars, cause, businessVars>>

\* handleClose() posted by close().
RunClose ==
  /\ Dequeue("close")
  /\ HandleClose("abort")
  /\ UNCHANGED <<peerVars, bufVars, taskVars, pendingSendCallbacks, epollVars,
                 poolVars, task, histVars, businessVars>>

-----------------------------------------------------------------------------
(* maybeFinishAfterPeerEof() and handleClose() *)

\* Condition one, under taskMutex_: no task is running or waiting.
EofTasks ==
  /\ pc[Loop] = "eofTasks"
  /\ Goto(Loop, IF TasksDrained THEN "eofSends" ELSE After)
  /\ UNCHANGED <<peerVars, state, bufVars, taskVars, pendingSendCallbacks,
                 taskQueue, epollVars, poolVars, task, parsing, histVars, cause,
                 businessVars>>

\* Conditions two to four: no counted send callback and no unsent output.
EofSends ==
  /\ pc[Loop] = "eofSends"
  /\ IF SendsDrained
       THEN HandleClose("drained")
       ELSE Goto(Loop, After) /\ UNCHANGED <<state, cause, parsing>>
  /\ UNCHANGED <<peerVars, bufVars, taskVars, pendingSendCallbacks, taskQueue,
                 epollVars, poolVars, task, histVars, businessVars>>

\* handleClose() after the compare-and-swap: drop the waiting tasks and the
\* buffers; with a task running, leave epoll and let its completion finish
\* the close, else finish it now.
CloseLocked ==
  /\ pc[Loop] = "closing"
  /\ pendingTasks' = <<>> /\ inBuffer' = 0 /\ outBuffer' = <<>>
  /\ closeCallbackPending' = DeferFinalClose
  /\ IF DeferFinalClose
       THEN /\ registered' = FALSE /\ interest' = {}
            /\ Goto(Loop, "idle")
       ELSE /\ Goto(Loop, CloseOrder.begin)
            /\ UNCHANGED <<registered, interest>>
  /\ UNCHANGED <<peerVars, state, peerReadClosed, parsed, taskRunning,
                 pendingSendCallbacks, taskQueue, mapped, fdOpen, poolVars, task,
                 parsing, histVars, cause, businessVars>>

-----------------------------------------------------------------------------
(* closeCallBack_: other threads may act between its steps, and the kernel may *)
(* give the number to a new connection as soon as it is closed.                *)

\* The business layer's cleanup: ChatService::onConnectionClosed() takes the session
\* that is stored under the number out of sessions_.  (Without one, and for a link of
\* the gateway, there is nothing to take out.)
BusinessCleanup ==
  /\ pc[Loop] = "cleanup"
  /\ cleanups' = cleanups + 1 /\ session' = "none"
  /\ Goto(Loop, CloseOrder.cleanup)
  /\ UNCHANGED <<peerVars, state, bufVars, taskVars, pendingSendCallbacks, taskQueue,
                 epollVars, poolVars, task, parsing, histVars, cause>>

\* removeConnection(): the channel leaves epoll and channels_, if it is there.
RemoveChannel ==
  /\ pc[Loop] = "remove"
  /\ registered' = FALSE /\ interest' = {}
  /\ Goto(Loop, CloseOrder.remove)
  /\ UNCHANGED <<peerVars, state, bufVars, taskVars, pendingSendCallbacks, taskQueue,
                 mapped, fdOpen, poolVars, task, parsing, histVars, cause, businessVars>>

\* A connection that is found in connections_ is closed for good: finishClose()...
FinishClose ==
  /\ pc[Loop] = "finish"
  /\ state' = IF mapped THEN "Closed" ELSE state
  /\ fdOpen' = IF mapped THEN FALSE ELSE fdOpen
  /\ Goto(Loop, CloseOrder.finish)
  /\ UNCHANGED <<peerVars, bufVars, taskVars, pendingSendCallbacks, taskQueue, interest,
                 registered, mapped, poolVars, task, parsing, histVars, cause,
                 businessVars>>

\* ...and then erased.
EraseConnection ==
  /\ pc[Loop] = "erase"
  /\ mapped' = FALSE
  /\ Goto(Loop, CloseOrder.erase)
  /\ UNCHANGED <<peerVars, state, bufVars, taskVars, pendingSendCallbacks, taskQueue,
                 interest, registered, fdOpen, poolVars, task, parsing, histVars, cause,
                 businessVars>>

\* A closed number is given to the next connection, whose handler stores a session.
NextLogsIn ==
  /\ ~fdOpen
  /\ session' = "next"
  /\ UNCHANGED <<peerVars, state, bufVars, taskVars, pendingSendCallbacks, taskQueue,
                 epollVars, poolVars, pc, task, parsing, histVars, cause, cleanups>>

-----------------------------------------------------------------------------

\* The close is complete: nothing more has to happen.
Terminating ==
  /\ cleanups = 1 /\ pc[Loop] = "idle" /\ UNCHANGED vars

PeerStep == PeerSend \/ PeerFin \/ PeerReset

\* A loop step that follows from work already there (no timer, no writable
\* socket needed).
LoopStep ==
  \/ Read \/ ErrorEvent
  \/ ParseOK \/ ParseError \/ ParseNeedMore
  \/ Submit(Loop) \/ StartTask(Loop) \/ HandlerReturns(Loop)
  \/ OnTaskComplete(Loop) \/ RunInLoop(Loop)
  \/ RunSend \/ RunEof \/ RunFinal \/ RunClose
  \/ EofTasks \/ EofSends \/ CloseLocked
  \/ BusinessCleanup \/ RemoveChannel \/ FinishClose \/ EraseConnection

WorkerStep(w) ==
  \/ Submit(w) \/ TakeTask(w) \/ StartTask(w)
  \/ HandlerLogsIn(w) \/ HandlerReturns(w) \/ HandlerReplies(w) \/ SendPost(w)
  \/ OnTaskComplete(w) \/ RunInLoop(w)

OtherStep(o) == OtherSend(o) \/ SendPost(o) \/ OtherClose(o)

Next ==
  \/ PeerStep
  \/ LoopStep \/ Write \/ IdleTimeout
  \/ \E w \in Workers : WorkerStep(w)
  \/ \E o \in Others : OtherStep(o)
  \/ PoolStop \/ NextLogsIn
  \/ Terminating

\* The loop and the pool's threads keep running; a blocked output ends with
\* the peer reading or with the idle timer.
Fairness ==
  /\ WF_vars(LoopStep)
  /\ WF_vars(outBuffer # <<>> /\ (Write \/ IdleTimeout))
  /\ \A w \in Workers : WF_vars(WorkerStep(w))
  /\ \A o \in Others : WF_vars(SendPost(o))

Spec == Init /\ [][Next]_vars
FairSpec == Spec /\ Fairness
-----------------------------------------------------------------------------
(* Safety *)

\* Threads that hold the connection's single running slot.
Executing == {"submit", "taken", "run", "post", "complete"}
Holders == {t \in Workers \cup {Loop} : pc[t] \in Executing}

InHandler == {t \in Workers \cup {Loop} : pc[t] \in {"run", "post"}}

\* Handlers of one connection never overlap and are entered in the order in
\* which the requests arrived, without a gap: taskRunning_ and pendingTasks_
\* make the shared pool serial per connection.
SerialFifo ==
  /\ \A t, u \in InHandler : t = u
  /\ \A i \in 1..Len(started) : started[i] = i

\* Responses leave the socket in the order of their requests, although each
\* is posted to the loop by whichever worker ran the handler, and with the
\* messages that others push (0) between them.
ReplyOrder ==
  \A i, j \in 1..Len(wire) :
    i < j /\ wire[i] # 0 /\ wire[j] # 0 => wire[i] < wire[j]

\* A close decided by maybeFinishAfterPeerEof() loses nothing: every complete
\* frame the peer sent before its end of file was handed to the handler and
\* every response the handlers produced has been accepted by the kernel.
DrainedCloseLosesNothing ==
  cause = "drained" =>
    /\ Len(started) = sent \div FrameChunks
    /\ \A r \in replied : \E i \in 1..Len(wire) : wire[i] = r

\* closeCallBack_ (which destroys the session) runs at most once, and from
\* then on no handler of the connection runs, waits or can still be started.
CleanupIsolation ==
  /\ cleanups <= 1
  /\ cleanups = 1 => Holders = {} /\ workQueue = <<>> /\ pendingTasks = <<>>

\* When the descriptor is closed, and its number can be given away, this connection
\* has nothing left under the number: its session was taken out by the one business
\* cleanup, no handler is left that could store another, and the channel is out of
\* epoll.  (The entry in connections_ is erased after that, on the same thread.)
FdReleasedLast ==
  ~fdOpen => /\ state = "Closed" /\ cleanups = 1 /\ session # "own"
             /\ Holders = {} /\ ~registered

\* The session of the next connection with the number is not destroyed or replaced by
\* what this one still does: a late cleanup, or a handler that ran on behind it.
NextSessionKept == [][session = "next" => session' = "next"]_vars

\* The posted final callbacks, and the threads about to post one.
FinalPosted == {i \in 1..Len(taskQueue) : taskQueue[i][1] = "final"}
FinalThreads == {t \in Thread : pc[t] = "postFinal"}
NoFinal == FinalPosted = {} /\ FinalThreads = {}

\* A close that has begun is owned by exactly one party until its cleanup: the loop
\* inside handleClose() or closeCallBack_, the running task that will claim the
\* deferred close, or the one posted final callback.
CloseOwned ==
  state = "Closing" /\ cleanups = 0 =>
    \/ pc[Loop] \in {"closing", "cleanup"} /\ ~closeCallbackPending /\ NoFinal
    \/ /\ pc[Loop] \notin {"closing", "cleanup"}
       /\ closeCallbackPending /\ taskRunning /\ NoFinal
    \/ /\ pc[Loop] \notin {"closing", "cleanup"} /\ ~closeCallbackPending /\ ~taskRunning
       /\ \/ FinalPosted = {} /\ \E t \in Workers : FinalThreads = {t}
          \/ FinalThreads = {} /\ \E i \in 1..Len(taskQueue) : FinalPosted = {i}

\* Unsent output always has write interest registered with epoll, and write
\* interest is dropped with the last byte.
OutputArmed ==
  state = "Connected" => (outBuffer # <<>> <=> "OUT" \in interest)

\* pendingSendCallbacks_ counts exactly the sends that are announced and not
\* yet applied: those being posted and those in task_queue_.
SendCountExact ==
  pendingSendCallbacks =
    Cardinality({t \in Thread : pc[t] = "post"})
      + Cardinality({i \in 1..Len(taskQueue) : taskQueue[i][1] = "send"})

\* The connection implements the service it promises to the business layer.
Service == INSTANCE SessionService
             WITH entered <- started, active <- InHandler # {},
                  open <- state = "Connected", cleaned <- cleanups > 0

\* Refinement: every step of the connection is a step of SessionService or
\* leaves the service's state alone.
ServiceSpec == Service!Spec
=============================================================================
