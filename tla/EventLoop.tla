------------------------------ MODULE EventLoop ------------------------------
(***************************************************************************)
(* One event loop of the I/O pool (Reactor/EventLoop.cpp) with the main    *)
(* thread that accepts connections for it and the worker threads that post *)
(* callbacks to it.  Two things are in question: that the eventfd protocol *)
(* of runInLoop() and loop() loses no callback, and that the loop's maps,  *)
(* which are keyed by descriptor numbers, never mistake one connection for *)
(* another although the kernel reuses the numbers at once.                 *)
(*                                                                         *)
(* epoll_wait() hands the loop a batch of events that was collected before *)
(* the first of them is dispatched.  The order inside a batch is up to the *)
(* kernel: batch is a set, and the loop takes any of it next.              *)
(*                                                                         *)
(* A connection is its number.  What its events do to it is the subject of *)
(* Connection; here an event can only close it, at once or, with a task    *)
(* running, deferred to a final callback that a worker posts.              *)
(***************************************************************************)
EXTENDS Integers, Sequences, FiniteSets

CONSTANTS
  Fds,          \* descriptor numbers the kernel can give to a connection
  Workers,      \* threads that post callbacks
  MaxConn,      \* bound: connections accepted
  MaxClose      \* bound: close() calls by workers

ASSUME LoopAssumption ==
  /\ MaxConn \in Nat \ {0} /\ MaxClose \in Nat
  /\ "main" \notin Workers

Conns == 1..MaxConn
Posters == Workers \cup {"main"}
NoConn == 0

Callbacks == {"build", "close", "final"} \X Conns

VARIABLES
  \* the kernel
  owner,        \* which connection's socket a descriptor number stands for
  failed,       \* sockets with a pending error
  signalled,    \* the eventfd's counter is not zero
  expired,      \* the timerfd is readable
  \* EventLoop
  taskQueue,    \* task_queue_
  tasks,        \* the callbacks swapped out of it
  channels,     \* channels_: descriptor -> connection
  connections,  \* connections_: descriptor -> connection
  stop,         \* stop_
  place, batch, \* place of the loop; events of the batch not yet dispatched
  \* connections
  fd,           \* descriptor of each connection
  deferred,     \* closing, waiting for the running task
  \* other threads
  poster,       \* place of each thread in runInLoop()
  hand,         \* the callback it posts
  accepted, closes,
  \* history
  ran,          \* callbacks run, in order
  wrongly       \* connections closed for an error their socket did not have

kernelVars == <<owner, failed, signalled, expired>>
mapVars    == <<channels, connections, fd, deferred>>
threadVars == <<poster, hand, accepted, closes>>

vars == <<kernelVars, taskQueue, tasks, mapVars, stop, place, batch,
          threadVars, ran, wrongly>>

Event == ({"error"} \X Fds) \cup {<<"wakeup", 0>>, <<"timer", 0>>}

TypeOK ==
  /\ owner \in [Fds -> 0..MaxConn] /\ failed \subseteq Conns
  /\ signalled \in BOOLEAN /\ expired \in BOOLEAN
  /\ taskQueue \in Seq(Callbacks) /\ tasks \in Seq(Callbacks)
  /\ channels \in [Fds -> 0..MaxConn] /\ connections \in [Fds -> 0..MaxConn]
  /\ stop \in BOOLEAN
  /\ place \in {"wait", "dispatch", "swap", "run", "exited"}
  /\ batch \subseteq Event
  /\ fd \in [Conns -> Fds] /\ deferred \subseteq Conns
  /\ poster \in [Posters -> {"idle", "post", "wake"}]
  /\ hand \in [Posters -> Callbacks]
  /\ accepted \in 0..MaxConn /\ closes \in 0..MaxClose
  /\ ran \in Seq(Callbacks) /\ wrongly \subseteq Conns

Init ==
  /\ owner = [f \in Fds |-> NoConn] /\ failed = {}
  /\ signalled = FALSE /\ expired = FALSE
  /\ taskQueue = <<>> /\ tasks = <<>>
  /\ channels = [f \in Fds |-> NoConn] /\ connections = [f \in Fds |-> NoConn]
  /\ stop = FALSE /\ place = "wait" /\ batch = {}
  /\ fd \in {[c \in Conns |-> f] : f \in Fds} /\ deferred = {}
  /\ poster = [p \in Posters |-> "idle"]
  /\ hand = [p \in Posters |-> <<"close", 1>>]
  /\ accepted = 0 /\ closes = 0 /\ ran = <<>> /\ wrongly = {}

-----------------------------------------------------------------------------
(* The kernel *)

\* A socket fails (EPOLLERR).
SocketFails(c) ==
  /\ c \notin failed /\ \E f \in Fds : owner[f] = c
  /\ failed' = failed \cup {c}
  /\ UNCHANGED <<owner, signalled, expired, taskQueue, tasks, mapVars, stop,
                 place, batch, threadVars, ran, wrongly>>

\* The timerfd expires, every five seconds.
TimerExpires ==
  /\ ~expired
  /\ expired' = TRUE
  /\ UNCHANGED <<owner, failed, signalled, taskQueue, tasks, mapVars, stop,
                 place, batch, threadVars, ran, wrongly>>

\* The events epoll reports: registered descriptors only.
Ready ==
  {<<"error", f>> : f \in {g \in Fds : channels[g] # NoConn
                                       /\ channels[g] \in failed}}
    \cup (IF signalled THEN {<<"wakeup", 0>>} ELSE {})
    \cup (IF expired THEN {<<"timer", 0>>} ELSE {})

-----------------------------------------------------------------------------
(* Threads that post *)

\* Acceptor::handleAccept() and IoThreadPool::submit(), on the main thread:
\* accept4() returns a free descriptor number.
Accept(f) ==
  /\ poster["main"] = "idle" /\ accepted < MaxConn /\ ~stop
  /\ owner[f] = NoConn
  /\ accepted' = accepted + 1
  /\ owner' = [owner EXCEPT ![f] = accepted + 1]
  /\ fd' = [fd EXCEPT ![accepted + 1] = f]
  /\ hand' = [hand EXCEPT !["main"] = <<"build", accepted + 1>>]
  /\ poster' = [poster EXCEPT !["main"] = "post"]
  /\ UNCHANGED <<failed, signalled, expired, taskQueue, tasks, channels,
                 connections, deferred, stop, place, batch, closes, ran, wrongly>>

\* Connection::close() by a worker that still holds the connection.
CloseFromOutside(w, c) ==
  /\ poster[w] = "idle" /\ closes < MaxClose
  /\ \E i \in 1..Len(ran) : ran[i] = <<"build", c>>
  /\ closes' = closes + 1
  /\ hand' = [hand EXCEPT ![w] = <<"close", c>>]
  /\ poster' = [poster EXCEPT ![w] = "post"]
  /\ UNCHANGED <<kernelVars, taskQueue, tasks, mapVars, stop, place, batch,
                 accepted, ran, wrongly>>

\* Connection::onTaskComplete() of a connection whose close was deferred.
TaskCompletes(w, c) ==
  /\ poster[w] = "idle" /\ c \in deferred
  /\ deferred' = deferred \ {c}
  /\ hand' = [hand EXCEPT ![w] = <<"final", c>>]
  /\ poster' = [poster EXCEPT ![w] = "post"]
  /\ UNCHANGED <<kernelVars, taskQueue, tasks, channels, connections, fd, stop,
                 place, batch, accepted, closes, ran, wrongly>>

\* The callback overtakes those that wait.
PostFront(q, cb) == <<cb>> \o q

\* task_queue_.emplace_back(cb)
PostBack(q, cb) == Append(q, cb)

\* runInLoop() from another thread: queue the callback under mtx_...
Post(p) ==
  /\ poster[p] = "post"
  /\ taskQueue' = PostBack(taskQueue, hand[p])
  /\ poster' = [poster EXCEPT ![p] = "wake"]
  /\ UNCHANGED <<kernelVars, tasks, mapVars, stop, place, batch, hand, accepted,
                 closes, ran, wrongly>>

\* ...and wakeUp() after releasing it.
WakeUp(p) ==
  /\ poster[p] = "wake"
  /\ signalled' = TRUE
  /\ poster' = [poster EXCEPT ![p] = "idle"]
  /\ UNCHANGED <<owner, failed, expired, taskQueue, tasks, mapVars, stop, place,
                 batch, hand, accepted, closes, ran, wrongly>>

\* stop() only sets the flag.
StopSilently == signalled

\* stop() wakes the loop.
StopSignal == TRUE

\* EventLoop::stop(), by the thread that called IoThreadPool::stop().
Stop ==
  /\ poster["main"] = "idle" /\ ~stop
  /\ stop' = TRUE /\ signalled' = StopSignal
  /\ UNCHANGED <<owner, failed, expired, taskQueue, tasks, mapVars, place, batch,
                 threadVars, ran, wrongly>>

-----------------------------------------------------------------------------
(* The loop *)

\* The descriptor is closed although a task is still running.
CloseSetAtOnce(S, D) ==
  LET shut == {fd[c] : c \in S}
      gone == {fd[c] : c \in S \ D}
  IN  /\ channels' = [f \in Fds |-> IF f \in shut THEN NoConn ELSE channels[f]]
      /\ connections' =
           [f \in Fds |-> IF f \in gone THEN NoConn ELSE connections[f]]
      /\ owner' = [f \in Fds |-> IF f \in shut THEN NoConn ELSE owner[f]]
      /\ deferred' = deferred \cup D

\* handleClose() of the connections in S; those in D have a task running and
\* only leave epoll, the others go through removeConnection() and close(2).
CloseSet(S, D) ==
  LET shut == {fd[c] : c \in S}
      gone == {fd[c] : c \in S \ D}
  IN  /\ channels' = [f \in Fds |-> IF f \in shut THEN NoConn ELSE channels[f]]
      /\ connections' =
           [f \in Fds |-> IF f \in gone THEN NoConn ELSE connections[f]]
      /\ owner' = [f \in Fds |-> IF f \in gone THEN NoConn ELSE owner[f]]
      /\ deferred' = deferred \cup D

\* Connections whose handleClose() would do something.
Closable == {c \in Conns : c <= accepted /\ channels[fd[c]] = c}

\* epoll_wait() returns everything that is ready.
EpollWait ==
  /\ place = "wait" /\ Ready # {}
  /\ batch' = Ready
  /\ place' = "dispatch"
  /\ UNCHANGED <<kernelVars, taskQueue, tasks, mapVars, stop, threadVars, ran,
                 wrongly>>

\* The wakeup event: read the eventfd first...
DispatchWakeup ==
  /\ place = "dispatch" /\ <<"wakeup", 0>> \in batch
  /\ batch' = batch \ {<<"wakeup", 0>>}
  /\ signalled' = FALSE
  /\ place' = "swap"
  /\ UNCHANGED <<owner, failed, expired, taskQueue, tasks, mapVars, stop,
                 threadVars, ran, wrongly>>

\* ...and take the queue second, under mtx_.
SwapTasks ==
  /\ place = "swap"
  /\ tasks' = taskQueue /\ taskQueue' = <<>>
  /\ place' = "run"
  /\ UNCHANGED <<kernelVars, mapVars, stop, batch, threadVars, ran, wrongly>>

TakeCallback(kind) ==
  /\ place = "run" /\ tasks # <<>> /\ Head(tasks)[1] = kind
  /\ tasks' = Tail(tasks)
  /\ ran' = Append(ran, Head(tasks))

\* The callback of IoThreadPool::submit(): updateChannel, updateConnection.
RunBuild ==
  /\ TakeCallback("build")
  /\ LET c == Head(tasks)[2] IN
       /\ channels' = [channels EXCEPT ![fd[c]] = c]
       /\ connections' = [connections EXCEPT ![fd[c]] = c]
  /\ UNCHANGED <<kernelVars, taskQueue, fd, deferred, stop, place, batch,
                 threadVars, wrongly>>

\* handleClose() posted by close(); its compare-and-swap ignores a connection
\* that is closing or closed.
RunClose ==
  /\ TakeCallback("close")
  /\ LET S == {Head(tasks)[2]} \cap Closable IN \E D \in SUBSET S : CloseSet(S, D)
  /\ UNCHANGED <<failed, signalled, expired, taskQueue, fd, stop, place, batch,
                 threadVars, wrongly>>

\* removeConnection() without finishClose().
FdKept(f) == owner

\* finishClose(): close(2) gives the number back to the kernel.
FdReleased(f) == [owner EXCEPT ![f] = NoConn]

\* The deferred close callback: removeConnection(), which finds the connection
\* in connections_ by its descriptor.
RunFinal ==
  /\ TakeCallback("final")
  /\ LET f == fd[Head(tasks)[2]] IN
       /\ connections' = [connections EXCEPT ![f] = NoConn]
       /\ owner' = FdReleased(f)
  /\ UNCHANGED <<failed, signalled, expired, taskQueue, channels, fd, deferred,
                 stop, place, batch, threadVars, wrongly>>

\* The eventfd is read when the callbacks have run, not before the swap only.
ReadAfterTasks == FALSE

\* A wakeUp() since the read is kept for the next round.
CounterAfterTasks == signalled

\* The swapped callbacks have all run.
RunDone ==
  /\ place = "run" /\ tasks = <<>>
  /\ signalled' = CounterAfterTasks
  /\ place' = "dispatch"
  /\ UNCHANGED <<owner, failed, expired, taskQueue, tasks, mapVars, stop, batch,
                 threadVars, ran, wrongly>>

\* handleTimer() and checkIdleConnections(): close whichever are idle.
DispatchTimer ==
  /\ place = "dispatch" /\ <<"timer", 0>> \in batch
  /\ batch' = batch \ {<<"timer", 0>>}
  /\ expired' = FALSE
  /\ \E S \in SUBSET Closable : \E D \in SUBSET S : CloseSet(S, D)
  /\ UNCHANGED <<failed, signalled, taskQueue, tasks, fd, stop, place,
                 threadVars, ran, wrongly>>

\* An error event: the channel now registered under the number, if any, is
\* told, and closes its connection.
DispatchError(f) ==
  /\ place = "dispatch" /\ <<"error", f>> \in batch
  /\ batch' = batch \ {<<"error", f>>}
  /\ LET S == {channels[f]} \cap Closable IN
       /\ \E D \in SUBSET S : CloseSet(S, D)
       /\ wrongly' = wrongly \cup (S \ failed)
  /\ UNCHANGED <<failed, signalled, expired, taskQueue, tasks, fd, stop, place,
                 threadVars, ran>>

\* The batch is done; the loop tests stop_ before it waits again.
EndOfBatch ==
  /\ place = "dispatch" /\ batch = {}
  /\ place' = IF stop THEN "exited" ELSE "wait"
  /\ UNCHANGED <<kernelVars, taskQueue, tasks, mapVars, stop, batch, threadVars,
                 ran, wrongly>>

Idle ==
  /\ place = "exited" \/ (place = "wait" /\ Ready = {})
  /\ UNCHANGED vars

LoopStep ==
  \/ EpollWait \/ DispatchWakeup \/ SwapTasks
  \/ RunBuild \/ RunClose \/ RunFinal \/ RunDone
  \/ DispatchTimer \/ (\E f \in Fds : DispatchError(f))
  \/ EndOfBatch

PosterStep(p) == Post(p) \/ WakeUp(p)

Next ==
  \/ \E c \in Conns : SocketFails(c)
  \/ TimerExpires
  \/ \E f \in Fds : Accept(f)
  \/ \E w \in Workers, c \in Conns : CloseFromOutside(w, c) \/ TaskCompletes(w, c)
  \/ \E p \in Posters : PosterStep(p)
  \/ Stop
  \/ LoopStep
  \/ Idle

\* A thread inside runInLoop() leaves it and the loop thread is scheduled.
Fairness ==
  /\ WF_vars(LoopStep)
  /\ \A p \in Posters : WF_vars(PosterStep(p))

Spec == Init /\ [][Next]_vars /\ Fairness

-----------------------------------------------------------------------------
\* The eventfd protocol implements the callback queue: nothing is lost, run
\* twice or overtaken, although the loop drains a batch while others post.
Exec == INSTANCE Executor
          WITH pending <- tasks \o taskQueue, halted <- place = "exited"

ExecutorSpec == Exec!Spec

\* A loop that is about to sleep, or asleep, with a callback in its queue will
\* be woken: the counter is up or the poster has not reached wakeUp() yet.
NoLostWakeup ==
  taskQueue # <<>> /\ place \in {"wait", "dispatch", "run"} =>
    \/ signalled
    \/ \E p \in Posters : poster[p] = "wake"

\* No descriptor leaks: a socket that is open is in the maps, or on its way
\* into them, or waits for its final callback.
NoLeak ==
  \A f \in Fds :
    owner[f] # NoConn /\ connections[f] = NoConn =>
      LET cb == <<"build", owner[f]>> IN
        \/ \E i \in 1..Len(tasks \o taskQueue) : (tasks \o taskQueue)[i] = cb
        \/ poster["main"] = "post" /\ hand["main"] = cb

\* removeConnection(): the maps never point at another connection's socket.  A
\* number stays taken from accept4() until the connection stored under it has
\* left both maps, also while its close waits for a task or sits in the queue;
\* and an open socket is never left out of them.
MapsMatchSockets ==
  /\ TypeOK /\ NoLeak
  /\ \A f \in Fds :
       /\ channels[f] # NoConn => channels[f] = owner[f]
       /\ connections[f] # NoConn => connections[f] = owner[f]
       /\ channels[f] # NoConn => connections[f] = channels[f]

\* The callback with which the accepting thread hands a connection over is run,
\* unless the loop was told to stop.
CallbacksRun ==
  \A c \in Conns :
    (poster["main"] = "post" /\ hand["main"] = <<"build", c>>) ~>
      (stop \/ \E i \in 1..Len(ran) : ran[i] = <<"build", c>>)

\* stop() ends the loop, whatever it was doing.
StopExits == stop ~> place = "exited"

\* Channel::handleEvent(): a connection is closed through the error path only
\* for an error of its own socket.
ErrorsAreReal == wrongly = {}
=============================================================================
