# EchoNet: a TLA+ model of the server

EchoNet is a C++ chat server built on a reactor (epoll event loops, one
connection object per socket, a shared pool of worker threads) with a gateway
in front of several back ends and a Qt client.  This directory holds TLA+
modules for its parts, TLC configurations that check them on small instances,
and TLAPS proofs of nearly all of their safety properties for every size of the
system.

Paths below are relative to the repository root (`src/` in `PROJECT.json`).

## 1. The system

| Part | State | Operations | Talks to |
|---|---|---|---|
| `Connection` (`src/Net/Connection.cpp`) | `state_`, `peerReadClosed_`, buffers, `pendingTasks_`, `taskRunning_`, `closeCallbackPending_`, `pendingSendCallbacks_` | `read`, `write`, `sendResponse`, `close`, `handleClose`, `maybeFinishAfterPeerEof`, `finishClose`, `enqueueTask`, `onTaskComplete`, `flushSendQueue` | its `EventLoop` (registration, `runInLoop`), the worker pool (`worksumbitcallback_`), the business layer (`businessHandler_`, `closeCallBack_`) |
| `EventLoop` (`src/Reactor/EventLoop.cpp`), `Channel` | `task_queue_`, eventfd, `channels_`, `connections_`, timer, `stop_` | `loop`, `runInLoop`, `wakeUp`, `stop`, `updateChannel`, `updateChannelEvent`, `removeChannel`, `removeConnection`, `closeAllConnections`, `checkIdleConnections` | every thread that posts a callback |
| Worker pool (`WorkThreadPool`, `TaskQueue`) | queue, `stop_`, threads | `submit`/`tryPush`, `pop`, `worker`, `stop` | loops submit; completions submit the next task |
| `Server`, `Acceptor`, `IoThreadPool` | the loops, the listener, `next_` | `start`, `handleAccept`, `submit`, `closeAllConnections`, `waitForPendingCallbacks`, `stop` | main thread, loops, workers |
| `AsyncLogger` | queue, `stop_`, writer thread | `log`, `writeLoop`, `stop` | every thread |
| `ChatService`, `Room`, `Session` | sessions by descriptor, rooms, members, user names, message queue to the database | login, create/join/leave room, send, heartbeat, `onConnectionClosed`, writer thread | handlers on workers, cleanup on loops |
| Gateway (`gateway_main.cpp`), `ServiceRegistry` | pending requests, back ends, last pong, snapshot | forward, answer, heartbeat, health check, monitor, cleanup | inbound and outbound connections, Redis |
| Message writer and registration (in `ChatService.cpp`) | `msg_queue_`, the batch, `db_writer_stop_`, `heartbeat_stop_`, the key in Redis | `enqueueMessage`, `dbWriterLoop`, `batchInsertMessages`, `heartbeatLoop`, `registerToRedis`, `~ChatService` | handlers, both pools |
| `MySQLPool`, `RedisPool` | free connections | `getConnection` (with `mysql_ping` and reconnection in the first), `releaseConnection` | `ChatService`, gateway |
| `TokenBucket`, `RedisTokenBucket` | buckets by key: tokens, time of the last refill | `tryAcquire`, `removeKey` | `handleMessage`, `onConnectionClosed` |
| `Buffer`, `MyProtocol` | an array, `read_ptr_`, `write_ptr_` | append, make room, consume, parse, encode | `Connection::read` |
| HTTP classes | `parsestate_`, the request so far | parse, reset, respond | `Connection::read`; neither executable uses them |
| Qt client (`QT/loginwindow.cpp`, `QT/chatwindow.cpp`) | `recvBuf_`, `currentRoomId_`, which controls are enabled, the timer | the slots of buttons, socket and timer, `parsePacket`, message boxes | one session of `ChatService` |

What is hard in this system:

* One connection is worked on by three kinds of threads at once: its loop, the
  worker that runs its current handler, and workers of *other* connections that
  push to it.  The order of requests, the order of responses, a half-close
  that must wait for everything in flight, and a close that must wait for a
  running handler all rest on one mutex, one counter and the order of a few
  statements.
* Callbacks travel through an eventfd and a vector that is swapped; a lost
  wakeup would only show as a rare delay.
* Maps are keyed by descriptor numbers, which the kernel reuses at once.
* The shutdown has to bring three groups of threads to rest in the right order.
* Failures are part of the protocol: a rejected task, a full output buffer, a
  reset, a silent peer, a database that goes away while connections to it are
  pooled, borrowed or in use.
* A stream may be cut anywhere, also at the end of the receive buffer, which is
  moved and grown under the parser.
* The client asks without waiting for answers, and handles frames inside the
  nested event loops of its message boxes.

For each component the properties that make it correct:

* `Connection`: handlers serial and in order; responses in order; a drained
  close loses nothing; the cleanup runs once, alone and last; the descriptor is
  closed when nothing of the connection is left under its number; every close and
  every half-close ends.
* `EventLoop`: posted callbacks run once, in order and in time; the maps match
  the sockets; no descriptor leaks; events reach the connection they are for.
* Worker pool: a task is completed exactly once; `stop` drains and returns.
* Shutdown: every accepted connection is cleaned up; nothing is left in a
  queue; `Server::stop` returns.
* `AsyncLogger`: lines in order, none lost, `stop` flushes and returns.
* `ChatService`: a session and the room it names know each other; empty rooms
  disappear; a listed room has its row in the database; no session survives its
  connection.
* Gateway: each forwarded request is answered or timed out once; a client is never
  taken for a back end.
* Message writer: a message is stored once and in order, or lost in one of the
  two ways the code has (full queue, failed batch); the queue is drained before
  the writer ends.
* Pools: a connection is in the pool or with one borrower; a server stays
  registered.
* Rate limiting: a bucket grants no more than its capacity and rate allow; the
  buckets go with their connections.
* Framing: exactly the requests that have arrived whole are delivered, in order
  and unchanged, however the stream is cut (finding 7 is an exception).
* Qt client: what it offers the user agrees with the session on the server.

The hazards behind these, line by line, are in `PROJECT.json`.

## 2. Modules

| Module | Models |
|---|---|
| `Connection` | one connection with its loop, the workers and outside threads |
| `SessionService` | what a connection promises to the business layer (abstract) |
| `ConnectionInv` | the inductive invariants of `Connection` |
| `ConnectionProofs` | theorems about `Connection` |
| `EventLoopProofs`, `ServerStopProofs`, `ChatRoomsProofs`, `GatewayProofs` | theorems about the module of that name |
| `BackgroundProofs` | theorems about `WorkerPool`, `MessageWriter` and `AsyncLogger` |
| `RequestsProofs` | theorems about `RateLimit` and `QtClient` |
| `FramingProofs` | theorems about `ByteBuffer`, `Framing` and `HttpFraming` |
| `EventLoop` | one loop: eventfd, batch of events, descriptor-keyed maps, timer |
| `Executor` | what `runInLoop` promises (abstract) |
| `WorkerPool` | `WorkThreadPool` over `TaskQueue` |
| `ServerStop` | accept, serve and `Server::stop` across main thread, loops, workers |
| `AsyncLogger` | the logger with its condition variable |
| `ChatRooms` | `ChatService`'s sessions, rooms and members, and the table `rooms` |
| `Gateway` | requests, links to back ends, and the monitor, health and cleanup threads |
| `MessageWriter` | message queue, writer thread, registration in Redis, both database pools, `~ChatService` |
| `RateLimit` | the two token buckets in front of the handlers |
| `ByteBuffer` | class `Buffer`, as functions |
| `Framing` | `Connection::read` and `MyProtocol::parse` over bytes, on a `ByteBuffer` |
| `HttpFraming` | the same with `HttpContext` over tokens, on a `ByteBuffer` |
| `QtClient` | the two windows, the streams to and from the server, and its session |
| `MCConnection`, `MCEventLoop`, `MCAsyncLogger`, `MCMessageWriter`, `MCQtClient`, `MCGateway` | one module each, for TLC |
| `MCConnectionLive` | an accepted and an outbound `Connection` |
| `MCLoops` | `EventLoop` and `ServerStop` |
| `MCStopping` | `MessageWriter`, `WorkerPool` and `AsyncLogger` |
| `MCRequests` | `QtClient`, `Framing`, `HttpFraming`, `Gateway`, `RateLimit` and `ChatRooms` |

The last four hold several modules that share no variable.  Their variable
`part` is chosen by the initial predicate and never changes; a behaviour moves
the chosen part with that part's own fairness and leaves the others in their
initial state.  A run therefore checks the disjoint union of the parts, which is
exactly the parts one by one, in one state graph of moderate size.  The parts have
names of their own for that (`ServerInit`, `PoolNext`, `loggerVars`, `FramingSpec`,
...), so that one `MC` module extends them next to each other and the run checks the
very definitions the theorems are about.  The assumptions of `WorkerPool` and
`ServerStop` are definitions in these modules and are assumed, on the values the run
gives, as `PartsAssumption` of the `MC` module; the other modules have an `ASSUME` of
their own.

How they fit: `EventLoop` implements `Executor`, the FIFO queue of callbacks
against which `Connection` (variable `taskQueue`) and `ServerStop` (variable
`queue`) are written.  `WorkerPool` shows that a submitted task is completed
exactly once, which `Connection` uses for its task (`Submit`, `TakeTask`,
`Rejected`).  `Connection` implements `SessionService`.  `ServerStop` reduces a
connection to the phases that `Connection` shows it goes through, and in turn
justifies the guard of `Connection`'s `PoolStop`: the pool is stopped only when
every connection has begun to close (`PoolStopsLast`).  `ChatRooms` relies on
`Connection` for handlers that are serial and a cleanup that follows them
(`SerialFifo`, `CleanupIsolation`) and for an end of both before the number is used
again (`FdReleasedLast`, `NextSessionKept`), and so does `RateLimit`.
`Framing` is the detail behind `Connection`'s frames of two chunks
(`FrameReady`).  `MessageWriter`'s `StopWriter` may assume that no handler runs
any more, which is what `CleanExit` of `ServerStop` shows.  `QtClient` has the
answers of one session as `ChatRooms` and `RateLimit` give them.

In the modules, an operator with a comment that describes a mistake and that
nothing else uses (`NoSlot`, `NeverDefer`, `ReadAfterTasks`, ...) is the wrong
form of the definition after it.  With it in place the property named in
`PROJECT.json` under "mutants" fails, which shows that the property depends on
that line of the code.

### Connection

A step is what a thread does between two points where another thread can see
it: a critical section of `taskMutex_` or of the loop's `mtx_`, one atomic
operation, or a run of code on state that only the loop touches.  `pc[t]` is
the place of thread `t`:

| `pc` | code |
|---|---|
| `parse` | the loop of `read()` |
| `submit` | about to call `worksumbitcallback_` |
| `taken`, `run` | before and inside `task.run_` |
| `post` | in `sendResponse`, counted, not yet posted |
| `complete` | before `onTaskComplete`'s critical section |
| `postEof`, `postFinal` | after it, before `runInLoop` |
| `eofTasks`, `eofSends` | before the two parts of `maybeFinishAfterPeerEof` |
| `closing` | in `handleClose`, after its compare-and-swap |
| `cleanup`, `remove`, `finish`, `erase` | in `closeCallBack_`: before the business cleanup, the removal from epoll and `channels_`, `finishClose`, the erasure from `connections_` |

The steps of `closeCallBack_` are actions of their own (`BusinessCleanup`,
`RemoveChannel`, `FinishClose`, `EraseConnection`; `CloseOrder` is their order), since
the number is the kernel's to give away as soon as `finishClose` has closed it, before
`connections_` is erased.  `session` says whose session `sessions_` holds under the
number: a handler may store the connection's own (`HandlerLogsIn`) while it runs, the
next connection with the number stores its own (`NextLogsIn`) once the number is free,
and the cleanup takes out whichever is there.

Abstractions, and why they are harmless for the properties:

* A frame is two chunks (16-byte header, body), so a read can end inside a
  frame.  A request is its number; a response carries it; a push carries 0.
* Output is counted in messages, and so is the high-water mark.  `send` accepts
  any number of whole messages.
* A handler sends at most one response on its own connection.  A handler that
  sends several does it one after the other from the same thread.
* The loop may take a socket event between two callbacks of a batch; the code
  finishes the batch first.  The model has more behaviours than the code here.
* `MyProtocol` never supplies an error response, so that branch of `read` is
  not modelled.
* The object is kept alive by the `shared_ptr`s in tasks and maps; callbacks
  that find it gone (`weak_ptr`) would do nothing.

`Outbound = TRUE` is the gateway's connection to a back end: tasks run inline
in the loop thread, and the connection is not in `connections_`, so that its
close ends with the close callback and it never becomes `Closed`.

### EventLoop

`batch` is the set of events that one `epoll_wait` returned and that are not
dispatched yet; the loop takes them in any order.  What matters is that it was
collected before the first of them is dispatched.  `owner` says which
connection's socket the kernel has behind a number.  Input and output events
are left to `Connection`: on a wrong connection they find nothing to read and
nothing to write.

### WorkerPool and AsyncLogger

Condition variables are modelled as the standard defines them: a notification
reaches only threads that are blocked, waking up may be spurious, and testing
the predicate and blocking are atomic only with respect to the mutex.  In
`TaskQueue` everything that changes the predicate holds `mtx_`, so `pop` is one
step; in `AsyncLogger` `stop_` is set without `mutex_`, so the writer's test and
its blocking are two steps.

### ServerStop

`Server::stop` step by step, started at any moment of a server that accepts,
builds, serves and closes connections.  `slot` is a connection's `taskRunning_`
together with the place of that task.

### ChatRooms

A process is a descriptor number, with at most one handler or cleanup at a
time.  A step is one critical section of `rooms_mutex_` or of a room, or one
statement sent to MySQL, which may fail.  `sessions_[fd]` and `room_id_` belong
to one connection and change together with the step they are next to.  `members`
is kept for rooms that are off the list too: a handler may hold a pointer to
one.  `Restart` loses the memory at any point, keeps the rows, and takes the ids
up where `initIdsFromDatabase` does, or at 1 if MySQL is not there.  `id` is
taken to be the primary key of `rooms`: an insert of an id that has a row fails.

Left out: responses and broadcasts with the member counts in them, and the keys
in Redis (the server writes them and never reads them).

The module also has behaviours in which the service does not do what one would
like; the properties are stated so as to hold beside them:

* A join may add its session to a room that was emptied and removed after the
  join found it, and so may the creator's own entry.  The session was told `OK`
  and its messages are answered with "Room not found".
* Creating a room while in another one, and logging in again, leave the old
  membership in place.  That room never becomes empty.
* A join that empties the old room does not remove it (`deserted`).

### Gateway

`sock` is the kernel's table of numbers, lowest free number first.  A link's
number is closed by the destructor of its `Connection`, so it is in use as long
as `backends`, the monitor's `to_remove` or a handler holds a pointer, also when
the connection is down.  A handler of a client picks, enters and forwards in three
steps; between them the monitor can remove the link and the cleanup can time the
request out.  The loop's callback enters a new link in `backends` (`Build`) and then
its number in `backend_fds` (`InsertNumber`); between the two the monitor can remove
the link again.  `entering` is the link in between, `overtaken` the numbers for which
that happened (history).
Handlers of links run in the loop, one at a time (`LoopFree`).  Time is a
choice: any entry may be overdue, any back end may have missed its heartbeat.

Two behaviours of the code that the module shows and no property forbids: a
message that arrives on a link after the monitor erased its number and before
the posted close runs is taken for a client's request (`TakenForRequest`); and a
link that is down keeps its entry, so that the monitor does not connect to that
address again until it has been unregistered for one pass.

### MessageWriter

A step is one critical section, of the message queue or of a pool, or one call
to a database.  Every wait in this code has a time limit, so notifications only
save time and are not modelled.  A pooled connection is `TRUE` while it works;
`MysqlDown` and `RedisRestart` make all of them `FALSE`, those in use included,
and the owner finds out when it uses one.  `getConnection` of `MySQLPool` pings,
reconnects, and loses the slot when that fails (`forsaken`); that of `RedisPool`
does nothing of the kind.  Handlers borrow from the MySQL pool as workers
(`Query`, `RunQuery`); that they borrow from the Redis pool as well only delays
the heartbeat and is left out.  `LeaseBeats` heartbeats of 3 s without a renewal
are the key's lifetime of 10 s.

### RateLimit

Tokens are counted in units of which a request costs `Cost`, so that the
floating-point refill of the code is exact for the rates chosen; time is counted
in ticks.  `granted`, `born`, `admitted` and `replaced` are history.  A second
login on a connection gives it a new session id and leaves the bucket of the old
id behind; `BucketsFollowConnections` names that exception.

### ByteBuffer, Framing, HttpFraming

`ByteBuffer` keeps the array and the two positions, with `memmove`, growth by
half and the reset of an empty buffer as the code does them, and `readv` into the
free part and a second block that is appended.  A frame in `Framing` is bytes,
with payloads that look like lengths.  A sender writes frames to the stream
(`SendFrame`) and may stop after a frame (`SendFin`) or within one (`SendPart`); each
`readv` returns any part of what has been written, and the other threads of a
connection are in `Connection`.  `FramingAssumption` lets a frame have the length of
what follows it, or one that `parse` refuses.  Nothing is lost by that: whatever
bytes a peer writes, those behind a length that `parse` takes are, as far as they
go, a frame of that length.  The array has at least two elements: from one, growth
by half would not get anywhere (the code's has 4096).

In `HttpFraming` a token is the text of a line, CR, LF or a body byte, since the
parser only looks for CR LF; methods and fields that the parser treats alike are one
token.  A client writes requests of a set `HttpRequests`, one after another
(`SendRequest`, at most `MaxRequests`), while the reader cuts what is there into
pieces.  `HttpAssumption` says that no text is a CR, and that a body has the length
its header gives if `parse` takes that length, and is empty without one: what follows
such a header is its body, whatever the client meant.  A body may hold CR and LF.

Behaviours of the HTTP parser that the module shows: a request with
`Content-Length: 0` at the very end of the buffer is delivered only when more
arrives, because the loop leaves at `consumed == len` (`AwaitsMore`; finding 7); and an
error consumes nothing, so that the refused line is parsed and answered with 400 again
at each later read.  `RequestsDelivered` is about what comes before an error, and says
of a whole request that it was delivered or `AwaitsMore`; `WholeRequestsDelivered` is
without that exception and fails.

### QtClient

`up` and `down` are the two directions of the socket.  A message box is a nested
event loop: `boxes` is the stack of open ones, each with what its handler does
when it is closed, and frames, heartbeats and errors are handled meanwhile.
Frames that only change text are one type, `note`.  The server is one session
(`room`) among rooms that other users create and empty.  Qt does not emit
`readyRead` again inside a slot that is connected to it, so that under a box opened by
`parsePacket` no further frame is handled; the model allows it.  It has more
behaviours than the client there, which is sound for `UiAgrees`; the counterexample of
`RoomAgrees` does not use them.

## 3. Runs

Two worker threads are enough for two handlers of a connection to collide;
two requests for one to wait behind the other; one outside thread stands for
all others, since outside threads do not interact with each other.

| Run | Bounds | Shows |
|---|---|---|
| `connection_safety` | 2 workers (symmetric), 1 outside thread, 2 requests, 1 push, 1 close, high water 2: 2 035 000 states | `ConnInv`, `SerialFifo`, `ReplyOrder`, `DrainedCloseLosesNothing`, `CleanupIsolation`, `FdReleasedLast`, `NextSessionKept`, `CloseOwned`, `OutputArmed`, `SendCountExact`, refinement `ServiceSpec` |
| `connection_live` | accepted: as above, high water 1, no outside close; outbound: no workers, 2 frames, 2 pushes, 1 close; together 581 000 states | `ConnectionsEnd`: a half-closed connection and one whose close has begun end |
| `connection_outbound_eof` | outbound, 1 push | **fails**: finding 1 |
| `event_loop` | one loop: 1 number, 2 connections, 1 worker, 1 close; server: 2 loops, 2 workers, 3 connections, 2 requests; together 159 000 states | `NoLostWakeup`, `MapsMatchSockets`, refinement `ExecutorSpec`, `CallbacksRun`, `StopExits` of a loop; `CleanExit`, `PoolStopsLast`, `StopCompletes` of the shutdown.  One number for two connections forces the reuse; with 2 numbers and 3 connections (19 million states) the invariants hold as well |
| `event_loop_stale` | one loop, same | **fails**: finding 3 |
| `stopping` | store: 1 worker, 1 connection per pool, queue of 3, batches of 2, 4 messages, 1 outage, 1 restart; pool: 2 workers, 2 loops, 3 tasks; logger: 2 threads, 3 lines; together 100 000 states | `MessagesAccounted`, `DrainedAtExit`, `ConnectionsKept`, `MessagesReachDatabase`; `CompletedOnce`, `StopDrains`, `TasksComplete`; `LinesInOrder`, `LinesReachFile`; `StopsReturn` of the first two.  Four messages fill the queue, refuse one and need two batches; writer and worker compete for the one connection |
| `logger_stop` | 2 threads, 2 lines | **fails**: finding 2 |
| `gateway_numbers` | 1 client, 1 address, 2 links, 3 numbers, 1 id | **fails**: finding 6 |
| `requests` | limits: 2 connections, 2 logins, 3 ticks, capacities of 1.5 and 2.5 requests; frames: up to three of six frames, broken ones among them, written and cut at any byte, buffer of 6, block of 4, bodies of up to 9; HTTP: up to two of nine requests, four of them malformed, cut at any token, buffer of 5 and block of 3, bodies of up to 3; client: 2 rooms, 4 requests; gateway: 2 clients (symmetric), 1 address, 2 links, 2 numbers, 1 id; rooms: 2 numbers (symmetric), 3 sessions, 2 rooms, 1 restart; together 1 832 000 states | `RateBound`, `BucketsFollowConnections`, `FramesDelivered`, `RequestsDelivered`, `UiAgrees`, `AnsweredOnce`, `NumbersFollowLinks`, `MembershipInv`, `RoomsPersisted`, `EmptyRoomsGo`.  The buffers are smaller than a frame and a request, so that moving, growing and spilling over all happen.  Two clients of the gateway let one get the number of a former link while the other waits for an answer; the ids do not interact.  With 3 numbers (1.5 million states of the gateway alone), where a second link is made while a handler still holds the first, it passes as well.  Three sessions of the server allow a second login and a reused number; two connections are enough for every pair of steps.  With 3 connections and no restart (2.5 million states) it passes as well.  It may stop: time is bounded, streams end, and a client whose connection is gone has nothing left to do |
| `http_empty_body` | as `requests` | **fails**: finding 7 |
| `lease` | 1 Redis connection, 1 restart | **fails**: finding 4 |
| `qt_room` | 2 rooms, 3 requests | **fails**: finding 5 |

The type invariant of each module is a part of one of these: of `ConnInv`,
`MapsMatchSockets`, `CleanExit`, `CompletedOnce`, `LinesInOrder`, `MembershipInv`,
`AnsweredOnce`, `MessagesAccounted`, `RateBound`, `FramesDelivered` and
`RequestsDelivered`.  `MapsMatchSockets` also says that no descriptor leaks,
`CleanExit` that no callback is left in a queue and no cleanup precedes its task,
and `LinesInOrder` that what was logged before `stop()` is written when the
writer leaves.

### Fairness

* `Connection`: the loop thread, the workers and a thread inside
  `sendResponse` keep running (the operating system schedules them, handlers
  return).  Output that is blocked ends: the peer reads, or the idle timer of
  the loop closes the connection after 60 seconds.  An outbound connection has
  no idle timer; there the assumption is that the back end reads.  Nothing is
  assumed of the peer's requests or of closes.
* `EventLoop`, `WorkerPool`, `ServerStop`, `AsyncLogger`: threads that are inside
  an operation go on.  Nobody has to submit, log or stop; a spurious wakeup and
  the timer may never come.
* `MessageWriter`: the writer, the heartbeat thread, a worker that has borrowed a
  connection and the destructor go on; calls to a database return.  Nobody has
  to send or to stop, MySQL need not come back.
* `Gateway`, `ChatRooms`, `RateLimit`, the framing modules and `QtClient` have no
  liveness property and no fairness.  (That an entry of the gateway's table does not
  stay there follows at once from the assumption that the cleanup thread, which erases
  every entry older than 30 s, keeps scanning.)

### Findings

1. **Frames lost at the end of file of an outbound connection**
   (`Connection.cpp:560`).  Tasks of such a connection run inline, so the first
   frame's completion calls the end-of-file check inside `read`'s parse loop.
   With the end of file already seen and nothing pending, the connection is
   closed and the frames that follow in the buffer are dropped.
2. **`AsyncLogger::stop` can hang** (`AsyncLogger.cpp:58`).  `stop_` is set and
   the notification sent without `mutex_`; a writer that has just found nothing
   to do misses both and `join` waits for ever.
3. **A stale error event can close a new connection** (`EventLoop.cpp:135`).
   Timer, wakeup and error event in one batch: the timer closes the old
   connection, its number is accepted again and registered by the wakeup, and
   the error that was meant for the old socket is delivered to the new one.
4. **A restart of Redis ends the registration for good** (`RedisPool.cpp:43`).
   Broken contexts are handed out and put back without a check; `registerToRedis`
   fails from then on, although Redis is there again, and the gateway loses the
   back end when the key expires.
5. **The client's current room is not its session's** (`chatwindow.cpp:88`).
   `currentRoomId_` is set when a join is typed.  If the join is refused, or the
   answer to an earlier create or leave arrives after it, the number is wrong; with
   0 the user can neither send nor leave.
6. **A client can be taken for a back end** (`gateway_main.cpp:542`).  The loop enters
   a new link in `backends` and then its number in `backend_fds`, in two critical
   sections.  A pass of the monitor between them removes the link, erases a number
   that is not there yet and closes the connection; the number is inserted afterwards
   and stays for good.  The messages of the next client with that number are looked up
   in the table of pending requests and not forwarded.  For that the callback must
   still be running at the monitor's next pass, 5 s after the connect, with the address
   gone from the registry: rare, and permanent.
7. **A request with `Content-Length: 0` waits for the next byte**
   (`HttpContext.cpp:76`).  The code that completes it directly, as its comment says,
   is in a loop that runs only while bytes are left.  (Neither executable uses the HTTP
   classes.)

Smaller things met on the way, without a run:

* A second login on a connection leaks a bucket (`ChatService.cpp:291`): `sessions_[fd]`
  is overwritten and nobody removes the key of the session that was there, although
  `RateLimiter.h:14` wants keys removed so that they do not grow without bound.
* The README gives a limit of 1 MB for a message; `MyProtocol.cpp:12` has 16 MB.
* The README says that a crash loses at most 100 ms of messages; a batch whose
  insert fails is dropped as well (`failed` in `MessageWriter`).
* `RedisTokenBucket` refuses a request when Redis does not answer, although its
  comment says that it lets it pass; it is not used.
* `loginwindow.cpp:70` computes the frame's length from the number of UTF-16 units,
  not of UTF-8 bytes; names outside ASCII give a frame that is too short.
* A frame left in `recvBuf_` under an open error box is handled when the box is
  closed, also after `onDisconnected()`, and may enable the controls again; that
  is why `UiAgrees` speaks of connections that stand.
* `~ChatService()` runs after `main` has stopped the logger, so its lines and the
  writer's last one are not written.

## 4. Proofs

Every theorem is about a module's whole specification and holds for every value
of the constants that satisfies the module's assumption, so for any number of
threads, connections, rooms, messages and for any of the bounds that the runs
need.  Each proof module defines an inductive invariant, has one lemma per part
of it with one step per action, and derives the properties of the runs from it.
TLC has checked each invariant on an instance before it was proved.

| Module | Theorems (`Spec => []...`) | Invariant |
|---|---|---|
| `ConnectionProofs` | `ConnInv`, types, `SerialFifo`, `CleanupIsolation`, `FdReleasedLast`, `NextSessionKept`, `CloseOwned`, `OutputArmed`, `SendCountExact`, `ReplyOrder`, `DrainedCloseLosesNothing` (accepted connections); refinement of `SessionService` | `ConnInv`, `ReplyInv`, `DrainInv` (in `ConnectionInv`) |
| `EventLoopProofs` | `NoLostWakeup`, `MapsMatchSockets`; refinement of `Executor` | `LoopInv` |
| `ServerStopProofs` | `CleanExit`, `PoolStopsLast` | `StopInv` |
| `ChatRoomsProofs` | `MembershipInv`, `RoomsPersisted`, `EmptyRoomsGo` | `RoomsInv` |
| `GatewayProofs` | `AnsweredOnce`, `NumbersFollowLinks` | `GatewayInv` |
| `BackgroundProofs` | of `WorkerPool`: `CompletedOnce`, `StopDrains` | `PoolInv` |
| | of `MessageWriter`: `MessagesAccounted`, `DrainedAtExit`, `ConnectionsKept` | `WriterInv` |
| | of `AsyncLogger`: `LinesInOrder` | `LogInv` |
| `RequestsProofs` | of `RateLimit`: `RateBound`, `BucketsFollowConnections`, `AdmittedBound` | `RateInv` |
| | of `QtClient`: `UiAgrees` | `ClientInv` |
| `FramingProofs` | of `Framing`: `FramesDelivered`; of `ByteBuffer`: what each operation leaves to be read (`EnableWriteKeeps`, `ReadIntoAppends`, `MoveReadPtrDrops`) | `FramingInv` |
| | of `HttpFraming`: `RequestsDelivered` | `HttpInv` |

The assumptions are those the modules name: bounds are natural numbers, threads of
different kinds are different, sets of threads whose members are counted are
finite.  Five say more.  `PoolAssumption` has at least one worker, as
`WorkThreadPool`'s constructor makes sure of; `StopDrains` would be false
without one.  `LoopAssumption` has room for at least one connection, and
`GatewayAssumption` keeps the mark for "no address" out of the addresses; both
are conventions of the model.  `FramingAssumption` and `HttpAssumption` are explained
above.  In `WorkerPool` and `ServerStop` the assumption is a definition and a
hypothesis of the theorems.

### The invariants, and why they are needed

`ConnInv`.  None of the properties is inductive by itself.

* `ThreadPlaces`: which thread can be where.
* `SlotInv`: `taskRunning` is true exactly when one thread, or the pool's queue,
  holds the connection's only submitted task.  `SerialFifo` needs it, since
  `enqueueTask` and `onTaskComplete` look at the flag only.
* `LoopInv`: only the loop closes, so it is never in the middle of something
  else on a closing connection, and the pool is stopped only after that.
* `CloseInv`: a close is with the loop, with the running task
  (`closeCallbackPending`), with a worker about to post, or with one posted
  callback, and with only one of them.  The cleanup count follows.
* `SessionInv`: the own session is not stored from the cleanup on, and that of the next
  connection only behind the close of the descriptor, at which the channel is out of
  epoll.  `FdReleasedLast` needs `SlotInv` and `CloseInv` beside it: after a cleanup no
  task is left, so no handler that could store a session once more, also if the close
  was deferred to the completion of a task.  `NextSessionKept` follows: of the two
  steps that could write the entry, neither is possible any more.
* `OrderInv`: the waiting requests continue the one in the slot, which continues
  the ones that were started.  Without it a step that starts a task could not be
  shown to start the next number.

On top of it:

* `OutputArmed` and `SendCountExact` are inductive with `ConnInv`.  The count
  needs the sets of threads to be finite, and that the loop, which runs the
  callbacks, is never itself between counting and posting.
* `ReplyInv`, behind `ReplyOrder`: the numbers of the responses grow along the
  whole way, first on the wire, then in `outBuffer_`, then in `task_queue_`
  (`WayInv`), and all are below the next one to be posted (`LimitInv`), which is
  the number of the last request started (`TaskInv`) because a second handler
  is not entered before the first has posted its response.
* `DrainInv`, behind `DrainedCloseLosesNothing`: every chunk the peer sent is
  parsed, buffered or unread, but for a partial frame behind the end of file
  (`ChunkInv`); every response produced is on its way while the connection is
  open (`KeptInv`); and once the loop has found the tasks drained they stay so
  until it has looked at the sends (`EofInv`), although the two checks are not
  one critical section: only the loop itself can parse a new request.  At the
  second check, a count of zero (`SendCountExact`) and an empty `outBuffer_`
  leave only the wire.  The theorem is about accepted connections
  (`~Outbound`).  For an outbound one the property is false, as the run
  `connection_outbound_eof` shows: there `maybeFinishAfterPeerEof()` can run
  inside `read()`'s parse loop.

The refinement of `SessionService` uses the invariant in the two steps that
matter: a handler is entered only when none is active, and the cleanup runs only
when none is active.

`LoopInv` (of `EventLoopProofs`).  `NoLostWakeup` is inductive as it stands: the
counter is read before the queue is taken.  For the maps, three things can still
act on a descriptor number after the fact: the posted build callback, the task
for which a close is deferred, and the final callback.  `ConnsInv` says that as
long as one of them is about, the number is the connection's own and the maps
have it as that step expects; `OnceInv` that each is about once, in the queue or
in one thread's hand; `NumbersInv` relates the maps to the sockets under a
number.  So `accept4` can only return a number that no callback will touch.  In
the refinement of `Executor`, the pending callbacks are the swapped ones followed
by the queue; `SwapInv` (nothing is swapped out unless the loop runs callbacks)
makes the swap invisible.

`PoolInv`.  `OwnerInv`: a task that is not completed is in one thread's hand or
once in the queue.  `DrainInv`: an accepted task has run, is being run or is
queued, and a worker leaves only a closed and empty queue; when all have left,
none is outstanding.

`StopInv` follows `Server::stop` through its phases: `PhaseInv` ties flags and
promises to the place of the main thread, `QueueInv` and `OrderInv` say what a
queued callback means and that no build is queued behind `closeAll`, `HandInv`
and `WorkerInv` that whoever has to finish a connection's step has it in hand,
and `AchievedInv` what each phase leaves behind: after `closeAll` nothing is open,
after the pool is joined no task is left, after the barrier the queues are empty.
`CleanExit` is the last of these; the order of the phases is what the induction
turns on.

`RoomsInv`.  `LocalInv` and `ApartInv` say for which session a handler works and
that no two work for one; `IdsInv` that an id taken and not listed yet is nobody
else's; `RowsInv` that a row exists from before a room is listed until after it
is removed; `BelongInv` is `InOwnRoom` up to the step where the session leaves;
`EmptyInv` that an empty room is deserted, or that its creator is about to enter
it or somebody about to check it.

`GatewayInv`.  `NumbersFollowLinks` needs to know that a link is in one list at a time
and that at most one is being entered (`LinksInv`), and that the link being entered is
still in `backends` or in the part of `to_remove` to be worked off, or has been
overtaken by the monitor (`EnteringInv`): that is what its number is inserted for.

`WriterInv`.  `HoldInv` ties what a thread holds to its place, `ExitInv` the flags
to the place of the destructor, `BatchInv` the batch to the writer's place.
`SoundInv` says that before the first outage no connection is broken, which is why
no reconnection can fail.  `MessageInv` keeps the places of a message disjoint and
the line of stored, taken and queued messages ascending; the count in
`MessagesAccounted` follows, since an ascending sequence has as many members as it
is long.

`RateInv` adds to `RateBound` that every token the global bucket granted and that
was not used for an admission is with a request that waits for its user's limiter
or was refused.  `AdmittedBound` follows: the service admits at most the global
capacity and what the global rate has brought since the start.

`LogInv`.  `LineInv`: the file, the writer's batch and the queue hold consecutive
numbers, each part going on where the one before ends.  `LeaveInv`: there is a batch
only while it is written, and the writer leaves only after `stop_` was set, with all
that had been pushed by then in the file.

`ClientInv`.  `UiAgrees` looks at the answers under way, of which the last one that
is about a room decides.  `Settled` is taken apart by lemmas: an answer appended, the
first one taken, one that does not count.  `LoginInv` is what the step to the chat
window needs: the login window never has more than one frame on its way, and none
about a room, so that nothing that decides is dropped when the windows change and
`recvBuf_` starts empty again.  `BoxInv` ties the boxes to the connection: a network
error's box stands only while there is none, so no slot that goes on after it was
closed can disturb a connection that stands.

`FramingInv`.  `StreamInv`: the stream consists of the frames written, each at the
place where the one before ends, the last one perhaps in part.  `ReaderInv`: the first
frames were delivered, all of them good, and the readable part of the buffer is the
stream from their end to what `readv` returned last.  `WaitInv`: between two calls of
`read` the next frame is bad or its end has not been read.  Below it are the lemmas on
`Buffer`, for elements of any kind: `Same` and `Appended` say what can be read after an
operation, so that nobody above has to know where in the array it is; and those on
numbers, `HostNet32` and `HostNet16`: `ntohl` undoes `htonl` on 32 bits.  The proof
turns on the length read from the first four bytes being that of the next frame
(`FrontLength`), although payloads may look like lengths, and on `Complete` being the
same as "its end has been read" (`FrontIs`).

`HttpInv`.  As above the stream consists of the requests written
(`HttpStreamOf`), and the buffer holds the stream from what was consumed to what
`readv` returned (`HttpReaderInv`).  Between two requests the parser keeps more than a
position: `PlaceInv` ties its state, the length, the method and the body it has
collected to the next request and to the number of its tokens consumed (`Placed`): in
HEADERS it stands behind some of the fields, all of them good, and holds the last
length among them; in BODY it stands behind the empty line with a length; at the end
it holds the request's body and is where the next one begins.  `HttpWaitInv` says why
`read` returned: the next request is not there whole, or it is malformed.  After an
error `parse` starts in the middle of a stream it no longer understands, so `ErrorInv`
keeps only what stays true: the requests in front of the malformed one were delivered,
and some of that one had been read.  The proof turns on what the search for CR LF
finds: at the start of a line it is that line's end, never one within a body
(`EncodeRequestIs` gives the place of every token of a request), and it fails only
if that end has not been read.

Induction over data was needed in two places, for the loop of `enableWrite` that
enlarges the array (`GrowsExists`, `GrownEnough`: it ends, and with enough room) and
for the last answer that counts.  The library's induction principles take a predicate,
which the provers cannot instantiate; `Induction` and `LastPosition` have a set in its
place and follow from the well-foundedness of the naturals (`WFMin`).

### Only model-checked

* All liveness properties, which the prover cannot treat.
* The properties of the runs that fail.
* The `MC` modules: the theorems are about the parts, and a run of several parts
  is their disjoint union.

## 5. Not modelled, and the plan

Not modelled:

* `HttpService` and the encoding of HTTP answers: a fixed text, and neither
  executable uses them.  `RedisTokenBucket`: its construction is commented out,
  and its arithmetic is a script that runs in Redis.
* Metrics, configuration, socket wrappers, start-up: counters, parsing of
  arguments and system calls without state of their own.
* The load generator `bench_cpp.cpp`.
* `events_` growing, `epoll_ctl` and `accept4` failing, allocation failures.
* In `ChatService`: member counts in broadcasts, the keys of users and rooms in
  Redis.  In the gateway: the registration of links in the main loop and the
  shutdown of its threads.

Done: `Connection` with `SessionService`; `WorkerPool`, `AsyncLogger`; `EventLoop`
with `Executor`, `ServerStop`; `ChatRooms`; `Gateway`; `MessageWriter`; `RateLimit`;
`ByteBuffer` with `Framing` and `HttpFraming`; `QtClient`; and the proofs of section
4.

Every safety property of a passing run is stated by a theorem.  Left are the parts
listed above as not modelled.
