---------------------------- MODULE MessageWriter ----------------------------
(***************************************************************************)
(* What ChatService keeps outside the process: chat messages, which the    *)
(* thread db_writer_thread_ takes from msg_queue_ in batches and inserts   *)
(* into MySQL, and the server's registration in Redis, which the thread    *)
(* heartbeat_thread_ renews; with the two connection pools that they       *)
(* borrow from, and ~ChatService(), which ends both threads and then the   *)
(* pools.                                                                  *)
(*                                                                         *)
(* A step is a critical section (of msg_queue_mutex_ or of a pool's        *)
(* mutex_) or one call that talks to a database.  Every wait here is a     *)
(* wait_for with a time limit, so notifications only save time and are not *)
(* modelled: a waiting thread goes on when its condition holds, and when   *)
(* its time is up.                                                         *)
(*                                                                         *)
(* A message is its number.  A pooled connection is TRUE while it works    *)
(* and FALSE once the server at the other end has gone away; its owner     *)
(* finds that out when it uses it.                                         *)
(***************************************************************************)
EXTENDS Integers, Sequences, FiniteSets

CONSTANTS
  Workers,      \* worker threads, in which handlers run
  Writer,       \* db_writer_thread_
  PoolSize,     \* connections each pool tries to open
  MaxQueue,     \* MAX_QUEUE_SIZE
  MaxBatch,     \* BATCH_MAX_SIZE
  LeaseBeats,   \* heartbeats without a renewal after which the key expires
  MaxMessages,  \* bound: messages sent
  MaxOutages,   \* bound: times MySQL goes down
  MaxRestarts   \* bound: times Redis is restarted

ASSUME WriterAssumption ==
  /\ IsFiniteSet(Workers) /\ Writer \notin Workers
  /\ {PoolSize, MaxQueue, MaxBatch, LeaseBeats} \subseteq Nat \ {0}
  /\ {MaxMessages, MaxOutages, MaxRestarts} \subseteq Nat

VARIABLES
  queue,        \* msg_queue_
  batch,        \* the writer's local batch
  stop,         \* db_writer_stop_
  place,        \* where the writer and the workers are
  pool,         \* MySQLPool::pool_
  held,         \* the MySQL connection a thread has borrowed: a set of at most one
  mysqlUp, outages,
  heart,        \* where the heartbeat thread is
  heartStop,    \* heartbeat_stop_
  redisPool,    \* RedisPool::pool_
  redisHeld,    \* the Redis connection the heartbeat thread has borrowed
  restarts,
  age,          \* heartbeats since the key was last written
  dtor,         \* where ~ChatService() is
  made,         \* messages sent so far
  stored, failed, dropped,  \* inserted, in order; in a batch that failed; refused
  opened, forsaken          \* MySQL connections opened, and closed for good

queueVars == <<queue, batch, stop, made, stored, failed, dropped>>
poolVars == <<pool, held, opened, forsaken>>
redisVars == <<heart, heartStop, redisPool, redisHeld, restarts, age>>

vars == <<queueVars, place, poolVars, mysqlUp, outages, redisVars, dtor>>

Thread == Workers \cup {Writer}
Message == 1..MaxMessages
Link == BOOLEAN

TypeOK ==
  /\ queue \in Seq(Message) /\ batch \in Seq(Message) /\ stored \in Seq(Message)
  /\ failed \subseteq Message /\ dropped \subseteq Message
  /\ stop \in BOOLEAN /\ made \in 0..MaxMessages
  /\ place \in [Thread -> {"idle", "borrow", "ping", "use", "done"}]
  /\ pool \in Seq(Link) /\ held \in [Thread -> SUBSET Link]
  /\ mysqlUp \in BOOLEAN /\ outages \in 0..MaxOutages
  /\ opened \in Nat /\ forsaken \in Nat
  /\ heart \in {"sleep", "borrow", "use", "done"} /\ heartStop \in BOOLEAN
  /\ redisPool \in Seq(Link) /\ redisHeld \subseteq Link
  /\ restarts \in 0..MaxRestarts /\ age \in 0..LeaseBeats
  /\ dtor \in {"serving", "joinWriter", "joinHeart", "closed"}

\* The constructors of the pools: a connection that cannot be opened is left
\* out.  The key is written before heartbeat_thread_ starts, if Redis answers.
Init ==
  /\ queue = <<>> /\ batch = <<>> /\ stop = FALSE
  /\ made = 0 /\ stored = <<>> /\ failed = {} /\ dropped = {}
  /\ place = [t \in Thread |-> "idle"]
  /\ opened \in 0..PoolSize /\ forsaken = 0
  /\ pool = [i \in 1..opened |-> TRUE] /\ held = [t \in Thread |-> {}]
  /\ mysqlUp = (opened > 0) /\ outages = 0
  /\ heart = "sleep" /\ heartStop = FALSE
  /\ redisPool \in {[i \in 1..n |-> TRUE] : n \in 0..PoolSize}
  /\ redisHeld = {} /\ restarts = 0
  /\ age = IF redisPool = <<>> THEN LeaseBeats ELSE 0
  /\ dtor = "serving"

Goto(t, p) == place' = [place EXCEPT ![t] = p]

-----------------------------------------------------------------------------
(* The queue *)

\* msg_queue_.size() >= MAX_QUEUE_SIZE
QueueFull == Len(queue) >= MaxQueue

\* handleSendMessage() ends with enqueueMessage().
EnqueueMessage(w) ==
  /\ dtor = "serving" /\ place[w] = "idle" /\ made < MaxMessages
  /\ made' = made + 1
  /\ IF QueueFull
       THEN dropped' = dropped \cup {made + 1} /\ UNCHANGED queue
       ELSE queue' = Append(queue, made + 1) /\ UNCHANGED dropped
  /\ UNCHANGED <<batch, stop, stored, failed, place, poolVars, mysqlUp, outages,
                 redisVars, dtor>>

\* dbWriterLoop() takes at most BATCH_MAX_SIZE messages.
Taken == SubSeq(queue, 1, IF Len(queue) < MaxBatch THEN Len(queue) ELSE MaxBatch)

\* The writer leaves when it is told to, after one more batch.
ExitAfterBatch == stop

\* should_exit: stopped, and nothing left in the queue or in the batch.
ShouldExit == stop /\ queue = <<>>

\* The writer waits for a whole batch.
WriterTakeFull ==
  /\ place[Writer] = "idle"
  /\ \/ Len(queue) >= MaxBatch /\ Goto(Writer, "borrow")
     \/ ShouldExit /\ Goto(Writer, "done")
  /\ batch' = Taken
  /\ queue' = SubSeq(queue, Len(Taken) + 1, Len(queue))
  /\ UNCHANGED <<stop, made, stored, failed, dropped, poolVars, mysqlUp, outages,
                 redisVars, dtor>>

\* One round of the loop up to unlock().  A round that times out with nothing to
\* do changes nothing.
WriterTake ==
  /\ place[Writer] = "idle"
  /\ \/ queue # <<>> /\ Goto(Writer, "borrow")
     \/ ShouldExit /\ Goto(Writer, "done")
  /\ batch' = Taken
  /\ queue' = SubSeq(queue, Len(Taken) + 1, Len(queue))
  /\ UNCHANGED <<stop, made, stored, failed, dropped, poolVars, mysqlUp, outages,
                 redisVars, dtor>>

-----------------------------------------------------------------------------
(* Borrowing from MySQLPool *)

\* A batch that could not be inserted is put back.
BatchRequeued ==
  /\ queue' = batch \o queue /\ UNCHANGED failed

\* batchInsertMessages() returns false: the batch is cleared all the same.
BatchFailed ==
  /\ failed' = failed \cup {batch[i] : i \in 1..Len(batch)} /\ UNCHANGED queue

\* getConnection() returned nullptr or a statement failed.  A handler answers
\* with an error; the writer loses its batch.
GiveUp(t) ==
  /\ Goto(t, "idle")
  /\ IF t = Writer
       THEN /\ BatchFailed
            /\ batch' = <<>>
       ELSE UNCHANGED <<queue, batch, failed>>
  /\ UNCHANGED <<stop, made, dropped>>

\* A handler (login, create, checkAndRemoveEmptyRoom) wants a connection.
Query(w) ==
  /\ dtor = "serving" /\ place[w] = "idle"
  /\ Goto(w, "borrow")
  /\ UNCHANGED <<queueVars, poolVars, mysqlUp, outages, redisVars, dtor>>

\* getConnection(): take the front, or give up after 500 ms without one.
GetConnection(t) ==
  /\ place[t] = "borrow"
  /\ \/ /\ pool # <<>>
        /\ held' = [held EXCEPT ![t] = {Head(pool)}] /\ pool' = Tail(pool)
        /\ Goto(t, "ping")
        /\ UNCHANGED queueVars
     \/ /\ pool = <<>>
        /\ GiveUp(t)
        /\ UNCHANGED <<pool, held, stored>>
  /\ UNCHANGED <<opened, forsaken, mysqlUp, outages, redisVars, dtor>>

\* mysql_ping() outside the lock.  A dead connection is closed and opened anew;
\* if that fails, nothing takes its place in the pool.
Ping(t) ==
  /\ place[t] = "ping"
  /\ \/ /\ TRUE \in held[t]
        /\ Goto(t, "use")
        /\ UNCHANGED <<queueVars, held, forsaken>>
     \/ /\ FALSE \in held[t] /\ mysqlUp
        /\ held' = [held EXCEPT ![t] = {TRUE}]
        /\ Goto(t, "use")
        /\ UNCHANGED <<queueVars, forsaken>>
     \/ /\ FALSE \in held[t] /\ ~mysqlUp
        /\ held' = [held EXCEPT ![t] = {}] /\ forsaken' = forsaken + 1
        /\ GiveUp(t)
        /\ UNCHANGED stored
  /\ UNCHANGED <<pool, opened, mysqlUp, outages, redisVars, dtor>>

\* A connection that a statement failed on is not put back.
ReleaseIfLive(t) ==
  /\ pool' = IF TRUE \in held[t] THEN Append(pool, TRUE) ELSE pool
  /\ held' = [held EXCEPT ![t] = {}]

\* The shared pointer's deleter: releaseConnection(), whatever state it is in.
Release(t) ==
  /\ \E c \in held[t] : pool' = Append(pool, c)
  /\ held' = [held EXCEPT ![t] = {}]

\* The statements of batchInsertMessages(), then the release.  On a connection
\* that breaks meanwhile the insert may or may not have been carried out.
InsertBatch ==
  /\ place[Writer] = "use"
  /\ \/ GiveUp(Writer) /\ UNCHANGED stored
     \/ /\ stored' = stored \o batch /\ batch' = <<>>
        /\ Goto(Writer, "idle")
        /\ UNCHANGED <<queue, failed, stop, made, dropped>>
  /\ Release(Writer)
  /\ UNCHANGED <<opened, forsaken, mysqlUp, outages, redisVars, dtor>>

\* A handler's statements, then the release.
RunQuery(w) ==
  /\ place[w] = "use"
  /\ Goto(w, "idle")
  /\ Release(w)
  /\ UNCHANGED <<queueVars, opened, forsaken, mysqlUp, outages, redisVars, dtor>>

\* MySQL goes down: every connection there is breaks.  It comes up again.
MysqlDown ==
  /\ mysqlUp /\ outages < MaxOutages
  /\ mysqlUp' = FALSE /\ outages' = outages + 1
  /\ pool' = [i \in 1..Len(pool) |-> FALSE]
  /\ held' = [t \in Thread |-> IF held[t] = {} THEN {} ELSE {FALSE}]
  /\ UNCHANGED <<queueVars, place, opened, forsaken, redisVars, dtor>>

MysqlBack ==
  /\ ~mysqlUp /\ mysqlUp' = TRUE
  /\ UNCHANGED <<queueVars, place, poolVars, outages, redisVars, dtor>>

-----------------------------------------------------------------------------
(* Registration *)

\* heartbeatLoop(): three seconds have passed.
HeartWake ==
  /\ heart = "sleep"
  /\ age' = IF age < LeaseBeats THEN age + 1 ELSE age
  /\ heart' = IF heartStop THEN "done" ELSE "borrow"
  /\ UNCHANGED <<queueVars, place, poolVars, mysqlUp, outages, heartStop,
                 redisPool, redisHeld, restarts, dtor>>

\* Back at the head of the loop.
HeartLoop == heart' = IF heartStop THEN "done" ELSE "sleep"

\* registerToRedis(): RedisPool::getConnection() does not look at the health of
\* what it hands out.
HeartBorrow ==
  /\ heart = "borrow"
  /\ IF redisPool = <<>>
       THEN HeartLoop /\ UNCHANGED <<redisPool, redisHeld>>
       ELSE /\ redisHeld' = {Head(redisPool)} /\ redisPool' = Tail(redisPool)
            /\ heart' = "use"
  /\ UNCHANGED <<queueVars, place, poolVars, mysqlUp, outages, heartStop,
                 restarts, age, dtor>>

\* SET key value EX 10, then releaseConnection().
HeartRegister ==
  /\ heart = "use"
  /\ age' = IF TRUE \in redisHeld THEN 0 ELSE age
  /\ \E c \in redisHeld : redisPool' = Append(redisPool, c)
  /\ redisHeld' = {}
  /\ HeartLoop
  /\ UNCHANGED <<queueVars, place, poolVars, mysqlUp, outages, heartStop,
                 restarts, dtor>>

\* Redis is restarted and is there again at once; the connections are not.
RedisRestart ==
  /\ restarts < MaxRestarts /\ restarts' = restarts + 1
  /\ redisPool' = [i \in 1..Len(redisPool) |-> FALSE]
  /\ redisHeld' = IF redisHeld = {} THEN {} ELSE {FALSE}
  /\ UNCHANGED <<queueVars, place, poolVars, mysqlUp, outages, heart, heartStop,
                 age, dtor>>

-----------------------------------------------------------------------------
(* ~ChatService() *)

\* The singleton is destroyed after main() has returned, so after Server::stop()
\* has joined the workers.
StopWriter ==
  /\ dtor = "serving" /\ \A w \in Workers : place[w] = "idle"
  /\ stop' = TRUE /\ dtor' = "joinWriter"
  /\ UNCHANGED <<queue, batch, made, stored, failed, dropped, place, poolVars,
                 mysqlUp, outages, redisVars>>

\* heartbeat_stop_ is forgotten.
JoinWriterOnly ==
  /\ dtor = "joinWriter" /\ place[Writer] = "done"
  /\ dtor' = "joinHeart"
  /\ UNCHANGED <<queueVars, place, poolVars, mysqlUp, outages, redisVars>>

\* The writer is joined and the heartbeat thread told to stop.
JoinWriter ==
  /\ dtor = "joinWriter" /\ place[Writer] = "done"
  /\ heartStop' = TRUE /\ dtor' = "joinHeart"
  /\ UNCHANGED <<queueVars, place, poolVars, mysqlUp, outages, heart, redisPool,
                 redisHeld, restarts, age>>

\* Then the members are destroyed: the pools close what is in them.
JoinHeart ==
  /\ dtor = "joinHeart" /\ heart = "done"
  /\ dtor' = "closed"
  /\ pool' = <<>> /\ redisPool' = <<>>
  /\ UNCHANGED <<queueVars, place, held, opened, forsaken, mysqlUp, outages, heart,
                 heartStop, redisHeld, restarts, age>>

\* The process has ended.
Closed == dtor = "closed" /\ UNCHANGED vars

WriterStep ==
  WriterTake \/ GetConnection(Writer) \/ Ping(Writer) \/ InsertBatch

WorkerStep(w) == GetConnection(w) \/ Ping(w) \/ RunQuery(w)

HeartStep == HeartWake \/ HeartBorrow \/ HeartRegister

Next ==
  \/ WriterStep
  \/ \E w \in Workers : EnqueueMessage(w) \/ Query(w) \/ WorkerStep(w)
  \/ MysqlDown \/ MysqlBack
  \/ HeartStep \/ RedisRestart
  \/ StopWriter \/ JoinWriter \/ JoinHeart \/ Closed

\* Threads run, and every wait has a time limit.  Nobody has to send, to stop
\* the server or to bring MySQL back.
Fairness ==
  /\ WF_vars(WriterStep) /\ WF_vars(HeartStep)
  /\ \A w \in Workers : WF_vars(WorkerStep(w))
  /\ WF_vars(JoinWriter) /\ WF_vars(JoinHeart)

Spec == Init /\ [][Next]_vars /\ Fairness

-----------------------------------------------------------------------------
(* Properties *)

SetOf(s) == {s[i] : i \in 1..Len(s)}

\* Every message is in one place: in the table, in a batch that failed, refused
\* at the full queue, in the writer's hands or in the queue; and what is or will
\* be in the table is in the order of sending, no message twice, although a
\* batch may fail after part of the work (batchInsertMessages() never retries).
MessagesAccounted ==
  LET line == stored \o batch \o queue
  IN  /\ TypeOK
      /\ \A i, j \in 1..Len(line) : i < j => line[i] < line[j]
      /\ SetOf(line) \cup failed \cup dropped = 1..made
      /\ Cardinality(failed) + Cardinality(dropped) + Len(line) = made
      /\ Len(queue) <= MaxQueue /\ Len(batch) <= MaxBatch

\* ~ChatService(): when the writer is gone nothing is left in the queue; when
\* the pools go, nobody has one of their connections, whose deleter would put
\* it back into a pool that is no more.
DrainedAtExit ==
  /\ place[Writer] = "done" => queue = <<>> /\ batch = <<>>
  /\ dtor = "closed" => redisHeld = {} /\ \A t \in Thread : held[t] = {}

\* A MySQL connection is in the pool or with one thread, unless a reconnection
\* failed: only that makes MySQLPool smaller (the early returns of
\* batchInsertMessages() and of the handlers do not), and only in an outage.
ConnectionsKept ==
  /\ outages = 0 => forsaken = 0
  /\ dtor # "closed" =>
       LET out == {t \in Thread : held[t] # {}}
       IN  Len(pool) + Cardinality(out) + forsaken = opened

\* A message that was accepted reaches the table or is lost with a failed batch,
\* also when nobody sends again and when ~ChatService() comes first.
MessagesReachDatabase ==
  \A n \in Message :
    (made >= n /\ n \notin dropped) ~> (n \in SetOf(stored) \cup failed)

\* ~ChatService() ends: both threads see their flags.
StoreStops == dtor = "joinWriter" ~> dtor = "closed"

\* The README: the server registers with a lifetime of 10 s and renews every 3 s.
\* A server that could connect to Redis is registered again and again.
LeaseKept ==
  []<>(age < LeaseBeats \/ heartStop \/ (redisPool = <<>> /\ redisHeld = {}))
=============================================================================
