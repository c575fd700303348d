---------------------------- MODULE ConnectionInv ----------------------------
(***************************************************************************)
(* The inductive invariant behind the safety properties of Connection: the *)
(* properties say what must not happen, these say why it does not.         *)
(***************************************************************************)
EXTENDS Connection

Exec == Workers \cup {Loop}

\* Where each kind of thread can be.
ThreadPlaces ==
  /\ \A w \in Workers : pc[w] \in {"idle", "postEof", "postFinal"} \cup Executing
  /\ \A o \in Others : pc[o] \in {"idle", "post"}
  /\ pc[Loop] \notin {"post", "postFinal"}

\* The running slot: taskRunning is TRUE exactly when one thread or the pool's
\* queue holds the connection's single submitted task.
SlotInv ==
  /\ \A t, u \in Exec : pc[t] \in Executing /\ pc[u] \in Executing => t = u
  /\ \A t \in Exec : pc[t] \in Executing => taskRunning /\ workQueue = <<>>
  /\ workQueue # <<>> => taskRunning /\ Len(workQueue) = 1
  /\ taskRunning => workQueue # <<>> \/ \E t \in Exec : pc[t] \in Executing
  /\ pendingTasks # <<>> => taskRunning

\* closeCallBack_, the way the loop takes through it.
ClosingPlaces == {"cleanup", "remove", "finish", "erase"}

\* Only the loop closes, so it is never elsewhere on a closed connection.
LoopInv ==
  /\ pc[Loop] \notin {"idle", "closing"} \cup ClosingPlaces => state = "Connected"
  /\ parsing => state = "Connected"
  /\ pc[Loop] = "closing" => state = "Closing" /\ cleanups = 0 /\ ~closeCallbackPending
  /\ poolStopped => state # "Connected"

\* One owner of the close.
CloseInv ==
  /\ cleanups \in {0, 1}
  /\ cleanups = 1 => state # "Connected" /\ ~taskRunning
  /\ state = "Closed" => cleanups = 1
  /\ pc[Loop] = "cleanup" => state = "Closing" /\ cleanups = 0 /\ ~taskRunning
  /\ pc[Loop] \in {"remove", "finish", "erase"} => cleanups = 1
  /\ closeCallbackPending =>
       taskRunning /\ state = "Closing" /\ cleanups = 0 /\ pc[Loop] # "closing"
  /\ \A t \in Workers : pc[t] = "postFinal" =>
       /\ state = "Closing" /\ cleanups = 0 /\ ~taskRunning
       /\ pc[Loop] \notin {"closing", "cleanup"}
       /\ FinalPosted = {}
       /\ \A u \in Workers : pc[u] = "postFinal" => u = t
  /\ \A i \in FinalPosted :
       /\ state = "Closing" /\ cleanups = 0 /\ ~taskRunning
       /\ pc[Loop] \notin {"closing", "cleanup"}
       /\ \A j \in FinalPosted : i = j
  /\ state = "Closing" /\ cleanups = 0 =>
       \/ pc[Loop] \in {"closing", "cleanup"} \/ closeCallbackPending
       \/ FinalPosted # {} \/ \E t \in Workers : pc[t] = "postFinal"

\* What is stored under the number: the own session until the cleanup, the next
\* connection's from the close on.
SessionInv ==
  /\ pc[Loop] \in {"finish", "erase"} => ~registered
  /\ cleanups = 1 => session # "own"
  /\ session = "next" => ~fdOpen
  /\ ~fdOpen => state = "Closed" /\ ~registered

\* Request numbers: the pending ones follow the one in the running slot,
\* which follows the last one started.
OrderInv ==
  /\ \A i \in 1..Len(started) : started[i] = i
  /\ state = "Connected" =>
       /\ \A i \in 1..Len(pendingTasks) :
            pendingTasks[i] = parsed - Len(pendingTasks) + i
       /\ workQueue # <<>> =>
            /\ workQueue[1] = Len(started) + 1
            /\ parsed - Len(pendingTasks) = Len(started) + 1
       /\ \A t \in Exec :
            /\ pc[t] \in {"submit", "taken"} =>
                 /\ task[t] = Len(started) + 1
                 /\ parsed - Len(pendingTasks) = Len(started) + 1
            /\ pc[t] \in {"run", "post", "complete"} =>
                 parsed - Len(pendingTasks) = Len(started)
       /\ ~taskRunning => parsed = Len(started)

ConnInv ==
  TypeOK /\ ThreadPlaces /\ SlotInv /\ LoopInv /\ CloseInv /\ SessionInv /\ OrderInv

-----------------------------------------------------------------------------
(* What becomes of responses and of the end of file *)

\* a before b on the way out, as far as both are responses.
Before(a, b) == a # 0 /\ b # 0 => a < b

Sends == {i \in 1..Len(taskQueue) : taskQueue[i][1] = "send"}

\* The response a handler may post is that of the last request started; what
\* others push has the number 0.
TaskInv ==
  /\ \A o \in Others : task[o] = 0
  /\ \A t \in InHandler : task[t] = Len(started)

\* The numbers of the responses grow along the whole way: on the wire, then in
\* outBuffer_, then in task_queue_.
WayInv ==
  /\ \A i, j \in 1..Len(wire) : i < j => Before(wire[i], wire[j])
  /\ \A i, j \in 1..Len(outBuffer) : i < j => Before(outBuffer[i], outBuffer[j])
  /\ \A i, j \in Sends : i < j => Before(taskQueue[i][2], taskQueue[j][2])
  /\ \A i \in 1..Len(wire), j \in 1..Len(outBuffer) : Before(wire[i], outBuffer[j])
  /\ \A i \in 1..Len(wire), j \in Sends : Before(wire[i], taskQueue[j][2])
  /\ \A i \in 1..Len(outBuffer), j \in Sends : Before(outBuffer[i], taskQueue[j][2])

\* All of them are below that of the next response: a handler that runs has not
\* posted one yet.
Limit == IF InHandler = {} THEN Len(started) + 1 ELSE Len(started)

LimitInv ==
  /\ \A i \in 1..Len(wire) : wire[i] # 0 => wire[i] < Limit
  /\ \A i \in 1..Len(outBuffer) : outBuffer[i] # 0 => outBuffer[i] < Limit
  /\ \A i \in Sends : taskQueue[i][2] # 0 => taskQueue[i][2] < Limit

\* A response is not lost while the connection is open.
OnItsWay(r) ==
  \/ \E i \in 1..Len(wire) : wire[i] = r
  \/ \E i \in 1..Len(outBuffer) : outBuffer[i] = r
  \/ \E i \in Sends : taskQueue[i][2] = r
  \/ \E t \in Thread : pc[t] = "post" /\ task[t] = r

KeptInv == state = "Connected" => \A r \in replied : OnItsWay(r)

\* Chunks: what the peer has sent is parsed, in inBuffer_ or unread, but for a
\* partial frame that is dropped behind the end of file.
ChunkInv ==
  /\ peerReadClosed => fin /\ unread = 0
  /\ state = "Connected" =>
       LET lost == sent - (FrameChunks * parsed + inBuffer + unread)
       IN  /\ lost \in {0, 1}
           /\ lost = 1 => peerReadClosed /\ ~parsing
           /\ peerReadClosed /\ ~parsing => inBuffer = 0

\* Where the loop is, on an accepted connection; once it has found the tasks
\* drained, they stay so.
EofInv ==
  /\ pc[Loop] \in {"idle", "parse", "submit", "eofTasks", "eofSends", "closing"}
                  \cup ClosingPlaces
  /\ pc[Loop] = "parse" => parsing
  /\ parsing => pc[Loop] \in {"parse", "submit"}
  /\ pc[Loop] \in {"eofTasks", "eofSends"} => peerReadClosed
  /\ pc[Loop] = "eofSends" => TasksDrained
  /\ cause = "drained" => state # "Connected" /\ ~taskRunning /\ fin

\* Behind DrainedCloseLosesNothing, for accepted connections.
DrainInv == KeptInv /\ ChunkInv /\ EofInv /\ DrainedCloseLosesNothing

\* Behind ReplyOrder.
ReplyInv == TaskInv /\ WayInv /\ LimitInv
=============================================================================
