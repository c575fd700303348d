-------------------------- MODULE MCConnectionLive --------------------------
(***************************************************************************)
(* Connections that end, for TLC: an accepted connection, served by the    *)
(* pool's workers, and a gateway's connection to a back end, whose tasks   *)
(* run in its loop.  They are two instances of Connection over the same    *)
(* variables; Init chooses one.                                            *)
(***************************************************************************)
EXTENDS Integers, Sequences, FiniteSets

CONSTANTS Workers, Others, Loop, MaxReq, HighWater, MaxPush, MaxClose

VARIABLES
  outbound,
  sent, unread, fin, reset, wire, state, peerReadClosed, inBuffer, parsed,
  outBuffer, pendingTasks, taskRunning, closeCallbackPending,
  pendingSendCallbacks, taskQueue, interest, registered, mapped, fdOpen,
  workQueue, poolStopped, pc, task, parsing, started, replied, cause, cleanups,
  pushes, closes

\* The accepted connection is closed by its peer, by errors and by the timer
\* only; the outbound one by Others too, who push to it one message more.  Nobody
\* logs in: no step waits for a session.
Accepted == INSTANCE Connection WITH Outbound <- FALSE, MaxClose <- 0, session <- "none"
Out == INSTANCE Connection
         WITH Outbound <- TRUE, Workers <- {}, MaxPush <- MaxPush + 1, session <- "none"

all == <<outbound, sent, unread, fin, reset, wire, state, peerReadClosed, inBuffer,
         parsed, outBuffer, pendingTasks, taskRunning, closeCallbackPending,
         pendingSendCallbacks, taskQueue, interest, registered, mapped, fdOpen,
         workQueue, poolStopped, pc, task, parsing, started, replied, cause,
         cleanups, pushes, closes>>

AllInit ==
  \/ outbound = FALSE /\ Accepted!Init
  \/ outbound = TRUE /\ Out!Init

AllNext ==
  /\ UNCHANGED outbound
  /\ \/ ~outbound /\ Accepted!Next
     \/ outbound /\ Out!Next

\* A step of the one, or of the other.
LoopStep ==
  /\ UNCHANGED outbound
  /\ \/ ~outbound /\ Accepted!LoopStep
     \/ outbound /\ Out!LoopStep
OutputEnds ==
  /\ UNCHANGED outbound /\ outBuffer # <<>>
  /\ \/ ~outbound /\ (Accepted!Write \/ Accepted!IdleTimeout)
     \/ outbound /\ (Out!Write \/ Out!IdleTimeout)
WorkerStep(w) == UNCHANGED outbound /\ ~outbound /\ Accepted!WorkerStep(w)
SendPost(o) ==
  /\ UNCHANGED outbound
  /\ \/ ~outbound /\ Accepted!SendPost(o)
     \/ outbound /\ Out!SendPost(o)

\* The fairness of Connection.
AllFairness ==
  /\ WF_all(LoopStep) /\ WF_all(OutputEnds)
  /\ \A w \in Workers : WF_all(WorkerStep(w))
  /\ \A o \in Others : WF_all(SendPost(o))

AllSpec == AllInit /\ [][AllNext]_all /\ AllFairness

-----------------------------------------------------------------------------
\* An accepted connection ends once its peer has shut down its sending direction,
\* whatever tasks and responses were pending, and once a close has begun, also
\* when it waits for a running task and when the pool is stopped under it.
AcceptedEnds == (~outbound /\ (fin \/ state = "Closing")) ~> state = "Closed"

\* An outbound connection is not in connections_ and never becomes Closed; when
\* the back end shuts down it ends with the close callback.
OutboundEnds == (outbound /\ fin) ~> cleanups = 1

\* Connections end: no end of file and no close that has begun is left without
\* anybody to finish it (maybeFinishAfterPeerEof(), onTaskComplete()).
ConnectionsEnd == AcceptedEnds /\ OutboundEnds
=============================================================================
