----------------------------- MODULE MCStopping -----------------------------
(***************************************************************************)
(* The background threads that are stopped by joining them, for TLC: the   *)
(* message writer with the heartbeat thread and the connection pools, the  *)
(* worker pool, and the logger.  They share no state, so a behaviour moves *)
(* one of them, which Init chooses, and leaves the others as they started. *)
(***************************************************************************)
EXTENDS MessageWriter, WorkerPool, AsyncLogger

VARIABLE part

ASSUME PartsAssumption == PoolAssumption

all == <<part, vars, workPoolVars, loggerVars>>

Store(A) == part = "store" /\ A /\ UNCHANGED <<part, workPoolVars, loggerVars>>
InPool(A) == part = "pool" /\ A /\ UNCHANGED <<part, vars, loggerVars>>
InLogger(A) == part = "logger" /\ A /\ UNCHANGED <<part, vars, workPoolVars>>

AllInit ==
  /\ part \in {"store", "pool", "logger"}
  /\ Init /\ PoolInit /\ LogInit
  /\ part # "store" => mysqlUp /\ redisPool # <<>>

AllNext == Store(Next) \/ InPool(PoolNext) \/ InLogger(LogNext)

\* The fairness of the part that moves.
AllFairness ==
  /\ WF_all(Store(WriterStep)) /\ WF_all(Store(HeartStep))
  /\ \A w \in Workers : WF_all(Store(WorkerStep(w)))
  /\ WF_all(Store(JoinWriter)) /\ WF_all(Store(JoinHeart))
  /\ \A w \in PoolWorkers : WF_all(InPool(PoolWorkerStep(w)))
  /\ \A l \in Loops : WF_all(InPool(SubmitStep(l)))
  /\ WF_all(InPool(StopJoin))
  /\ WF_all(InLogger(LogWriterStep))
  /\ WF_all(InLogger(StopNotify)) /\ WF_all(InLogger(LogStopJoin))
  /\ \A g \in Loggers : WF_all(InLogger(LogNotify(g)))

AllSpec == AllInit /\ [][AllNext]_all /\ AllFairness

-----------------------------------------------------------------------------
\* The threads end when they are told to: ~ChatService() with its writer and its
\* heartbeat thread, and WorkThreadPool::stop().  (AsyncLogger::stop() need not
\* return: MCAsyncLogger_stop.cfg.)
StopsReturn == StoreStops /\ StopReturns
=============================================================================
