--------------------------- MODULE ConnectionProofs ---------------------------
(***************************************************************************)
(* Proofs about Connection, for any number of workers and other threads,   *)
(* any bounds, and both uses of the class (Outbound TRUE and FALSE).       *)
(***************************************************************************)
EXTENDS ConnectionInv, SequenceTheorems, FiniteSetTheorems, TLAPS

USE DEF peerVars, bufVars, taskVars, epollVars, poolVars, histVars, businessVars
USE DEF FrameReady, SlotFree, TasksDrained, SendsDrained, DeferFinalClose,
        LastTaskPosts, Rejected, Uncount, ArmWrite, CloseOrder

\* Every step takes every thread to a program point.
LEMMA PcStep ==
  ASSUME TypeOK, [Next]_vars PROVE pc' \in [Thread -> PC]
<1> USE DEF TypeOK, Goto, PC, Thread, Exec
<1>1. CASE PeerSend
    BY <1>1 DEF PeerSend
<1>2. CASE PeerFin
    BY <1>2 DEF PeerFin
<1>3. CASE PeerReset
    BY <1>3 DEF PeerReset
<1>4. CASE Read
    BY <1>4 DEF Read
<1>5. CASE ErrorEvent
    BY <1>5 DEF ErrorEvent, HandleClose, After
<1>6. CASE ParseOK
    BY <1>6 DEF ParseOK
<1>7. CASE ParseError
    BY <1>7 DEF ParseError, HandleClose, After
<1>8. CASE ParseNeedMore
    BY <1>8 DEF ParseNeedMore, EofEntry
<1>9. ASSUME NEW t \in Exec, Submit(t) PROVE pc' \in [Thread -> PC]
    BY <1>9 DEF Submit, After
<1>10. ASSUME NEW w \in Workers, TakeTask(w) PROVE pc' \in [Thread -> PC]
    BY <1>10 DEF TakeTask
<1>11. ASSUME NEW t \in Exec, StartTask(t) PROVE pc' \in [Thread -> PC]
    BY <1>11 DEF StartTask
<1>12. ASSUME NEW t \in Exec, HandlerReturns(t) PROVE pc' \in [Thread -> PC]
    BY <1>12 DEF HandlerReturns
<1>13. ASSUME NEW w \in Workers, HandlerReplies(w) PROVE pc' \in [Thread -> PC]
    BY <1>13 DEF HandlerReplies
<1>14. ASSUME NEW t \in Workers \cup Others, SendPost(t) PROVE pc' \in [Thread -> PC]
    BY <1>14 DEF SendPost
<1>15. ASSUME NEW t \in Exec, OnTaskComplete(t) PROVE pc' \in [Thread -> PC]
    BY <1>15 DEF OnTaskComplete
<1>16. ASSUME NEW w \in Workers, PostToLoop(w) PROVE pc' \in [Thread -> PC]
    BY <1>16 DEF PostToLoop
<1>17. CASE RunPostedInline
    BY <1>17 DEF RunPostedInline, After, EofEntry
<1>18. ASSUME NEW o \in Others, OtherSend(o) PROVE pc' \in [Thread -> PC]
    BY <1>18 DEF OtherSend
<1>19. ASSUME NEW o \in Others, OtherClose(o) PROVE pc' \in [Thread -> PC]
    BY <1>19 DEF OtherClose
<1>20. CASE PoolStop
    BY <1>20 DEF PoolStop
<1>21. CASE RunSend
    BY <1>21 DEF RunSend, Dequeue, HandleClose, After, EofEntry
<1>22. CASE RunEof
    BY <1>22 DEF RunEof, Dequeue, EofEntry
<1>23. CASE RunFinal
    BY <1>23 DEF RunFinal, Dequeue
<1>24. CASE RunClose
    BY <1>24 DEF RunClose, Dequeue, HandleClose, After
<1>25. CASE EofTasks
    BY <1>25 DEF EofTasks, After
<1>26. CASE EofSends
    BY <1>26 DEF EofSends, HandleClose, After
<1>27. CASE CloseLocked
    BY <1>27 DEF CloseLocked
<1>28. CASE Write
    BY <1>28 DEF Write, EofEntry
<1>29. CASE IdleTimeout
    BY <1>29 DEF IdleTimeout, HandleClose, After
<1>30. CASE UNCHANGED vars
    BY <1>30 DEF vars
<1>31. CASE BusinessCleanup
    BY <1>31 DEF BusinessCleanup
<1>32. CASE RemoveChannel
    BY <1>32 DEF RemoveChannel
<1>33. CASE FinishClose
    BY <1>33 DEF FinishClose
<1>34. CASE EraseConnection
    BY <1>34 DEF EraseConnection
<1>35. ASSUME NEW w \in Workers, HandlerLogsIn(w) PROVE pc' \in [Thread -> PC]
    BY <1>35 DEF HandlerLogsIn
<1>36. CASE NextLogsIn
    BY <1>36 DEF NextLogsIn
<1> QED
    BY <1>1, <1>2, <1>3, <1>4, <1>5, <1>6, <1>7, <1>8, <1>9, <1>10, <1>11,
       <1>12, <1>13, <1>14, <1>15, <1>16, <1>17, <1>18, <1>19, <1>20, <1>21,
       <1>22, <1>23, <1>24, <1>25, <1>26, <1>27, <1>28, <1>29, <1>30, <1>31,
       <1>32, <1>33, <1>34, <1>35, <1>36
    DEF Next, PeerStep, LoopStep, WorkerStep, OtherStep, RunInLoop, Terminating, Exec

\* Every step keeps the type invariant.
LEMMA TypeStep ==
  ASSUME TypeOK, [Next]_vars PROVE TypeOK'
<1>pc. pc' \in [Thread -> PC]
    BY PcStep
<1>nat. cleanups \in Nat /\ parsed \in Nat /\ inBuffer \in Nat
    BY DEF TypeOK
<1>task. task \in [Thread -> Nat]
    BY DEF TypeOK
<1>pend. pendingTasks \in Seq(Nat)
    BY DEF TypeOK
<1>work. workQueue \in Seq(Nat)
    BY DEF TypeOK
<1>start. started \in Seq(Nat)
    BY DEF TypeOK
<1>out. outBuffer \in Seq(Nat) /\ wire \in Seq(Nat)
    BY DEF TypeOK
<1>queue. taskQueue \in Seq(Callback \X Nat)
    BY DEF TypeOK
<1> USE DEF TypeOK, FrameChunks
<1>1. CASE PeerSend
    BY <1>pc, <1>1 DEF PeerSend
<1>2. CASE PeerFin
    BY <1>pc, <1>2 DEF PeerFin
<1>3. CASE PeerReset
    BY <1>pc, <1>3 DEF PeerReset
<1>4. CASE Read
    BY <1>pc, <1>4 DEF Read
<1>5. CASE ErrorEvent
  <2>1. state' \in {"Connected", "Closing", "Closed"}
          /\ cause' \in {"none", "drained", "abort"}
      BY <1>5 DEF ErrorEvent, HandleClose
  <2>2. parsing' \in BOOLEAN
      BY <1>5 DEF ErrorEvent, HandleClose
  <2> QED
      BY <1>pc, <1>5, <2>1, <2>2 DEF ErrorEvent
<1>6. CASE ParseOK
  <2>1. inBuffer' \in Nat /\ parsed' \in Nat
      BY <1>6 DEF ParseOK
  <2>q. /\ Append(pendingTasks, parsed + 1) \in Seq(Nat)
        /\ Append(pendingTasks, parsed + 1) # <<>>
    <3> HIDE DEF TypeOK
    <3> QED BY <1>nat, <1>pend
  <2>2. pendingTasks' \in Seq(Nat)
    <3> HIDE DEF TypeOK
    <3>1. \/ pendingTasks' = Append(pendingTasks, parsed + 1)
          \/ pendingTasks' = Tail(Append(pendingTasks, parsed + 1))
        BY <1>6, Zenon DEF ParseOK
    <3>2. Tail(Append(pendingTasks, parsed + 1)) \in Seq(Nat)
        BY <2>q
    <3> QED BY <3>1, <3>2, <2>q, Zenon
  <2>3. taskRunning' \in BOOLEAN
      BY <1>6 DEF ParseOK
  <2>4. task' \in [Thread -> Nat]
    <3> HIDE DEF TypeOK
    <3>1. \/ task' = task
          \/ task' = [task EXCEPT ![Loop] = Head(Append(pendingTasks, parsed + 1))]
        BY <1>6, Zenon DEF ParseOK
    <3> QED BY <3>1, <2>q, <1>task
  <2>5. /\ UNCHANGED <<peerVars, state, peerReadClosed, outBuffer,
                 closeCallbackPending, pendingSendCallbacks, taskQueue,
                 epollVars, poolVars, parsing, histVars, cause, businessVars>>
      BY <1>6 DEF ParseOK
  <2> QED
      BY <1>pc, <2>1, <2>2, <2>3, <2>4, <2>5
<1>7. CASE ParseError
  <2>1. state' \in {"Connected", "Closing", "Closed"}
          /\ cause' \in {"none", "drained", "abort"}
      BY <1>7 DEF ParseError, HandleClose
  <2>2. parsing' \in BOOLEAN
      BY <1>7 DEF ParseError, HandleClose
  <2> QED
      BY <1>pc, <1>7, <2>1, <2>2 DEF ParseError
<1>8. CASE ParseNeedMore
  <2>1. inBuffer' \in Nat
      BY <1>8 DEF ParseNeedMore
  <2>2. parsing' \in BOOLEAN
      BY <1>8 DEF ParseNeedMore
  <2> QED
      BY <1>pc, <1>8, <2>1, <2>2 DEF ParseNeedMore
<1>9. ASSUME NEW t \in Exec, Submit(t) PROVE TypeOK'
  <2>1. workQueue' \in Seq(Nat)
    <3> HIDE DEF TypeOK
    <3>1. workQueue' = workQueue \/ workQueue' = Append(workQueue, task[t])
        BY <1>9, Zenon DEF Submit
    <3>2. task[t] \in Nat
        BY <1>task DEF Thread, Exec
    <3> QED BY <3>1, <3>2, <1>work
  <2> QED
      BY <1>pc, <1>9, <2>1 DEF Submit
<1>10. ASSUME NEW w \in Workers, TakeTask(w) PROVE TypeOK'
    BY <1>pc, <1>10 DEF TakeTask, Thread, Exec
<1>11. ASSUME NEW t \in Exec, StartTask(t) PROVE TypeOK'
  <2>1. started' \in Seq(Nat)
    <3> HIDE DEF TypeOK
    <3>1. started' = started \/ started' = Append(started, task[t])
        BY <1>11, Zenon DEF StartTask
    <3>2. task[t] \in Nat
        BY <1>task DEF Thread, Exec
    <3> QED BY <3>1, <3>2, <1>start
  <2> QED
      BY <1>pc, <1>11, <2>1 DEF StartTask
<1>12. ASSUME NEW t \in Exec, HandlerReturns(t) PROVE TypeOK'
    BY <1>pc, <1>12 DEF HandlerReturns
<1>13. ASSUME NEW w \in Workers, HandlerReplies(w) PROVE TypeOK'
  <2>1. replied' \in SUBSET Nat
      BY <1>13 DEF HandlerReplies, Thread, Exec
  <2>2. pendingSendCallbacks' \in Int
      BY <1>13 DEF HandlerReplies, Thread, Exec
  <2> QED
      BY <1>pc, <1>13, <2>1, <2>2 DEF HandlerReplies
<1>14. ASSUME NEW t \in Workers \cup Others, SendPost(t) PROVE TypeOK'
    BY <1>pc, <1>14 DEF SendPost, Thread, Exec, Callback
<1>15. ASSUME NEW t \in Exec, OnTaskComplete(t) PROVE TypeOK'
  <2>1. pendingTasks' \in Seq(Nat)
    <3> HIDE DEF TypeOK
    <3>1. \/ pendingTasks' = <<>> \/ pendingTasks' = pendingTasks
          \/ pendingTasks # <<>> /\ pendingTasks' = Tail(pendingTasks)
        BY <1>15, Zenon DEF OnTaskComplete
    <3>2. <<>> \in Seq(Nat) /\ (pendingTasks # <<>> => Tail(pendingTasks) \in Seq(Nat))
        BY <1>pend
    <3> QED BY <3>1, <3>2, <1>pend, Zenon
  <2>2. taskRunning' \in BOOLEAN /\ closeCallbackPending' \in BOOLEAN
      BY <1>15 DEF OnTaskComplete, Thread, Exec
  <2>3. task' \in [Thread -> Nat]
    <3> HIDE DEF TypeOK
    <3>1. \/ task' = task
          \/ pendingTasks # <<>> /\ task' = [task EXCEPT ![t] = Head(pendingTasks)]
        BY <1>15, Zenon DEF OnTaskComplete
    <3> QED BY <3>1, <1>task, <1>pend
  <2> QED
      BY <1>pc, <1>15, <2>1, <2>2, <2>3 DEF OnTaskComplete
<1>16. ASSUME NEW w \in Workers, PostToLoop(w) PROVE TypeOK'
    BY <1>pc, <1>16 DEF PostToLoop, Callback
<1>17. CASE RunPostedInline
    BY <1>pc, <1>17 DEF RunPostedInline
<1>18. ASSUME NEW o \in Others, OtherSend(o) PROVE TypeOK'
    BY <1>pc, <1>18 DEF OtherSend
<1>19. ASSUME NEW o \in Others, OtherClose(o) PROVE TypeOK'
    BY <1>pc, <1>19 DEF OtherClose, Callback
<1>20. CASE PoolStop
    BY <1>pc, <1>20 DEF PoolStop
<1>21. CASE RunSend
  <2>1. state' \in {"Connected", "Closing", "Closed"}
          /\ cause' \in {"none", "drained", "abort"}
      BY <1>21 DEF RunSend, Dequeue, HandleClose
  <2>2. parsing' \in BOOLEAN
      BY <1>21 DEF RunSend, Dequeue, HandleClose
  <2>3. outBuffer' \in Seq(Nat)
    <3> HIDE DEF TypeOK
    <3>1. /\ taskQueue # <<>>
          /\ \/ outBuffer' = outBuffer
             \/ outBuffer' = Append(outBuffer, Head(taskQueue)[2])
        BY <1>21, Zenon DEF RunSend, Dequeue
    <3>2. Head(taskQueue) \in Callback \X Nat
        BY <3>1, <1>queue
    <3>3. Head(taskQueue)[2] \in Nat
        BY <3>2
    <3>4. \A e \in Nat : Append(outBuffer, e) \in Seq(Nat)
        BY <1>out
    <3> QED BY <3>1, <3>3, <3>4, <1>out, Zenon
  <2>4. interest' \in SUBSET {"IN", "OUT"}
      BY <1>21 DEF RunSend, Dequeue, HandleClose
  <2>5. taskQueue' \in Seq(Callback \X Nat) /\ pendingSendCallbacks' \in Int
      BY <1>21 DEF RunSend, Dequeue, HandleClose
  <2> QED
      BY <1>pc, <1>21, <2>1, <2>2, <2>3, <2>4, <2>5 DEF RunSend, Dequeue
<1>22. CASE RunEof
    BY <1>pc, <1>22 DEF RunEof, Dequeue
<1>23. CASE RunFinal
    BY <1>pc, <1>23 DEF RunFinal, Dequeue
<1>24. CASE RunClose
  <2>1. state' \in {"Connected", "Closing", "Closed"}
          /\ cause' \in {"none", "drained", "abort"}
      BY <1>24 DEF RunClose, Dequeue, HandleClose
  <2>2. parsing' \in BOOLEAN
      BY <1>24 DEF RunClose, Dequeue, HandleClose
  <2>3. taskQueue' \in Seq(Callback \X Nat)
      BY <1>24 DEF RunClose, Dequeue, HandleClose
  <2> QED
      BY <1>pc, <1>24, <2>1, <2>2, <2>3 DEF RunClose, Dequeue
<1>25. CASE EofTasks
    BY <1>pc, <1>25 DEF EofTasks
<1>26. CASE EofSends
  <2>1. state' \in {"Connected", "Closing", "Closed"}
          /\ cause' \in {"none", "drained", "abort"}
      BY <1>26 DEF EofSends, HandleClose
  <2>2. parsing' \in BOOLEAN
      BY <1>26 DEF EofSends, HandleClose
  <2> QED
      BY <1>pc, <1>26, <2>1, <2>2 DEF EofSends
<1>27. CASE CloseLocked
  <2>1. registered' \in BOOLEAN /\ interest' \in SUBSET {"IN", "OUT"}
      BY <1>27 DEF CloseLocked
  <2>2. pendingTasks' \in Seq(Nat) /\ inBuffer' \in Nat /\ outBuffer' \in Seq(Nat)
      BY <1>27 DEF CloseLocked
  <2>3. closeCallbackPending' \in BOOLEAN
      BY <1>27 DEF CloseLocked
  <2> QED
      BY <1>pc, <1>27, <2>1, <2>2, <2>3 DEF CloseLocked
<1>28. CASE Write
  <2>k. PICK k \in 1..Len(outBuffer) :
          /\ wire' = wire \o SubSeq(outBuffer, 1, k)
          /\ outBuffer' = SubSeq(outBuffer, k + 1, Len(outBuffer))
      BY <1>28, Zenon DEF Write
  <2>1. wire' \in Seq(Nat)
    <3> HIDE DEF TypeOK
    <3> QED BY <2>k, <1>out
  <2>2. outBuffer' \in Seq(Nat)
    <3> HIDE DEF TypeOK
    <3> QED BY <2>k, <1>out
  <2>3. interest' \in SUBSET {"IN", "OUT"}
      BY <1>28 DEF Write
  <2>4. UNCHANGED <<sent, unread, fin, reset, state, peerReadClosed, inBuffer, parsed,
                   taskVars, pendingSendCallbacks, taskQueue, registered, mapped, fdOpen,
                   poolVars, task, parsing, histVars, cause, businessVars>>
      BY <1>28 DEF Write
  <2> QED
      BY <1>pc, <2>1, <2>2, <2>3, <2>4
<1>29. CASE IdleTimeout
    BY <1>pc, <1>29 DEF IdleTimeout, HandleClose
<1>30. CASE UNCHANGED vars
    BY <1>pc, <1>30 DEF vars
<1>31. CASE BusinessCleanup
    BY <1>pc, <1>31 DEF BusinessCleanup
<1>32. CASE RemoveChannel
  <2>1. registered' \in BOOLEAN /\ interest' \in SUBSET {"IN", "OUT"}
      BY <1>32 DEF RemoveChannel
  <2>2. UNCHANGED <<peerVars, bufVars, taskVars, pendingSendCallbacks, taskQueue, poolVars,
                   task, parsing, histVars, cause, mapped, fdOpen, state, businessVars>>
      BY <1>32 DEF RemoveChannel
  <2> QED
      BY <1>pc, <2>1, <2>2
<1>33. CASE FinishClose
  <2>1. state' \in {"Connected", "Closing", "Closed"} /\ fdOpen' \in BOOLEAN
      BY <1>33 DEF FinishClose
  <2>2. UNCHANGED <<peerVars, bufVars, taskVars, pendingSendCallbacks, taskQueue, poolVars,
                   task, parsing, histVars, cause, interest, registered, mapped, businessVars>>
      BY <1>33 DEF FinishClose
  <2> QED
      BY <1>pc, <2>1, <2>2
<1>34. CASE EraseConnection
  <2>1. mapped' \in BOOLEAN
      BY <1>34 DEF EraseConnection
  <2>2. UNCHANGED <<peerVars, bufVars, taskVars, pendingSendCallbacks, taskQueue, poolVars,
                   task, parsing, histVars, cause, interest, registered, fdOpen, state,
                   businessVars>>
      BY <1>34 DEF EraseConnection
  <2> QED
      BY <1>pc, <2>1, <2>2
<1>35. ASSUME NEW w \in Workers, HandlerLogsIn(w) PROVE TypeOK'
    BY <1>pc, <1>35 DEF HandlerLogsIn
<1>36. CASE NextLogsIn
    BY <1>pc, <1>36 DEF NextLogsIn
<1> QED
    BY <1>1, <1>2, <1>3, <1>4, <1>5, <1>6, <1>7, <1>8, <1>9, <1>10, <1>11,
       <1>12, <1>13, <1>14, <1>15, <1>16, <1>17, <1>18, <1>19, <1>20, <1>21,
       <1>22, <1>23, <1>24, <1>25, <1>26, <1>27, <1>28, <1>29, <1>30, <1>31,
       <1>32, <1>33, <1>34, <1>35, <1>36
    DEF Next, PeerStep, LoopStep, WorkerStep, OtherStep, RunInLoop, Terminating, Exec

\* Taking the head off task_queue_ shifts the posted final callbacks by one.
LEMMA TailFinal ==
  ASSUME taskQueue \in Seq(Callback \X Nat), taskQueue # <<>>,
         taskQueue' = Tail(taskQueue)
  PROVE  \A i \in Nat \ {0} : i \in FinalPosted' <=> i + 1 \in FinalPosted
<1>1. /\ Len(taskQueue') = Len(taskQueue) - 1
      /\ \A i \in 1..Len(taskQueue') : taskQueue'[i] = taskQueue[i + 1]
      /\ Len(taskQueue) \in Nat
    OBVIOUS
<1> QED BY <1>1 DEF FinalPosted

\* The head of task_queue_ is a posted final callback exactly if it says so.
LEMMA HeadFinal ==
  ASSUME taskQueue \in Seq(Callback \X Nat), taskQueue # <<>>
  PROVE  1 \in FinalPosted <=> Head(taskQueue)[1] = "final"
<1>1. Head(taskQueue) = taskQueue[1] /\ 1 \in 1..Len(taskQueue)
    OBVIOUS
<1> QED BY <1>1 DEF FinalPosted

\* Threads stay where their kind of thread can be.
LEMMA PlacesStep ==
  ASSUME ConnInv, [Next]_vars PROVE ThreadPlaces'
<1>typ. pc \in [Thread -> PC] /\ taskRunning \in BOOLEAN
    BY DEF ConnInv, TypeOK
<1> USE ThreadsAssumption, <1>typ DEF ConnInv, ThreadPlaces, LoopInv, ClosingPlaces,
        Executing, Goto, Thread, Exec
<1>1. CASE PeerSend
    BY <1>1 DEF PeerSend
<1>2. CASE PeerFin
    BY <1>2 DEF PeerFin
<1>3. CASE PeerReset
    BY <1>3 DEF PeerReset
<1>4. CASE Read
    BY <1>4 DEF Read
<1>5. CASE ErrorEvent
    BY <1>5 DEF ErrorEvent, HandleClose, After
<1>6. CASE ParseOK
    BY <1>6 DEF ParseOK
<1>7. CASE ParseError
    BY <1>7 DEF ParseError, HandleClose, After
<1>8. CASE ParseNeedMore
    BY <1>8 DEF ParseNeedMore, EofEntry
<1>9. ASSUME NEW t \in Exec, Submit(t) PROVE ThreadPlaces'
    BY <1>9 DEF Submit, After
<1>10. ASSUME NEW w \in Workers, TakeTask(w) PROVE ThreadPlaces'
    BY <1>10 DEF TakeTask
<1>11. ASSUME NEW t \in Exec, StartTask(t) PROVE ThreadPlaces'
    BY <1>11 DEF StartTask
<1>12. ASSUME NEW t \in Exec, HandlerReturns(t) PROVE ThreadPlaces'
    BY <1>12 DEF HandlerReturns
<1>13. ASSUME NEW w \in Workers, HandlerReplies(w) PROVE ThreadPlaces'
    BY <1>13 DEF HandlerReplies
<1>14. ASSUME NEW t \in Workers \cup Others, SendPost(t) PROVE ThreadPlaces'
    BY <1>14 DEF SendPost
<1>15. ASSUME NEW t \in Exec, OnTaskComplete(t) PROVE ThreadPlaces'
    BY <1>15 DEF OnTaskComplete
<1>16. ASSUME NEW w \in Workers, PostToLoop(w) PROVE ThreadPlaces'
    BY <1>16 DEF PostToLoop
<1>17. CASE RunPostedInline
    BY <1>17 DEF RunPostedInline, After, EofEntry
<1>18. ASSUME NEW o \in Others, OtherSend(o) PROVE ThreadPlaces'
    BY <1>18 DEF OtherSend
<1>19. ASSUME NEW o \in Others, OtherClose(o) PROVE ThreadPlaces'
    BY <1>19 DEF OtherClose
<1>20. CASE PoolStop
    BY <1>20 DEF PoolStop
<1>21. CASE RunSend
    BY <1>21 DEF RunSend, Dequeue, HandleClose, After, EofEntry
<1>22. CASE RunEof
    BY <1>22 DEF RunEof, Dequeue, EofEntry
<1>23. CASE RunFinal
    BY <1>23 DEF RunFinal, Dequeue
<1>24. CASE RunClose
    BY <1>24 DEF RunClose, Dequeue, HandleClose, After
<1>25. CASE EofTasks
    BY <1>25 DEF EofTasks, After
<1>26. CASE EofSends
    BY <1>26 DEF EofSends, HandleClose, After
<1>27. CASE CloseLocked
    BY <1>27 DEF CloseLocked
<1>28. CASE Write
    BY <1>28 DEF Write, EofEntry
<1>29. CASE IdleTimeout
    BY <1>29 DEF IdleTimeout, HandleClose, After
<1>30. CASE UNCHANGED vars
    BY <1>30 DEF vars
<1>31. CASE BusinessCleanup
    BY <1>31 DEF BusinessCleanup
<1>32. CASE RemoveChannel
    BY <1>32 DEF RemoveChannel
<1>33. CASE FinishClose
    BY <1>33 DEF FinishClose
<1>34. CASE EraseConnection
    BY <1>34 DEF EraseConnection
<1>35. ASSUME NEW w \in Workers, HandlerLogsIn(w) PROVE ThreadPlaces'
    BY <1>35 DEF HandlerLogsIn
<1>36. CASE NextLogsIn
    BY <1>36 DEF NextLogsIn
<1> QED
    BY <1>1, <1>2, <1>3, <1>4, <1>5, <1>6, <1>7, <1>8, <1>9, <1>10, <1>11,
       <1>12, <1>13, <1>14, <1>15, <1>16, <1>17, <1>18, <1>19, <1>20, <1>21,
       <1>22, <1>23, <1>24, <1>25, <1>26, <1>27, <1>28, <1>29, <1>30, <1>31,
       <1>32, <1>33, <1>34, <1>35, <1>36
    DEF Next, PeerStep, LoopStep, WorkerStep, OtherStep, RunInLoop, Terminating, Exec

\* The loop's place still says what it may about the state.
LEMMA LoopInvStep ==
  ASSUME ConnInv, [Next]_vars PROVE LoopInv'
<1>typ. pc \in [Thread -> PC] /\ taskRunning \in BOOLEAN
    BY DEF ConnInv, TypeOK
<1>queue. taskQueue \in Seq(Callback \X Nat)
    BY DEF ConnInv, TypeOK
<1> USE ThreadsAssumption, <1>typ DEF ConnInv, ThreadPlaces, LoopInv, CloseInv,
        ClosingPlaces, Executing, Goto, Thread, Exec
<1>1. CASE PeerSend
    BY <1>1 DEF PeerSend
<1>2. CASE PeerFin
    BY <1>2 DEF PeerFin
<1>3. CASE PeerReset
    BY <1>3 DEF PeerReset
<1>4. CASE Read
    BY <1>4 DEF Read
<1>5. CASE ErrorEvent
    BY <1>5 DEF ErrorEvent, HandleClose, After
<1>6. CASE ParseOK
    BY <1>6 DEF ParseOK
<1>7. CASE ParseError
    BY <1>7 DEF ParseError, HandleClose, After
<1>8. CASE ParseNeedMore
    BY <1>8 DEF ParseNeedMore, EofEntry
<1>9. ASSUME NEW t \in Exec, Submit(t) PROVE LoopInv'
    BY <1>9 DEF Submit, After
<1>10. ASSUME NEW w \in Workers, TakeTask(w) PROVE LoopInv'
    BY <1>10 DEF TakeTask
<1>11. ASSUME NEW t \in Exec, StartTask(t) PROVE LoopInv'
    BY <1>11 DEF StartTask
<1>12. ASSUME NEW t \in Exec, HandlerReturns(t) PROVE LoopInv'
    BY <1>12 DEF HandlerReturns
<1>13. ASSUME NEW w \in Workers, HandlerReplies(w) PROVE LoopInv'
    BY <1>13 DEF HandlerReplies
<1>14. ASSUME NEW t \in Workers \cup Others, SendPost(t) PROVE LoopInv'
    BY <1>14 DEF SendPost
<1>15. ASSUME NEW t \in Exec, OnTaskComplete(t) PROVE LoopInv'
    BY <1>15 DEF OnTaskComplete
<1>16. ASSUME NEW w \in Workers, PostToLoop(w) PROVE LoopInv'
    BY <1>16 DEF PostToLoop
<1>17. CASE RunPostedInline
    BY <1>17 DEF RunPostedInline, After, EofEntry
<1>18. ASSUME NEW o \in Others, OtherSend(o) PROVE LoopInv'
    BY <1>18 DEF OtherSend
<1>19. ASSUME NEW o \in Others, OtherClose(o) PROVE LoopInv'
    BY <1>19 DEF OtherClose
<1>20. CASE PoolStop
    BY <1>20 DEF PoolStop
<1>21. CASE RunSend
    BY <1>21 DEF RunSend, Dequeue, HandleClose, After, EofEntry
<1>22. CASE RunEof
    BY <1>22 DEF RunEof, Dequeue, EofEntry
<1>23. CASE RunFinal
  <2>1. 1 \in FinalPosted
      BY <1>23, <1>queue, HeadFinal DEF RunFinal, Dequeue
  <2>2. state = "Closing"
      BY <2>1
  <2>3. /\ pc[Loop] = "idle" /\ pc' = [pc EXCEPT ![Loop] = "cleanup"]
        /\ UNCHANGED <<state, parsing, poolStopped>>
      BY <1>23 DEF RunFinal, Dequeue
  <2> QED BY <2>2, <2>3
<1>24. CASE RunClose
    BY <1>24 DEF RunClose, Dequeue, HandleClose, After
<1>25. CASE EofTasks
    BY <1>25 DEF EofTasks, After
<1>26. CASE EofSends
    BY <1>26 DEF EofSends, HandleClose, After
<1>27. CASE CloseLocked
    BY <1>27 DEF CloseLocked
<1>28. CASE Write
    BY <1>28 DEF Write, EofEntry
<1>29. CASE IdleTimeout
    BY <1>29 DEF IdleTimeout, HandleClose, After
<1>30. CASE UNCHANGED vars
    BY <1>30 DEF vars
<1>31. CASE BusinessCleanup
    BY <1>31 DEF BusinessCleanup
<1>32. CASE RemoveChannel
    BY <1>32 DEF RemoveChannel
<1>33. CASE FinishClose
    BY <1>33 DEF FinishClose
<1>34. CASE EraseConnection
    BY <1>34 DEF EraseConnection
<1>35. ASSUME NEW w \in Workers, HandlerLogsIn(w) PROVE LoopInv'
    BY <1>35 DEF HandlerLogsIn
<1>36. CASE NextLogsIn
    BY <1>36 DEF NextLogsIn
<1> QED
    BY <1>1, <1>2, <1>3, <1>4, <1>5, <1>6, <1>7, <1>8, <1>9, <1>10, <1>11,
       <1>12, <1>13, <1>14, <1>15, <1>16, <1>17, <1>18, <1>19, <1>20, <1>21,
       <1>22, <1>23, <1>24, <1>25, <1>26, <1>27, <1>28, <1>29, <1>30, <1>31,
       <1>32, <1>33, <1>34, <1>35, <1>36
    DEF Next, PeerStep, LoopStep, WorkerStep, OtherStep, RunInLoop, Terminating, Exec

\* The running slot stays unique and taskRunning tells whether it is taken.
LEMMA SlotStep ==
  ASSUME ConnInv, [Next]_vars PROVE SlotInv'
<1>typ. pc \in [Thread -> PC] /\ taskRunning \in BOOLEAN
    BY DEF ConnInv, TypeOK
<1> USE ThreadsAssumption, <1>typ DEF ConnInv, ThreadPlaces, LoopInv, SlotInv,
        Executing, Goto, Thread, Exec
<1>1. CASE PeerSend
    BY <1>1 DEF PeerSend
<1>2. CASE PeerFin
    BY <1>2 DEF PeerFin
<1>3. CASE PeerReset
    BY <1>3 DEF PeerReset
<1>4. CASE Read
    BY <1>4 DEF Read
<1>5. CASE ErrorEvent
    BY <1>5 DEF ErrorEvent, HandleClose, After
<1>6. CASE ParseOK
    BY <1>6 DEF ParseOK
<1>7. CASE ParseError
    BY <1>7 DEF ParseError, HandleClose, After
<1>8. CASE ParseNeedMore
    BY <1>8 DEF ParseNeedMore, EofEntry
<1>9. ASSUME NEW t \in Exec, Submit(t) PROVE SlotInv'
  <2>1. workQueue = <<>> /\ taskRunning
      BY <1>9 DEF Submit
  <2>2. UNCHANGED <<pendingTasks, taskRunning>>
      BY <1>9 DEF Submit
  <2>3. CASE Outbound \/ poolStopped
      BY <1>9, <2>3 DEF Submit
  <2>4. CASE ~(Outbound \/ poolStopped)
    <3>1. workQueue' = Append(workQueue, task[t])
        BY <1>9, <2>4 DEF Submit
    <3>2. Len(workQueue') = 1 /\ workQueue' # <<>>
        BY <3>1, <2>1
    <3>3. PICK p \in {"idle", "parse"} : pc' = [pc EXCEPT ![t] = p]
        BY <1>9, <2>4 DEF Submit, After
    <3> QED BY <1>9, <2>1, <2>2, <3>2, <3>3 DEF Submit
  <2> QED BY <2>3, <2>4
<1>10. ASSUME NEW w \in Workers, TakeTask(w) PROVE SlotInv'
  <2>1. workQueue # <<>> /\ workQueue' = Tail(workQueue)
      BY <1>10 DEF TakeTask
  <2>2. Len(workQueue) = 1 /\ workQueue \in Seq(Nat)
      BY <2>1 DEF TypeOK
  <2>3. workQueue' = <<>>
      BY <2>1, <2>2
  <2> QED BY <1>10, <2>1, <2>3 DEF TakeTask
<1>11. ASSUME NEW t \in Exec, StartTask(t) PROVE SlotInv'
    BY <1>11 DEF StartTask
<1>12. ASSUME NEW t \in Exec, HandlerReturns(t) PROVE SlotInv'
    BY <1>12 DEF HandlerReturns
<1>13. ASSUME NEW w \in Workers, HandlerReplies(w) PROVE SlotInv'
    BY <1>13 DEF HandlerReplies
<1>14. ASSUME NEW t \in Workers \cup Others, SendPost(t) PROVE SlotInv'
    BY <1>14 DEF SendPost
<1>15. ASSUME NEW t \in Exec, OnTaskComplete(t) PROVE SlotInv'
    BY <1>15 DEF OnTaskComplete
<1>16. ASSUME NEW w \in Workers, PostToLoop(w) PROVE SlotInv'
    BY <1>16 DEF PostToLoop
<1>17. CASE RunPostedInline
  <2>1. UNCHANGED <<pendingTasks, taskRunning, workQueue>>
      BY <1>17 DEF RunPostedInline
  <2>2. PICK p \in {"idle", "parse", "eofTasks", "cleanup"} : pc' = [pc EXCEPT ![Loop] = p]
      BY <1>17 DEF RunPostedInline, After, EofEntry
  <2> QED BY <1>17, <2>1, <2>2 DEF RunPostedInline
<1>18. ASSUME NEW o \in Others, OtherSend(o) PROVE SlotInv'
    BY <1>18 DEF OtherSend
<1>19. ASSUME NEW o \in Others, OtherClose(o) PROVE SlotInv'
    BY <1>19 DEF OtherClose
<1>20. CASE PoolStop
    BY <1>20 DEF PoolStop
<1>21. CASE RunSend
    BY <1>21 DEF RunSend, Dequeue, HandleClose, After, EofEntry
<1>22. CASE RunEof
    BY <1>22 DEF RunEof, Dequeue, EofEntry
<1>23. CASE RunFinal
    BY <1>23 DEF RunFinal, Dequeue
<1>24. CASE RunClose
    BY <1>24 DEF RunClose, Dequeue, HandleClose, After
<1>25. CASE EofTasks
    BY <1>25 DEF EofTasks, After
<1>26. CASE EofSends
    BY <1>26 DEF EofSends, HandleClose, After
<1>27. CASE CloseLocked
    BY <1>27 DEF CloseLocked
<1>28. CASE Write
    BY <1>28 DEF Write, EofEntry
<1>29. CASE IdleTimeout
    BY <1>29 DEF IdleTimeout, HandleClose, After
<1>30. CASE UNCHANGED vars
    BY <1>30 DEF vars
<1>31. CASE BusinessCleanup
    BY <1>31 DEF BusinessCleanup
<1>32. CASE RemoveChannel
    BY <1>32 DEF RemoveChannel
<1>33. CASE FinishClose
    BY <1>33 DEF FinishClose
<1>34. CASE EraseConnection
    BY <1>34 DEF EraseConnection
<1>35. ASSUME NEW w \in Workers, HandlerLogsIn(w) PROVE SlotInv'
    BY <1>35 DEF HandlerLogsIn
<1>36. CASE NextLogsIn
    BY <1>36 DEF NextLogsIn
<1> QED
    BY <1>1, <1>2, <1>3, <1>4, <1>5, <1>6, <1>7, <1>8, <1>9, <1>10, <1>11,
       <1>12, <1>13, <1>14, <1>15, <1>16, <1>17, <1>18, <1>19, <1>20, <1>21,
       <1>22, <1>23, <1>24, <1>25, <1>26, <1>27, <1>28, <1>29, <1>30, <1>31,
       <1>32, <1>33, <1>34, <1>35, <1>36
    DEF Next, PeerStep, LoopStep, WorkerStep, OtherStep, RunInLoop, Terminating, Exec

\* The close keeps exactly one owner.
LEMMA CloseStep ==
  ASSUME ConnInv, [Next]_vars PROVE CloseInv'
<1>typ. pc \in [Thread -> PC] /\ taskRunning \in BOOLEAN
    BY DEF ConnInv, TypeOK
<1>queue. taskQueue \in Seq(Callback \X Nat)
    BY DEF ConnInv, TypeOK
<1> USE ThreadsAssumption, <1>typ DEF ConnInv, ThreadPlaces, LoopInv, SlotInv,
        CloseInv, ClosingPlaces, FinalPosted, Executing, Goto, Thread, Exec
<1>1. CASE PeerSend
    BY <1>1 DEF PeerSend
<1>2. CASE PeerFin
    BY <1>2 DEF PeerFin
<1>3. CASE PeerReset
    BY <1>3 DEF PeerReset
<1>4. CASE Read
    BY <1>4 DEF Read
<1>5. CASE ErrorEvent
    BY <1>5 DEF ErrorEvent, HandleClose, After
<1>6. CASE ParseOK
    BY <1>6 DEF ParseOK
<1>7. CASE ParseError
    BY <1>7 DEF ParseError, HandleClose, After
<1>8. CASE ParseNeedMore
    BY <1>8 DEF ParseNeedMore, EofEntry
<1>9. ASSUME NEW t \in Exec, Submit(t) PROVE CloseInv'
    BY <1>9 DEF Submit, After
<1>10. ASSUME NEW w \in Workers, TakeTask(w) PROVE CloseInv'
    BY <1>10 DEF TakeTask
<1>11. ASSUME NEW t \in Exec, StartTask(t) PROVE CloseInv'
    BY <1>11 DEF StartTask
<1>12. ASSUME NEW t \in Exec, HandlerReturns(t) PROVE CloseInv'
    BY <1>12 DEF HandlerReturns
<1>13. ASSUME NEW w \in Workers, HandlerReplies(w) PROVE CloseInv'
    BY <1>13 DEF HandlerReplies
<1>14. ASSUME NEW t \in Workers \cup Others, SendPost(t) PROVE CloseInv'
    BY <1>14 DEF SendPost
<1>15. ASSUME NEW t \in Exec, OnTaskComplete(t) PROVE CloseInv'
    BY <1>15 DEF OnTaskComplete
<1>16. ASSUME NEW w \in Workers, PostToLoop(w) PROVE CloseInv'
    BY <1>16 DEF PostToLoop
<1>17. CASE RunPostedInline
    BY <1>17 DEF RunPostedInline, After, EofEntry
<1>18. ASSUME NEW o \in Others, OtherSend(o) PROVE CloseInv'
    BY <1>18 DEF OtherSend
<1>19. ASSUME NEW o \in Others, OtherClose(o) PROVE CloseInv'
    BY <1>19 DEF OtherClose
<1>20. CASE PoolStop
    BY <1>20 DEF PoolStop
<1>21. CASE RunSend
  <2>1. /\ taskQueue # <<>> /\ taskQueue' = Tail(taskQueue)
        /\ Head(taskQueue)[1] # "final" /\ pc[Loop] = "idle"
      BY <1>21 DEF RunSend, Dequeue
  <2>2. 1 \notin FinalPosted
      BY <2>1, <1>queue, HeadFinal
  <2>3. /\ \A i \in FinalPosted' : i + 1 \in FinalPosted /\ i \in Nat
        /\ \A i \in FinalPosted : i - 1 \in FinalPosted'
      BY <2>1, <2>2, <1>queue, TailFinal DEF FinalPosted
  <2>4. UNCHANGED <<taskRunning, closeCallbackPending, cleanups>>
      BY <1>21 DEF RunSend
  <2>5. \/ state' = state /\ pc'[Loop] \notin {"closing"} \cup ClosingPlaces
        \/ state = "Connected" /\ state' = "Closing" /\ pc'[Loop] = "closing"
      BY <1>21, <2>1 DEF RunSend, Dequeue, HandleClose, EofEntry, After
  <2>6. \A w \in Workers : pc'[w] = pc[w]
      BY <1>21 DEF RunSend, Dequeue, HandleClose, EofEntry, After
  <2> HIDE DEF FinalPosted
  <2> QED BY <2>1, <2>3, <2>4, <2>5, <2>6
<1>22. CASE RunEof
  <2>1. /\ taskQueue # <<>> /\ taskQueue' = Tail(taskQueue)
        /\ Head(taskQueue)[1] # "final" /\ pc[Loop] = "idle"
      BY <1>22 DEF RunEof, Dequeue
  <2>2. 1 \notin FinalPosted
      BY <2>1, <1>queue, HeadFinal
  <2>3. /\ \A i \in FinalPosted' : i + 1 \in FinalPosted /\ i \in Nat
        /\ \A i \in FinalPosted : i - 1 \in FinalPosted'
      BY <2>1, <2>2, <1>queue, TailFinal DEF FinalPosted
  <2>4. UNCHANGED <<taskRunning, closeCallbackPending, cleanups>>
      BY <1>22 DEF RunEof
  <2>5. \/ state' = state /\ pc'[Loop] \notin {"closing"} \cup ClosingPlaces
        \/ state = "Connected" /\ state' = "Closing" /\ pc'[Loop] = "closing"
      BY <1>22, <2>1 DEF RunEof, Dequeue, EofEntry, After
  <2>6. \A w \in Workers : pc'[w] = pc[w]
      BY <1>22 DEF RunEof, Dequeue, EofEntry, After
  <2> HIDE DEF FinalPosted
  <2> QED BY <2>1, <2>3, <2>4, <2>5, <2>6
<1>23. CASE RunFinal
  <2>1. /\ taskQueue # <<>> /\ taskQueue' = Tail(taskQueue)
        /\ Head(taskQueue)[1] = "final" /\ pc[Loop] = "idle"
        /\ pc' = [pc EXCEPT ![Loop] = "cleanup"]
        /\ UNCHANGED <<state, cleanups, taskRunning, closeCallbackPending>>
      BY <1>23 DEF RunFinal, Dequeue
  <2>2. 1 \in FinalPosted
      BY <2>1, <1>queue, HeadFinal
  <2>3. FinalPosted' = {}
    <3>1. \A i \in FinalPosted' : i \in Nat \ {0} /\ i + 1 \in FinalPosted
        BY <2>1, <1>queue, TailFinal DEF FinalPosted
    <3>2. \A j \in FinalPosted : j = 1
        BY <2>2
    <3> HIDE DEF FinalPosted
    <3> QED BY <3>1, <3>2
  <2>4. /\ state = "Closing" /\ cleanups = 0 /\ ~taskRunning
        /\ \A t \in Workers : pc[t] # "postFinal"
      BY <2>2
  <2> HIDE DEF FinalPosted
  <2> QED BY <2>1, <2>3, <2>4
<1>24. CASE RunClose
  <2>1. /\ taskQueue # <<>> /\ taskQueue' = Tail(taskQueue)
        /\ Head(taskQueue)[1] # "final" /\ pc[Loop] = "idle"
      BY <1>24 DEF RunClose, Dequeue
  <2>2. 1 \notin FinalPosted
      BY <2>1, <1>queue, HeadFinal
  <2>3. /\ \A i \in FinalPosted' : i + 1 \in FinalPosted /\ i \in Nat
        /\ \A i \in FinalPosted : i - 1 \in FinalPosted'
      BY <2>1, <2>2, <1>queue, TailFinal DEF FinalPosted
  <2>4. UNCHANGED <<taskRunning, closeCallbackPending, cleanups>>
      BY <1>24 DEF RunClose
  <2>5. \/ state' = state /\ pc'[Loop] \notin {"closing"} \cup ClosingPlaces
        \/ state = "Connected" /\ state' = "Closing" /\ pc'[Loop] = "closing"
      BY <1>24, <2>1 DEF RunClose, Dequeue, HandleClose, After
  <2>6. \A w \in Workers : pc'[w] = pc[w]
      BY <1>24 DEF RunClose, Dequeue, HandleClose, After
  <2> HIDE DEF FinalPosted
  <2> QED BY <2>1, <2>3, <2>4, <2>5, <2>6
<1>25. CASE EofTasks
    BY <1>25 DEF EofTasks, After
<1>26. CASE EofSends
    BY <1>26 DEF EofSends, HandleClose, After
<1>27. CASE CloseLocked
  <2>1. /\ UNCHANGED <<taskRunning, taskQueue, state, cleanups>> /\ pc[Loop] = "closing"
        /\ pc' = [pc EXCEPT ![Loop] = IF taskRunning THEN "idle" ELSE "cleanup"]
        /\ closeCallbackPending' = taskRunning
      BY <1>27 DEF CloseLocked
  <2>2. FinalPosted' = FinalPosted
      BY <2>1
  <2>3. /\ state = "Closing" /\ cleanups = 0 /\ FinalPosted = {}
        /\ \A t \in Workers : pc[t] # "postFinal"
      BY <2>1
  <2> HIDE DEF FinalPosted
  <2> QED BY <2>1, <2>2, <2>3
<1>28. CASE Write
    BY <1>28 DEF Write, EofEntry
<1>29. CASE IdleTimeout
    BY <1>29 DEF IdleTimeout, HandleClose, After
<1>30. CASE UNCHANGED vars
    BY <1>30 DEF vars
<1>31. CASE BusinessCleanup
    BY <1>31 DEF BusinessCleanup
<1>32. CASE RemoveChannel
    BY <1>32 DEF RemoveChannel
<1>33. CASE FinishClose
    BY <1>33 DEF FinishClose
<1>34. CASE EraseConnection
    BY <1>34 DEF EraseConnection
<1>35. ASSUME NEW w \in Workers, HandlerLogsIn(w) PROVE CloseInv'
    BY <1>35 DEF HandlerLogsIn
<1>36. CASE NextLogsIn
    BY <1>36 DEF NextLogsIn
<1> QED
    BY <1>1, <1>2, <1>3, <1>4, <1>5, <1>6, <1>7, <1>8, <1>9, <1>10, <1>11,
       <1>12, <1>13, <1>14, <1>15, <1>16, <1>17, <1>18, <1>19, <1>20, <1>21,
       <1>22, <1>23, <1>24, <1>25, <1>26, <1>27, <1>28, <1>29, <1>30, <1>31,
       <1>32, <1>33, <1>34, <1>35, <1>36
    DEF Next, PeerStep, LoopStep, WorkerStep, OtherStep, RunInLoop, Terminating, Exec

\* The number stays with this connection until nothing of it is stored under it.
LEMMA SessionStep ==
  ASSUME ConnInv, [Next]_vars PROVE SessionInv'
<1>typ. /\ pc \in [Thread -> PC] /\ Loop \in Thread
        /\ Workers \subseteq Thread /\ Others \subseteq Thread
        /\ Loop \notin Workers /\ Loop \notin Others
    BY ThreadsAssumption DEF ConnInv, TypeOK, Thread
<1>inv. /\ SessionInv
        /\ cleanups \in {0, 1} /\ (state = "Closed" => cleanups = 1)
        /\ cleanups = 1 => state # "Connected"
        /\ pc[Loop] = "cleanup" => state = "Closing"
        /\ pc[Loop] \in {"remove", "finish", "erase"} => cleanups = 1
    BY DEF ConnInv, CloseInv
<1>u. ASSUME UNCHANGED <<session, fdOpen, cleanups>>, registered' => registered,
             state' = state \/ state # "Closed",
             pc'[Loop] \in {"finish", "erase"} => pc[Loop] \in {"finish", "erase"}
      PROVE  SessionInv'
    BY <1>u, <1>inv DEF SessionInv
<1> USE <1>typ DEF Goto
<1>1. CASE PeerSend
    BY <1>1, <1>u DEF PeerSend
<1>2. CASE PeerFin
    BY <1>2, <1>u DEF PeerFin
<1>3. CASE PeerReset
    BY <1>3, <1>u DEF PeerReset
<1>4. CASE Read
    BY <1>4, <1>u DEF Read
<1>5. CASE ErrorEvent
    BY <1>5, <1>u DEF ErrorEvent, HandleClose, After
<1>6. CASE ParseOK
    BY <1>6, <1>u DEF ParseOK
<1>7. CASE ParseError
    BY <1>7, <1>u DEF ParseError, HandleClose, After
<1>8. CASE ParseNeedMore
    BY <1>8, <1>u DEF ParseNeedMore, EofEntry
<1>9. ASSUME NEW t \in Exec, Submit(t) PROVE SessionInv'
    BY <1>9, <1>u DEF Submit, After, Exec
<1>10. ASSUME NEW w \in Workers, TakeTask(w) PROVE SessionInv'
    BY <1>10, <1>u DEF TakeTask
<1>11. ASSUME NEW t \in Exec, StartTask(t) PROVE SessionInv'
    BY <1>11, <1>u DEF StartTask, Exec
<1>12. ASSUME NEW t \in Exec, HandlerReturns(t) PROVE SessionInv'
    BY <1>12, <1>u DEF HandlerReturns, Exec
<1>13. ASSUME NEW w \in Workers, HandlerReplies(w) PROVE SessionInv'
    BY <1>13, <1>u DEF HandlerReplies
<1>14. ASSUME NEW t \in Workers \cup Others, SendPost(t) PROVE SessionInv'
    BY <1>14, <1>u DEF SendPost
<1>15. ASSUME NEW t \in Exec, OnTaskComplete(t) PROVE SessionInv'
    BY <1>15, <1>u DEF OnTaskComplete, Exec
<1>16. ASSUME NEW w \in Workers, PostToLoop(w) PROVE SessionInv'
    BY <1>16, <1>u DEF PostToLoop
<1>17. CASE RunPostedInline
    BY <1>17, <1>u DEF RunPostedInline, After, EofEntry
<1>18. ASSUME NEW o \in Others, OtherSend(o) PROVE SessionInv'
    BY <1>18, <1>u DEF OtherSend
<1>19. ASSUME NEW o \in Others, OtherClose(o) PROVE SessionInv'
    BY <1>19, <1>u DEF OtherClose
<1>20. CASE PoolStop
    BY <1>20, <1>u DEF PoolStop
<1>21. CASE RunSend
    BY <1>21, <1>u DEF RunSend, Dequeue, HandleClose, After, EofEntry
<1>22. CASE RunEof
    BY <1>22, <1>u DEF RunEof, Dequeue, EofEntry
<1>23. CASE RunFinal
    BY <1>23, <1>u DEF RunFinal, Dequeue
<1>24. CASE RunClose
    BY <1>24, <1>u DEF RunClose, Dequeue, HandleClose, After
<1>25. CASE EofTasks
    BY <1>25, <1>u DEF EofTasks, After
<1>26. CASE EofSends
    BY <1>26, <1>u DEF EofSends, HandleClose, After
<1>27. CASE CloseLocked
    BY <1>27, <1>u DEF CloseLocked
<1>28. CASE Write
    BY <1>28, <1>u DEF Write, EofEntry
<1>29. CASE IdleTimeout
    BY <1>29, <1>u DEF IdleTimeout, HandleClose, After
<1>30. CASE UNCHANGED vars
    BY <1>30, <1>u DEF vars
<1>31. CASE BusinessCleanup
  <2>1. /\ session' = "none" /\ UNCHANGED <<registered, fdOpen, state>>
        /\ pc[Loop] = "cleanup" /\ pc'[Loop] = "remove"
      BY <1>31 DEF BusinessCleanup
  <2> QED BY <2>1, <1>inv DEF SessionInv
<1>32. CASE RemoveChannel
  <2>1. ~registered' /\ UNCHANGED <<session, cleanups, fdOpen, state>>
      BY <1>32 DEF RemoveChannel
  <2> QED BY <2>1, <1>inv DEF SessionInv
<1>33. CASE FinishClose
  <2>1. /\ pc[Loop] = "finish" /\ UNCHANGED <<session, cleanups, registered>>
        /\ IF mapped THEN ~fdOpen' /\ state' = "Closed" ELSE UNCHANGED <<fdOpen, state>>
      BY <1>33 DEF FinishClose
  <2>2. ~registered
      BY <2>1, <1>inv DEF SessionInv
  <2> QED BY <2>1, <2>2, <1>inv DEF SessionInv
<1>34. CASE EraseConnection
    BY <1>34, <1>u DEF EraseConnection
<1>35. ASSUME NEW w \in Workers, HandlerLogsIn(w) PROVE SessionInv'
  <2>1. /\ pc[w] = "run" /\ session' = "own"
        /\ UNCHANGED <<pc, cleanups, fdOpen, state, registered>>
      BY <1>35 DEF HandlerLogsIn
  <2>2. taskRunning
      BY <2>1 DEF ConnInv, SlotInv, Exec, Executing
  <2>3. cleanups # 1
      BY <2>2 DEF ConnInv, CloseInv
  <2> QED BY <2>1, <2>3, <1>inv DEF SessionInv
<1>36. CASE NextLogsIn
  <2>1. ~fdOpen /\ session' = "next" /\ UNCHANGED <<pc, cleanups, fdOpen, state, registered>>
      BY <1>36 DEF NextLogsIn
  <2> QED BY <2>1, <1>inv DEF SessionInv
<1> QED
    BY <1>1, <1>2, <1>3, <1>4, <1>5, <1>6, <1>7, <1>8, <1>9, <1>10, <1>11,
       <1>12, <1>13, <1>14, <1>15, <1>16, <1>17, <1>18, <1>19, <1>20, <1>21,
       <1>22, <1>23, <1>24, <1>25, <1>26, <1>27, <1>28, <1>29, <1>30, <1>31,
       <1>32, <1>33, <1>34, <1>35, <1>36
    DEF Next, PeerStep, LoopStep, WorkerStep, OtherStep, RunInLoop, Terminating, Exec

\* Requests keep their order.
LEMMA OrderStep ==
  ASSUME ConnInv, [Next]_vars PROVE OrderInv'
<1>typ. pc \in [Thread -> PC] /\ taskRunning \in BOOLEAN
    BY DEF ConnInv, TypeOK
<1>seq. /\ pendingTasks \in Seq(Nat) /\ parsed \in Nat /\ Len(started) \in Nat
        /\ task \in [Thread -> Nat]
    BY DEF ConnInv, TypeOK
<1> USE ThreadsAssumption, <1>typ DEF ConnInv, ThreadPlaces, LoopInv, SlotInv,
        OrderInv, ClosingPlaces, Executing, Goto, Thread, Exec
<1>1. CASE PeerSend
    BY <1>1 DEF PeerSend
<1>2. CASE PeerFin
    BY <1>2 DEF PeerFin
<1>3. CASE PeerReset
    BY <1>3 DEF PeerReset
<1>4. CASE Read
    BY <1>4 DEF Read
<1>5. CASE ErrorEvent
    BY <1>5 DEF ErrorEvent, HandleClose, After
<1>6. CASE ParseOK
  <2>1. /\ state = "Connected" /\ UNCHANGED <<state, started, workQueue>>
        /\ parsed' = parsed + 1
      BY <1>6 DEF ParseOK
  <2>2. CASE taskRunning
    <3>1. /\ pendingTasks' = Append(pendingTasks, parsed + 1)
          /\ UNCHANGED <<taskRunning, task, pc>>
        BY <1>6, <2>2 DEF ParseOK
    <3>2. /\ Len(pendingTasks') = Len(pendingTasks) + 1
          /\ \A i \in 1..Len(pendingTasks) : pendingTasks'[i] = pendingTasks[i]
          /\ pendingTasks'[Len(pendingTasks) + 1] = parsed + 1
          /\ Len(pendingTasks) \in Nat
        BY <3>1, <1>seq
    <3>3. parsed' - Len(pendingTasks') = parsed - Len(pendingTasks)
        BY <1>seq, <2>1, <3>2
    <3>4. ASSUME NEW i \in 1..Len(pendingTasks')
          PROVE  pendingTasks'[i] = parsed' - Len(pendingTasks') + i
      <4>1. \A j \in 1..Len(pendingTasks) :
              pendingTasks[j] = parsed - Len(pendingTasks) + j
          BY <2>1
      <4>2. CASE i \in 1..Len(pendingTasks)
        <5>1. /\ pendingTasks'[i] = pendingTasks[i]
              /\ pendingTasks[i] = parsed - Len(pendingTasks) + i
            BY <3>2, <4>1, <4>2
        <5> QED BY <5>1, <3>3
      <4>3. CASE i = Len(pendingTasks) + 1
        <5>1. parsed + 1 = parsed - Len(pendingTasks) + i
            BY <1>seq, <3>2, <4>3
        <5> QED BY <5>1, <3>2, <3>3, <4>3
      <4> QED BY <3>2, <4>2, <4>3
    <3> QED BY <2>1, <2>2, <3>1, <3>3, <3>4
  <2>3. CASE ~taskRunning
    <3>1. pendingTasks = <<>> /\ workQueue = <<>> /\ parsed = Len(started)
        BY <2>1, <2>3
    <3>2. /\ Head(Append(pendingTasks, parsed + 1)) = parsed + 1
          /\ Tail(Append(pendingTasks, parsed + 1)) = <<>>
        BY <3>1, <1>seq
    <3>3. /\ pendingTasks' = <<>> /\ taskRunning' = TRUE
          /\ task' = [task EXCEPT ![Loop] = parsed + 1]
          /\ pc' = [pc EXCEPT ![Loop] = "submit"]
        BY <1>6, <2>3, <3>2 DEF ParseOK
    <3>4. \A t \in Exec : pc[t] \notin Executing
        BY <2>3
    <3> QED BY <1>seq, <2>1, <3>1, <3>3, <3>4
  <2> QED BY <2>2, <2>3
<1>7. CASE ParseError
    BY <1>7 DEF ParseError, HandleClose, After
<1>8. CASE ParseNeedMore
    BY <1>8 DEF ParseNeedMore, EofEntry
<1>9. ASSUME NEW t \in Exec, Submit(t) PROVE OrderInv'
    BY <1>9 DEF Submit, After
<1>10. ASSUME NEW w \in Workers, TakeTask(w) PROVE OrderInv'
  <2>1. workQueue # <<>> /\ workQueue' = Tail(workQueue)
      BY <1>10 DEF TakeTask
  <2>2. Len(workQueue) = 1 /\ workQueue \in Seq(Nat)
      BY <2>1 DEF TypeOK
  <2>3. workQueue' = <<>> /\ Head(workQueue) = workQueue[1]
      BY <2>1, <2>2
  <2>4. \A t \in Exec : pc[t] \notin Executing
      BY <2>1
  <2>5. /\ task' = [task EXCEPT ![w] = workQueue[1]]
        /\ pc' = [pc EXCEPT ![w] = "taken"]
        /\ UNCHANGED <<state, started, parsed, pendingTasks, taskRunning>>
      BY <1>10, <2>3 DEF TakeTask
  <2> QED BY <1>seq, <2>1, <2>3, <2>4, <2>5
<1>11. ASSUME NEW t \in Exec, StartTask(t) PROVE OrderInv'
  <2>1. /\ pc[t] = "taken" /\ taskRunning /\ workQueue = <<>>
        /\ \A u \in Exec : u # t => pc[u] \notin Executing
        /\ UNCHANGED <<state, parsed, pendingTasks, workQueue, taskRunning, task>>
      BY <1>11 DEF StartTask
  <2>2. CASE state # "Connected"
      BY <1>11, <2>1, <2>2 DEF StartTask
  <2>3. CASE state = "Connected"
    <3>1. started' = Append(started, Len(started) + 1) /\ pc' = [pc EXCEPT ![t] = "run"]
        BY <1>11, <2>3 DEF StartTask
    <3>2. /\ Len(started') = Len(started) + 1
          /\ \A i \in 1..Len(started') : started'[i] = i
      <4>1. started \in Seq(Nat)
          BY DEF TypeOK
      <4>2. /\ Len(started') = Len(started) + 1
            /\ \A i \in 1..Len(started) : started'[i] = started[i]
            /\ started'[Len(started) + 1] = Len(started) + 1
          BY <1>seq, <3>1, <4>1
      <4> QED BY <1>seq, <4>2
    <3> QED BY <1>seq, <2>1, <2>3, <3>1, <3>2
  <2> QED BY <2>2, <2>3
<1>12. ASSUME NEW t \in Exec, HandlerReturns(t) PROVE OrderInv'
    BY <1>12 DEF HandlerReturns
<1>13. ASSUME NEW w \in Workers, HandlerReplies(w) PROVE OrderInv'
    BY <1>13 DEF HandlerReplies
<1>14. ASSUME NEW t \in Workers \cup Others, SendPost(t) PROVE OrderInv'
    BY <1>14 DEF SendPost
<1>15. ASSUME NEW t \in Exec, OnTaskComplete(t) PROVE OrderInv'
  <2>1. /\ pc[t] = "complete" /\ UNCHANGED <<state, started, workQueue, parsed>>
      BY <1>15 DEF OnTaskComplete
  <2>2. CASE state # "Connected"
      BY <2>1, <2>2
  <2>3. CASE state = "Connected" /\ pendingTasks = <<>>
      BY <1>15, <1>seq, <2>1, <2>3 DEF OnTaskComplete
  <2>4. CASE state = "Connected" /\ pendingTasks # <<>>
    <3>1. /\ task' = [task EXCEPT ![t] = Head(pendingTasks)]
          /\ pendingTasks' = Tail(pendingTasks)
          /\ pc' = [pc EXCEPT ![t] = "submit"] /\ UNCHANGED taskRunning
        BY <1>15, <2>4 DEF OnTaskComplete
    <3>2. /\ Len(pendingTasks) \in Nat \ {0}
          /\ Len(pendingTasks') = Len(pendingTasks) - 1
          /\ \A i \in 1..Len(pendingTasks') : pendingTasks'[i] = pendingTasks[i + 1]
          /\ Head(pendingTasks) = pendingTasks[1]
        BY <2>4, <3>1, <1>seq
    <3>3. /\ parsed - Len(pendingTasks) = Len(started)
          /\ pendingTasks[1] = Len(started) + 1
        BY <1>seq, <2>1, <2>4, <3>2
    <3>4. \A u \in Exec : u # t => pc[u] \notin Executing
        BY <2>1
    <3> QED BY <1>seq, <2>1, <2>4, <3>1, <3>2, <3>3, <3>4
  <2> QED BY <2>2, <2>3, <2>4
<1>16. ASSUME NEW w \in Workers, PostToLoop(w) PROVE OrderInv'
    BY <1>16 DEF PostToLoop
<1>17. CASE RunPostedInline
  <2>1. UNCHANGED <<pendingTasks, taskRunning, workQueue, started, parsed, task>>
      BY <1>17 DEF RunPostedInline
  <2>2. /\ state' = state
        /\ \E p \in {"idle", "parse", "eofTasks"} : pc' = [pc EXCEPT ![Loop] = p]
      BY <1>17 DEF RunPostedInline, After, EofEntry
  <2> QED BY <1>17, <2>1, <2>2 DEF RunPostedInline
<1>18. ASSUME NEW o \in Others, OtherSend(o) PROVE OrderInv'
    BY <1>18 DEF OtherSend
<1>19. ASSUME NEW o \in Others, OtherClose(o) PROVE OrderInv'
    BY <1>19 DEF OtherClose
<1>20. CASE PoolStop
    BY <1>20 DEF PoolStop
<1>21. CASE RunSend
    BY <1>21 DEF RunSend, Dequeue, HandleClose, After, EofEntry
<1>22. CASE RunEof
    BY <1>22 DEF RunEof, Dequeue, EofEntry
<1>23. CASE RunFinal
    BY <1>23 DEF RunFinal, Dequeue
<1>24. CASE RunClose
    BY <1>24 DEF RunClose, Dequeue, HandleClose, After
<1>25. CASE EofTasks
    BY <1>25 DEF EofTasks, After
<1>26. CASE EofSends
    BY <1>26 DEF EofSends, HandleClose, After
<1>27. CASE CloseLocked
    BY <1>27 DEF CloseLocked
<1>28. CASE Write
    BY <1>28 DEF Write, EofEntry
<1>29. CASE IdleTimeout
    BY <1>29 DEF IdleTimeout, HandleClose, After
<1>30. CASE UNCHANGED vars
    BY <1>30 DEF vars
<1>31. CASE BusinessCleanup
    BY <1>31 DEF BusinessCleanup
<1>32. CASE RemoveChannel
    BY <1>32 DEF RemoveChannel
<1>33. CASE FinishClose
    BY <1>33 DEF FinishClose
<1>34. CASE EraseConnection
    BY <1>34 DEF EraseConnection
<1>35. ASSUME NEW w \in Workers, HandlerLogsIn(w) PROVE OrderInv'
    BY <1>35 DEF HandlerLogsIn
<1>36. CASE NextLogsIn
    BY <1>36 DEF NextLogsIn
<1> QED
    BY <1>1, <1>2, <1>3, <1>4, <1>5, <1>6, <1>7, <1>8, <1>9, <1>10, <1>11,
       <1>12, <1>13, <1>14, <1>15, <1>16, <1>17, <1>18, <1>19, <1>20, <1>21,
       <1>22, <1>23, <1>24, <1>25, <1>26, <1>27, <1>28, <1>29, <1>30, <1>31,
       <1>32, <1>33, <1>34, <1>35, <1>36
    DEF Next, PeerStep, LoopStep, WorkerStep, OtherStep, RunInLoop, Terminating, Exec

\* The initial state satisfies the inductive invariant.
LEMMA ConnInvInit == Init => ConnInv
<1> SUFFICES ASSUME Init PROVE ConnInv
    OBVIOUS
<1>1. TypeOK
  <2>1. pc \in [Thread -> PC] /\ task \in [Thread -> Nat]
      BY DEF Init, PC
  <2>2. interest \in SUBSET {"IN", "OUT"} /\ mapped \in BOOLEAN
      BY BoundsAssumption DEF Init
  <2>3. <<>> \in Seq(Nat) /\ <<>> \in Seq(Callback \X Nat)
      OBVIOUS
  <2>4. 0 \in Nat /\ 0 \in Int /\ {} \in SUBSET Nat
      OBVIOUS
  <2> QED BY <2>1, <2>2, <2>3, <2>4, Zenon DEF Init, TypeOK
<1>2. FinalPosted = {}
    BY DEF Init, FinalPosted
<1>3. ThreadPlaces /\ SlotInv
    BY ThreadsAssumption DEF Init, ThreadPlaces, SlotInv, Exec, Thread, Executing
<1>4. LoopInv /\ CloseInv
    BY <1>2 DEF Init, LoopInv, CloseInv, ClosingPlaces, Thread
<1>5. OrderInv
    BY DEF Init, OrderInv, Exec, Thread
<1>6. SessionInv
    BY DEF Init, SessionInv, Thread
<1> QED BY <1>1, <1>3, <1>4, <1>5, <1>6 DEF ConnInv

\* The inductive invariant holds in every reachable state.
THEOREM Invariance == Spec => []ConnInv
<1>1. ConnInv /\ [Next]_vars => ConnInv'
  <2> SUFFICES ASSUME ConnInv, [Next]_vars PROVE ConnInv'
      OBVIOUS
  <2>1. TypeOK'
      BY TypeStep DEF ConnInv
  <2> QED BY <2>1, PlacesStep, LoopInvStep, SlotStep, CloseStep, SessionStep,
             OrderStep DEF ConnInv
<1> QED BY ConnInvInit, <1>1, PTL DEF Spec

\* Type correctness of class Connection's state under every interleaving.
THEOREM TypeCorrect == Spec => []TypeOK
<1>1. ConnInv => TypeOK
    BY DEF ConnInv
<1> QED BY Invariance, <1>1, PTL

\* Per-connection serial FIFO execution (enqueueTask, onTaskComplete) on a
\* pool of any size.
THEOREM SerialFifoHolds == Spec => []SerialFifo
<1>1. ConnInv => SerialFifo
    BY DEF ConnInv, SlotInv, OrderInv, SerialFifo, InHandler, Exec, Executing
<1> QED BY Invariance, <1>1, PTL

\* The cleanup set by setcloseCallback runs once and never beside a handler
\* (the deferred close of handleClose and onTaskComplete).
THEOREM CleanupIsolationHolds == Spec => []CleanupIsolation
<1>1. ConnInv => CleanupIsolation
    BY DEF ConnInv, SlotInv, CloseInv, CleanupIsolation, Holders, Exec
<1> QED BY Invariance, <1>1, PTL

\* When finishClose() gives the descriptor back, closeCallback_ and removeConnection()
\* have taken everything of the connection from under its number.
THEOREM FdReleasedLastHolds == Spec => []FdReleasedLast
<1>1. ConnInv => FdReleasedLast
  <2> SUFFICES ASSUME ConnInv, ~fdOpen PROVE FdReleasedLast
      BY DEF FdReleasedLast
  <2>1. state = "Closed" /\ ~registered
      BY DEF ConnInv, SessionInv
  <2>2. cleanups = 1 /\ ~taskRunning
      BY <2>1 DEF ConnInv, CloseInv
  <2>3. session # "own"
      BY <2>2 DEF ConnInv, SessionInv
  <2>4. Holders = {}
      BY <2>2 DEF ConnInv, SlotInv, Holders, Exec
  <2> QED BY <2>1, <2>2, <2>3, <2>4 DEF FdReleasedLast
<1> QED BY Invariance, <1>1, PTL

\* The next connection with the number keeps its session: of the steps that write the
\* entry, the cleanup comes before the close, and so does every handler.
THEOREM NextSessionKeptHolds == Spec => NextSessionKept
<1>1. ConnInv /\ [Next]_vars => [session = "next" => session' = "next"]_vars
  <2> SUFFICES ASSUME ConnInv, Next, session = "next" PROVE session' = "next"
      OBVIOUS
  <2>1. ~fdOpen /\ state = "Closed"
      BY DEF ConnInv, SessionInv
  <2>2. cleanups = 1 /\ ~taskRunning
      BY <2>1 DEF ConnInv, CloseInv
  <2>3. ~BusinessCleanup
      BY <2>2 DEF ConnInv, CloseInv, BusinessCleanup
  <2>4. \A w \in Workers : ~HandlerLogsIn(w)
      BY <2>2 DEF ConnInv, SlotInv, Exec, Executing, HandlerLogsIn
  <2>5. CASE PeerStep \/ Write \/ IdleTimeout \/ PoolStop \/ NextLogsIn \/ Terminating
      BY <2>5 DEF PeerStep, PeerSend, PeerFin, PeerReset, Write, IdleTimeout, PoolStop,
                  NextLogsIn, Terminating, vars
  <2>6. CASE LoopStep
      BY <2>6, <2>3 DEF LoopStep, Read, ErrorEvent, ParseOK, ParseError, ParseNeedMore,
         Submit, StartTask, HandlerReturns, OnTaskComplete, RunInLoop, RunPostedInline,
         RunSend, RunEof, RunFinal, RunClose, EofTasks, EofSends, CloseLocked,
         RemoveChannel, FinishClose, EraseConnection
  <2>7. ASSUME NEW w \in Workers, WorkerStep(w) PROVE session' = "next"
      BY <2>7, <2>4 DEF WorkerStep, Submit, TakeTask, StartTask, HandlerReturns,
         HandlerReplies, SendPost, OnTaskComplete, RunInLoop, RunPostedInline, PostToLoop
  <2>8. ASSUME NEW o \in Others, OtherStep(o) PROVE session' = "next"
      BY <2>8 DEF OtherStep, OtherSend, SendPost, OtherClose
  <2> QED BY <2>5, <2>6, <2>7, <2>8 DEF Next
<1> QED BY Invariance, <1>1, PTL DEF Spec, NextSessionKept

\* A close in progress always has exactly one owner.
THEOREM CloseOwnedHolds == Spec => []CloseOwned
<1>1. ConnInv => CloseOwned
  <2> SUFFICES ASSUME ConnInv, state = "Closing", cleanups = 0 PROVE CloseOwned
      BY DEF CloseOwned
  <2> USE DEF ConnInv, CloseInv, LoopInv, ThreadPlaces
  <2>0. FinalPosted \subseteq 1..Len(taskQueue)
      BY DEF FinalPosted
  <2>t. FinalThreads \subseteq Workers
      BY DEF FinalThreads, Thread
  <2>1. CASE pc[Loop] \in {"closing", "cleanup"}
    <3>1. NoFinal
        BY <2>1, <2>t DEF NoFinal, FinalThreads
    <3> QED BY <2>1, <3>1 DEF CloseOwned
  <2>2. CASE closeCallbackPending
    <3>1. NoFinal
        BY <2>2, <2>t DEF NoFinal, FinalThreads
    <3> QED BY <2>2, <3>1 DEF CloseOwned
  <2>3. CASE FinalPosted # {}
    <3>1. PICK i \in FinalPosted : TRUE
        BY <2>3
    <3>2. FinalPosted = {i}
        BY <3>1
    <3>3. FinalThreads = {}
        BY <2>3, <2>t DEF FinalThreads
    <3>4. /\ ~taskRunning /\ ~closeCallbackPending
          /\ pc[Loop] \notin {"closing", "cleanup"}
        BY <3>1
    <3> QED BY <2>0, <3>1, <3>2, <3>3, <3>4 DEF CloseOwned
  <2>4. CASE \E t \in Workers : pc[t] = "postFinal"
    <3>1. PICK t \in Workers : pc[t] = "postFinal"
        BY <2>4
    <3>2. FinalThreads = {t}
        BY <2>t, <3>1 DEF FinalThreads, Thread
    <3>3. FinalPosted = {} /\ ~taskRunning /\ ~closeCallbackPending
          /\ pc[Loop] \notin {"closing", "cleanup"}
        BY <3>1
    <3> QED BY <3>1, <3>2, <3>3 DEF CloseOwned
  <2> QED BY <2>1, <2>2, <2>3, <2>4
<1> QED BY Invariance, <1>1, PTL

-----------------------------------------------------------------------------
(* The connection implements SessionService. *)

\* A step that changes neither the handlers running, nor the history of
\* starts, nor the openness or the cleanups, is a stuttering step.
LEMMA ServiceStutter ==
  ASSUME started' = started, InHandler' = InHandler,
         (state' = "Connected") <=> (state = "Connected"), cleanups' = cleanups
  PROVE  UNCHANGED Service!svars
BY DEF Service!svars

\* Closing changes only the openness.
LEMMA ServiceClose ==
  ASSUME started' = started, InHandler' = InHandler, cleanups' = cleanups,
         \/ state' = state
         \/ state = "Connected" /\ state' = "Closing"
  PROVE  [Service!Next]_(Service!svars)
<1>1. CASE state' = state
    BY <1>1, ServiceStutter
<1>2. CASE state = "Connected" /\ state' = "Closing"
    BY <1>2 DEF Service!Close, Service!Next
<1> QED BY <1>1, <1>2

\* Every step of the connection is a step of the service or leaves it alone.
LEMMA ServiceStep ==
  ASSUME ConnInv, [Next]_vars PROVE [Service!Next]_(Service!svars)
<1>typ. pc \in [Thread -> PC] /\ taskRunning \in BOOLEAN
    BY DEF ConnInv, TypeOK
<1>len. Len(started) \in Nat
    BY DEF ConnInv, TypeOK
<1>one. \A t \in Exec : pc[t] \in Executing => InHandler \subseteq {t}
    BY DEF ConnInv, SlotInv, InHandler, Exec, Executing
<1>none. ~taskRunning => InHandler = {}
    BY DEF ConnInv, SlotInv, InHandler, Exec, Executing
<1> USE ThreadsAssumption, <1>typ DEF Goto
<1>1. CASE PeerSend
  <2>1. UNCHANGED <<started, state, cleanups>>
      BY <1>1 DEF PeerSend
  <2>2. InHandler' = InHandler
      BY <1>1 DEF PeerSend, InHandler, Thread, Exec
  <2> QED BY <2>1, <2>2, ServiceStutter
<1>2. CASE PeerFin
  <2>1. UNCHANGED <<started, state, cleanups>>
      BY <1>2 DEF PeerFin
  <2>2. InHandler' = InHandler
      BY <1>2 DEF PeerFin, InHandler, Thread, Exec
  <2> QED BY <2>1, <2>2, ServiceStutter
<1>3. CASE PeerReset
  <2>1. UNCHANGED <<started, state, cleanups>>
      BY <1>3 DEF PeerReset
  <2>2. InHandler' = InHandler
      BY <1>3 DEF PeerReset, InHandler, Thread, Exec
  <2> QED BY <2>1, <2>2, ServiceStutter
<1>4. CASE Read
  <2>1. UNCHANGED <<started, state, cleanups>>
      BY <1>4 DEF Read
  <2>2. InHandler' = InHandler
      BY <1>4 DEF Read, InHandler, Thread, Exec
  <2> QED BY <2>1, <2>2, ServiceStutter
<1>5. CASE ErrorEvent
  <2>1. /\ UNCHANGED <<started, cleanups>>
        /\ \/ state' = state
           \/ state = "Connected" /\ state' = "Closing"
      BY <1>5, Zenon DEF ErrorEvent, HandleClose
  <2>2. InHandler' = InHandler
      BY <1>5 DEF ErrorEvent, HandleClose, After, InHandler, Thread, ConnInv,
          ThreadPlaces, LoopInv
  <2> QED BY <2>1, <2>2, ServiceClose
<1>6. CASE ParseOK
  <2>1. UNCHANGED <<started, state, cleanups>>
      BY <1>6 DEF ParseOK
  <2>2. InHandler' = InHandler
      BY <1>6 DEF ParseOK, InHandler, Thread, Exec
  <2> QED BY <2>1, <2>2, ServiceStutter
<1>7. CASE ParseError
  <2>1. /\ UNCHANGED <<started, cleanups>>
        /\ \/ state' = state
           \/ state = "Connected" /\ state' = "Closing"
      BY <1>7, Zenon DEF ParseError, HandleClose
  <2>2. InHandler' = InHandler
      BY <1>7 DEF ParseError, HandleClose, After, InHandler, Thread, ConnInv,
          ThreadPlaces, LoopInv
  <2> QED BY <2>1, <2>2, ServiceClose
<1>8. CASE ParseNeedMore
  <2>1. UNCHANGED <<started, state, cleanups>>
      BY <1>8 DEF ParseNeedMore
  <2>2. InHandler' = InHandler
      BY <1>8 DEF ParseNeedMore, EofEntry, InHandler, Thread, Exec
  <2> QED BY <2>1, <2>2, ServiceStutter
<1>9. ASSUME NEW t \in Exec, Submit(t) PROVE [Service!Next]_(Service!svars)
  <2>1. UNCHANGED <<started, state, cleanups>>
      BY <1>9 DEF Submit
  <2>2. InHandler' = InHandler
      BY <1>9 DEF Submit, After, InHandler, Thread, Exec
  <2> QED BY <2>1, <2>2, ServiceStutter
<1>10. ASSUME NEW w \in Workers, TakeTask(w) PROVE [Service!Next]_(Service!svars)
  <2>1. UNCHANGED <<started, state, cleanups>>
      BY <1>10 DEF TakeTask
  <2>2. InHandler' = InHandler
      BY <1>10 DEF TakeTask, InHandler, Thread, Exec
  <2> QED BY <2>1, <2>2, ServiceStutter
<1>11. ASSUME NEW t \in Exec, StartTask(t) PROVE [Service!Next]_(Service!svars)
  <2>1. UNCHANGED <<state, cleanups>> /\ pc[t] = "taken"
      BY <1>11 DEF StartTask
  <2>2. InHandler = {}
      BY <2>1, <1>one DEF InHandler, Executing
  <2>3. CASE state = "Connected"
    <3>1. /\ started' = Append(started, task[t])
          /\ pc' = [pc EXCEPT ![t] = "run"]
        BY <1>11, <2>3 DEF StartTask
    <3>2. task[t] = Len(started) + 1
        BY <2>1, <2>3 DEF ConnInv, OrderInv
    <3>3. t \in InHandler'
        BY <3>1 DEF InHandler, Exec, Thread
    <3> QED BY <2>1, <2>2, <2>3, <3>1, <3>2, <3>3 DEF Service!Enter, Service!Next
  <2>4. CASE state # "Connected"
    <3>1. started' = started /\ pc' = [pc EXCEPT ![t] = "complete"]
        BY <1>11, <2>4 DEF StartTask
    <3>2. InHandler' = InHandler
        BY <2>1, <3>1 DEF InHandler, Exec, Thread
    <3> QED BY <2>1, <3>1, <3>2, ServiceStutter
  <2> QED BY <2>3, <2>4
<1>12. ASSUME NEW t \in Exec, HandlerReturns(t) PROVE [Service!Next]_(Service!svars)
  <2>1. UNCHANGED <<state, started, cleanups>>
      BY <1>12 DEF HandlerReturns
  <2>2. t \in InHandler /\ InHandler' = {}
      BY <1>12, <1>one DEF HandlerReturns, InHandler, Exec, Executing, Thread
  <2> QED BY <2>1, <2>2 DEF Service!Leave, Service!Next
<1>13. ASSUME NEW w \in Workers, HandlerReplies(w) PROVE [Service!Next]_(Service!svars)
  <2>1. UNCHANGED <<started, state, cleanups>>
      BY <1>13 DEF HandlerReplies
  <2>2. InHandler' = InHandler
      BY <1>13 DEF HandlerReplies, InHandler, Thread, Exec
  <2> QED BY <2>1, <2>2, ServiceStutter
<1>14. ASSUME NEW t \in Workers \cup Others, SendPost(t)
           PROVE [Service!Next]_(Service!svars)
  <2>1. UNCHANGED <<state, started, cleanups>> /\ pc[t] = "post"
      BY <1>14 DEF SendPost
  <2>2. CASE t \in Workers
    <3>1. t \in InHandler /\ InHandler \subseteq {t}
        BY <2>1, <2>2, <1>one DEF InHandler, Exec, Executing
    <3>2. InHandler' = {}
        BY <1>14, <2>2, <3>1 DEF SendPost, InHandler, Thread
    <3> QED BY <2>1, <3>1, <3>2 DEF Service!Leave, Service!Next
  <2>3. CASE t \in Others
    <3>1. InHandler' = InHandler
        BY <1>14, <2>3 DEF SendPost, InHandler, Thread
    <3> QED BY <2>1, <3>1, ServiceStutter
  <2> QED BY <2>2, <2>3
<1>15. ASSUME NEW t \in Exec, OnTaskComplete(t) PROVE [Service!Next]_(Service!svars)
  <2>1. UNCHANGED <<started, state, cleanups>>
      BY <1>15 DEF OnTaskComplete
  <2>2. InHandler' = InHandler
      BY <1>15 DEF OnTaskComplete, InHandler, Thread, Exec
  <2> QED BY <2>1, <2>2, ServiceStutter
<1>16. ASSUME NEW w \in Workers, PostToLoop(w) PROVE [Service!Next]_(Service!svars)
  <2>1. UNCHANGED <<started, state, cleanups>>
      BY <1>16 DEF PostToLoop
  <2>2. InHandler' = InHandler
      BY <1>16 DEF PostToLoop, InHandler, Thread, Exec
  <2> QED BY <2>1, <2>2, ServiceStutter
<1>17. CASE RunPostedInline
  <2>1. pc[Loop] = "postEof"
      BY <1>17 DEF RunPostedInline, ConnInv, ThreadPlaces
  <2>2. UNCHANGED <<started, state, cleanups>>
      BY <1>17, <2>1 DEF RunPostedInline
  <2>3. InHandler' = InHandler
      BY <1>17, <2>1 DEF RunPostedInline, EofEntry, After, InHandler, Thread
  <2> QED BY <2>2, <2>3, ServiceStutter
<1>18. ASSUME NEW o \in Others, OtherSend(o) PROVE [Service!Next]_(Service!svars)
  <2>1. UNCHANGED <<started, state, cleanups>>
      BY <1>18 DEF OtherSend
  <2>2. InHandler' = InHandler
      BY <1>18 DEF OtherSend, InHandler, Thread, Exec
  <2> QED BY <2>1, <2>2, ServiceStutter
<1>19. ASSUME NEW o \in Others, OtherClose(o) PROVE [Service!Next]_(Service!svars)
  <2>1. UNCHANGED <<started, state, cleanups>>
      BY <1>19 DEF OtherClose
  <2>2. InHandler' = InHandler
      BY <1>19 DEF OtherClose, InHandler, Thread, Exec
  <2> QED BY <2>1, <2>2, ServiceStutter
<1>20. CASE PoolStop
  <2>1. UNCHANGED <<started, state, cleanups>>
      BY <1>20 DEF PoolStop
  <2>2. InHandler' = InHandler
      BY <1>20 DEF PoolStop, InHandler, Thread, Exec
  <2> QED BY <2>1, <2>2, ServiceStutter
<1>21. CASE RunSend
  <2>1. /\ UNCHANGED <<started, cleanups>>
        /\ \/ state' = state
           \/ state = "Connected" /\ state' = "Closing"
      BY <1>21, Zenon DEF RunSend, Dequeue, HandleClose
  <2>2. InHandler' = InHandler
      BY <1>21 DEF RunSend, Dequeue, HandleClose, After, EofEntry, InHandler,
          Thread, ConnInv, ThreadPlaces, LoopInv
  <2> QED BY <2>1, <2>2, ServiceClose
<1>22. CASE RunEof
  <2>1. UNCHANGED <<started, state, cleanups>>
      BY <1>22 DEF RunEof
  <2>2. InHandler' = InHandler
      BY <1>22 DEF RunEof, Dequeue, EofEntry, InHandler, Thread, Exec
  <2> QED BY <2>1, <2>2, ServiceStutter
<1>23. CASE RunFinal
  <2>1. UNCHANGED <<started, state, cleanups>>
      BY <1>23 DEF RunFinal
  <2>2. InHandler' = InHandler
      BY <1>23 DEF RunFinal, Dequeue, InHandler, Thread, Exec
  <2> QED BY <2>1, <2>2, ServiceStutter
<1>24. CASE RunClose
  <2>1. /\ UNCHANGED <<started, cleanups>>
        /\ \/ state' = state
           \/ state = "Connected" /\ state' = "Closing"
      BY <1>24, Zenon DEF RunClose, Dequeue, HandleClose
  <2>2. InHandler' = InHandler
      BY <1>24 DEF RunClose, Dequeue, HandleClose, After, InHandler, Thread,
          ConnInv, ThreadPlaces, LoopInv
  <2> QED BY <2>1, <2>2, ServiceClose
<1>25. CASE EofTasks
  <2>1. UNCHANGED <<started, state, cleanups>>
      BY <1>25 DEF EofTasks
  <2>2. InHandler' = InHandler
      BY <1>25 DEF EofTasks, After, InHandler, Thread, Exec
  <2> QED BY <2>1, <2>2, ServiceStutter
<1>26. CASE EofSends
  <2>1. /\ UNCHANGED <<started, cleanups>>
        /\ \/ state' = state
           \/ state = "Connected" /\ state' = "Closing"
      BY <1>26, Zenon DEF EofSends, HandleClose
  <2>2. InHandler' = InHandler
      BY <1>26 DEF EofSends, HandleClose, After, InHandler, Thread, ConnInv,
          ThreadPlaces, LoopInv
  <2> QED BY <2>1, <2>2, ServiceClose
<1>27. CASE CloseLocked
  <2>1. UNCHANGED <<started, state, cleanups>>
      BY <1>27 DEF CloseLocked
  <2>2. InHandler' = InHandler
      BY <1>27 DEF CloseLocked, InHandler, Thread, Exec
  <2> QED BY <2>1, <2>2, ServiceStutter
<1>28. CASE Write
  <2>1. UNCHANGED <<started, state, cleanups>>
      BY <1>28 DEF Write
  <2>2. InHandler' = InHandler
      BY <1>28 DEF Write, EofEntry, InHandler, Thread, Exec
  <2> QED BY <2>1, <2>2, ServiceStutter
<1>29. CASE IdleTimeout
  <2>1. /\ UNCHANGED <<started, cleanups>>
        /\ \/ state' = state
           \/ state = "Connected" /\ state' = "Closing"
      BY <1>29, Zenon DEF IdleTimeout, HandleClose
  <2>2. InHandler' = InHandler
      BY <1>29 DEF IdleTimeout, HandleClose, After, InHandler, Thread, ConnInv,
          ThreadPlaces, LoopInv
  <2> QED BY <2>1, <2>2, ServiceClose
<1>30. CASE UNCHANGED vars
  <2>1. UNCHANGED <<started, state, cleanups, pc>>
      BY <1>30 DEF vars
  <2>2. InHandler' = InHandler
      BY <2>1 DEF InHandler
  <2> QED BY <2>1, <2>2, ServiceStutter
<1>31. CASE BusinessCleanup
  <2>1. /\ pc[Loop] = "cleanup" /\ pc' = [pc EXCEPT ![Loop] = "remove"]
        /\ UNCHANGED <<started, state>> /\ cleanups' = cleanups + 1
      BY <1>31 DEF BusinessCleanup
  <2>2. state = "Closing" /\ cleanups = 0 /\ ~taskRunning
      BY <2>1 DEF ConnInv, CloseInv
  <2>3. InHandler = {} /\ InHandler' = {}
      BY <1>none, <2>1, <2>2 DEF InHandler, Thread
  <2> QED BY <2>1, <2>2, <2>3 DEF Service!Cleanup, Service!Next
<1>32. CASE RemoveChannel
  <2>1. UNCHANGED <<started, state, cleanups>>
      BY <1>32 DEF RemoveChannel
  <2>2. InHandler' = InHandler
      BY <1>32 DEF RemoveChannel, InHandler, Thread, Exec
  <2> QED BY <2>1, <2>2, ServiceStutter
<1>33. CASE FinishClose
  <2>1. /\ UNCHANGED <<started, cleanups>> /\ cleanups = 1
        /\ state' = state \/ state' = "Closed"
      BY <1>33 DEF FinishClose, ConnInv, CloseInv
  <2>2. state # "Connected" /\ state' # "Connected"
      BY <2>1 DEF ConnInv, CloseInv
  <2>3. InHandler' = InHandler
      BY <1>33 DEF FinishClose, InHandler, Thread, Exec
  <2> QED BY <2>1, <2>2, <2>3, ServiceStutter
<1>34. CASE EraseConnection
  <2>1. UNCHANGED <<started, state, cleanups>>
      BY <1>34 DEF EraseConnection
  <2>2. InHandler' = InHandler
      BY <1>34 DEF EraseConnection, InHandler, Thread, Exec
  <2> QED BY <2>1, <2>2, ServiceStutter
<1>35. ASSUME NEW w \in Workers, HandlerLogsIn(w) PROVE [Service!Next]_(Service!svars)
  <2>1. UNCHANGED <<started, state, cleanups>>
      BY <1>35 DEF HandlerLogsIn
  <2>2. InHandler' = InHandler
      BY <1>35 DEF HandlerLogsIn, InHandler, Thread, Exec
  <2> QED BY <2>1, <2>2, ServiceStutter
<1>36. CASE NextLogsIn
  <2>1. UNCHANGED <<started, state, cleanups>>
      BY <1>36 DEF NextLogsIn
  <2>2. InHandler' = InHandler
      BY <1>36 DEF NextLogsIn, InHandler, Thread, Exec
  <2> QED BY <2>1, <2>2, ServiceStutter
<1> QED
    BY <1>1, <1>2, <1>3, <1>4, <1>5, <1>6, <1>7, <1>8, <1>9, <1>10, <1>11,
       <1>12, <1>13, <1>14, <1>15, <1>16, <1>17, <1>18, <1>19, <1>20, <1>21,
       <1>22, <1>23, <1>24, <1>25, <1>26, <1>27, <1>28, <1>29, <1>30, <1>31,
       <1>32, <1>33, <1>34, <1>35, <1>36
    DEF Next, PeerStep, LoopStep, WorkerStep, OtherStep, RunInLoop, Terminating, Exec

\* The connection keeps its promise to the business layer: handlers one at a
\* time and in order while it is open, then one cleanup, alone and last.
THEOREM ServiceImplemented == Spec => ServiceSpec
<1>1. Init => Service!Init
  <2> SUFFICES ASSUME Init PROVE Service!Init
      OBVIOUS
  <2>1. InHandler = {}
      BY DEF Init, InHandler, Thread
  <2> QED BY <2>1 DEF Init, Service!Init
<1>2. ConnInv /\ [Next]_vars => [Service!Next]_(Service!svars)
    BY ServiceStep
<1> QED BY <1>1, <1>2, Invariance, PTL DEF Spec, ServiceSpec, Service!Spec

-----------------------------------------------------------------------------
(* Responses and the end of file *)

\* Write interest follows the output: flushSendQueue() registers it, write() drops it
\* with the last message.
LEMMA ArmedStep ==
  ASSUME ConnInv, OutputArmed, [Next]_vars PROVE OutputArmed'
<1>typ. /\ outBuffer \in Seq(Nat) /\ interest \in SUBSET {"IN", "OUT"}
        /\ taskQueue \in Seq(Callback \X Nat)
    BY DEF ConnInv, TypeOK
<1>loop. /\ pc[Loop] = "closing" => state = "Closing"
         /\ pc[Loop] # "postFinal"
         /\ pc[Loop] \in {"remove", "finish"} => state # "Connected"
    BY DEF ConnInv, LoopInv, ThreadPlaces, CloseInv
<1> USE <1>typ, <1>loop DEF OutputArmed
<1>1. CASE PeerSend
    BY <1>1 DEF PeerSend
<1>2. CASE PeerFin
    BY <1>2 DEF PeerFin
<1>3. CASE PeerReset
    BY <1>3 DEF PeerReset
<1>4. CASE Read
    BY <1>4 DEF Read
<1>5. CASE ErrorEvent
    BY <1>5 DEF ErrorEvent, HandleClose, After
<1>6. CASE ParseOK
    BY <1>6 DEF ParseOK
<1>7. CASE ParseError
    BY <1>7 DEF ParseError, HandleClose, After
<1>8. CASE ParseNeedMore
    BY <1>8 DEF ParseNeedMore, EofEntry
<1>9. ASSUME NEW t \in Exec, Submit(t) PROVE OutputArmed'
    BY <1>9 DEF Submit, After
<1>10. ASSUME NEW w \in Workers, TakeTask(w) PROVE OutputArmed'
    BY <1>10 DEF TakeTask
<1>11. ASSUME NEW t \in Exec, StartTask(t) PROVE OutputArmed'
    BY <1>11 DEF StartTask
<1>12. ASSUME NEW t \in Exec, HandlerReturns(t) PROVE OutputArmed'
    BY <1>12 DEF HandlerReturns
<1>13. ASSUME NEW w \in Workers, HandlerReplies(w) PROVE OutputArmed'
    BY <1>13 DEF HandlerReplies
<1>14. ASSUME NEW t \in Workers \cup Others, SendPost(t) PROVE OutputArmed'
    BY <1>14 DEF SendPost
<1>15. ASSUME NEW t \in Exec, OnTaskComplete(t) PROVE OutputArmed'
    BY <1>15 DEF OnTaskComplete
<1>16. ASSUME NEW w \in Workers, PostToLoop(w) PROVE OutputArmed'
    BY <1>16 DEF PostToLoop
<1>17. CASE RunPostedInline
    BY <1>17 DEF RunPostedInline, After, EofEntry
<1>18. ASSUME NEW o \in Others, OtherSend(o) PROVE OutputArmed'
    BY <1>18 DEF OtherSend
<1>19. ASSUME NEW o \in Others, OtherClose(o) PROVE OutputArmed'
    BY <1>19 DEF OtherClose
<1>20. CASE PoolStop
    BY <1>20 DEF PoolStop
<1>21. CASE RunSend
  <2>1. CASE state # "Connected"
      BY <1>21, <2>1 DEF RunSend
  <2>2. CASE state = "Connected" /\ Len(outBuffer) + 1 > HighWater
      BY <1>21, <2>2 DEF RunSend, HandleClose
  <2>3. CASE state = "Connected" /\ ~(Len(outBuffer) + 1 > HighWater)
    <3>1. outBuffer' = Append(outBuffer, Head(taskQueue)[2]) /\ "OUT" \in interest'
        BY <1>21, <2>3 DEF RunSend
    <3>2. Head(taskQueue) \in Callback \X Nat
        BY <1>21 DEF RunSend, Dequeue
    <3>3. Head(taskQueue)[2] \in Nat
        BY <3>2
    <3>4. \A e \in Nat : Append(outBuffer, e) # <<>>
        BY <1>typ
    <3>5. Append(outBuffer, Head(taskQueue)[2]) # <<>>
        BY <3>3, <3>4, Zenon
    <3> QED BY <3>1, <3>5
  <2> QED BY <2>1, <2>2, <2>3
<1>22. CASE RunEof
    BY <1>22 DEF RunEof, Dequeue, EofEntry
<1>23. CASE RunFinal
    BY <1>23 DEF RunFinal, Dequeue
<1>24. CASE RunClose
    BY <1>24 DEF RunClose, Dequeue, HandleClose, After
<1>25. CASE EofTasks
    BY <1>25 DEF EofTasks, After
<1>26. CASE EofSends
    BY <1>26 DEF EofSends, HandleClose, After
<1>27. CASE CloseLocked
    BY <1>27 DEF CloseLocked
<1>28. CASE Write
  <2>1. PICK k \in 1..Len(outBuffer) :
          /\ outBuffer' = SubSeq(outBuffer, k + 1, Len(outBuffer))
          /\ IF k = Len(outBuffer) THEN interest' = interest \ {"OUT"}
                                   ELSE interest' = interest
      BY <1>28 DEF Write
  <2>2. outBuffer' \in Seq(Nat) /\ Len(outBuffer') = Len(outBuffer) - k
      BY <2>1
  <2>3. outBuffer' # <<>> <=> Len(outBuffer') # 0
      BY <2>2, EmptySeq
  <2>4. outBuffer' # <<>> <=> k # Len(outBuffer)
      BY <2>1, <2>2, <2>3
  <2> QED BY <1>28, <2>1, <2>4 DEF Write
<1>29. CASE IdleTimeout
    BY <1>29 DEF IdleTimeout, HandleClose, After
<1>30. CASE UNCHANGED vars
    BY <1>30 DEF vars
<1>31. CASE BusinessCleanup
    BY <1>31 DEF BusinessCleanup
<1>32. CASE RemoveChannel
    BY <1>32 DEF RemoveChannel
<1>33. CASE FinishClose
    BY <1>33 DEF FinishClose
<1>34. CASE EraseConnection
    BY <1>34 DEF EraseConnection
<1>35. ASSUME NEW w \in Workers, HandlerLogsIn(w) PROVE OutputArmed'
    BY <1>35 DEF HandlerLogsIn
<1>36. CASE NextLogsIn
    BY <1>36 DEF NextLogsIn
<1> QED
    BY <1>1, <1>2, <1>3, <1>4, <1>5, <1>6, <1>7, <1>8, <1>9, <1>10, <1>11,
       <1>12, <1>13, <1>14, <1>15, <1>16, <1>17, <1>18, <1>19, <1>20, <1>21,
       <1>22, <1>23, <1>24, <1>25, <1>26, <1>27, <1>28, <1>29, <1>30, <1>31,
       <1>32, <1>33, <1>34, <1>35, <1>36
    DEF Next, PeerStep, LoopStep, WorkerStep, OtherStep, RunInLoop, Terminating, Exec

\* Unsent output has write interest and nothing else has (flushSendQueue, write).
THEOREM OutputArmedHolds == Spec => []OutputArmed
<1>1. Init => OutputArmed
    BY DEF Init, OutputArmed
<1>2. ConnInv /\ OutputArmed /\ [Next]_vars => OutputArmed'
    BY ArmedStep
<1> QED BY Invariance, <1>1, <1>2, PTL DEF Spec

\* The threads that have announced a send and not posted it.
Posting == {t \in Thread : pc[t] = "post"}

\* Both sets that SendCountExact counts are finite.
LEMMA SendsFinite ==
  ASSUME TypeOK
  PROVE  /\ IsFiniteSet(Sends) /\ IsFiniteSet(Posting)
         /\ Cardinality(Sends) \in Nat /\ Cardinality(Posting) \in Nat
<1>1. IsFiniteSet(1..Len(taskQueue))
  <2>1. Len(taskQueue) \in Int
      BY DEF TypeOK
  <2> QED BY <2>1, FS_Interval
<1>2. IsFiniteSet(Sends)
  <2>1. Sends \in SUBSET (1..Len(taskQueue))
      BY DEF Sends
  <2> QED BY <1>1, <2>1, FS_Subset
<1>3. IsFiniteSet(Thread)
  <2>1. IsFiniteSet(Workers \cup Others)
      BY ThreadsAssumption, FS_Union
  <2> QED BY <2>1, FS_AddElement DEF Thread
<1>4. IsFiniteSet(Posting)
  <2>1. Posting \in SUBSET Thread
      BY DEF Posting
  <2> QED BY <1>3, <2>1, FS_Subset
<1> QED BY <1>2, <1>4, FS_CardinalityType

\* Posting a callback adds its place to the sends, if it is one.
LEMMA SendsAppend ==
  ASSUME taskQueue \in Seq(Callback \X Nat), NEW c \in Callback \X Nat,
         taskQueue' = Append(taskQueue, c)
  PROVE  /\ c[1] = "send" => Sends' = Sends \cup {Len(taskQueue) + 1}
         /\ c[1] # "send" => Sends' = Sends
         /\ Len(taskQueue) + 1 \notin Sends
         /\ \A i \in Sends : taskQueue'[i] = taskQueue[i]
         /\ taskQueue'[Len(taskQueue) + 1] = c
<1>1. /\ Len(taskQueue') = Len(taskQueue) + 1
      /\ \A i \in 1..Len(taskQueue) : taskQueue'[i] = taskQueue[i]
      /\ taskQueue'[Len(taskQueue) + 1] = c
      /\ Len(taskQueue) \in Nat
    OBVIOUS
<1> QED BY <1>1 DEF Sends

\* Taking the head of task_queue_ moves the others up.
LEMMA SendsTail ==
  ASSUME TypeOK, taskQueue # <<>>, taskQueue' = Tail(taskQueue)
  PROVE  /\ \A i \in Sends' : i + 1 \in Sends /\ taskQueue'[i] = taskQueue[i + 1]
         /\ \A i \in Sends : i # 1 =>
              i - 1 \in Sends' /\ taskQueue[i] = taskQueue'[i - 1]
         /\ 1 \in Sends <=> Head(taskQueue)[1] = "send"
         /\ Cardinality(Sends') = Cardinality(Sends)
                - (IF Head(taskQueue)[1] = "send" THEN 1 ELSE 0)
<1>t. taskQueue \in Seq(Callback \X Nat)
    BY DEF TypeOK
<1>1. /\ Len(taskQueue') = Len(taskQueue) - 1
      /\ \A i \in 1..Len(taskQueue') : taskQueue'[i] = taskQueue[i + 1]
      /\ Len(taskQueue) \in Nat \ {0}
      /\ Head(taskQueue) = taskQueue[1]
    BY <1>t
<1>2. \A i \in Sends' : i \in 1..Len(taskQueue') /\ taskQueue'[i][1] = "send"
    BY DEF Sends
<1>3. \A i \in Sends' : i + 1 \in Sends /\ taskQueue'[i] = taskQueue[i + 1]
    BY <1>1, <1>2 DEF Sends
<1>4. \A i \in Sends : i # 1 => i - 1 \in Sends' /\ taskQueue[i] = taskQueue'[i - 1]
    BY <1>1 DEF Sends
<1>5. 1 \in Sends <=> Head(taskQueue)[1] = "send"
    BY <1>1 DEF Sends
<1>6. Cardinality(Sends') = Cardinality(Sends \ {1}) /\ IsFiniteSet(Sends \ {1})
  <2> DEFINE up == [i \in Sends' |-> i + 1]
  <2>0. \A i \in Sends' : i \in Nat \ {0}
      BY <1>2, <1>1
  <2>9. \A i \in Sends : i \in Nat \ {0}
      BY <1>1 DEF Sends
  <2>1. up \in [Sends' -> Sends \ {1}]
      BY <1>3, <2>0
  <2>2. \A a, b \in Sends' : up[a] = up[b] => a = b
      BY <2>0
  <2>3. \A j \in Sends \ {1} : \E i \in Sends' : up[i] = j
    <3> SUFFICES ASSUME NEW j \in Sends \ {1} PROVE \E i \in Sends' : up[i] = j
        OBVIOUS
    <3>1. j - 1 \in Sends' /\ up[j - 1] = j
        BY <1>4, <2>9
    <3> QED BY <3>1
  <2>4. up \in Bijection(Sends', Sends \ {1})
      BY <2>1, <2>2, <2>3 DEF Bijection, Injection, Surjection, IsInjective
  <2>5. ExistsBijection(Sends', Sends \ {1})
      BY <2>4 DEF ExistsBijection
  <2>6. IsFiniteSet(Sends')
    <3>1. Sends' \in SUBSET (1..Len(taskQueue'))
        BY <1>2
    <3>2. IsFiniteSet(1..Len(taskQueue'))
      <4>1. Len(taskQueue') \in Int
          BY <1>1
      <4> QED BY <4>1, FS_Interval
    <3> QED BY <3>1, <3>2, FS_Subset
  <2> QED BY <2>5, <2>6, FS_Bijection
<1>7. Cardinality(Sends \ {1}) = IF 1 \in Sends THEN Cardinality(Sends) - 1
                                 ELSE Cardinality(Sends)
    BY SendsFinite, FS_RemoveElement
<1>8. Cardinality(Sends) \in Nat
    BY SendsFinite
<1>9. Cardinality(Sends') = Cardinality(Sends)
         - (IF Head(taskQueue)[1] = "send" THEN 1 ELSE 0)
    BY <1>5, <1>6, <1>7, <1>8
<1> QED BY <1>3, <1>4, <1>5, <1>9, Zenon

\* A send is counted when it is announced and uncounted by its callback: the count
\* is that of the sends in between.
LEMMA SendCountStep ==
  ASSUME ConnInv, SendCountExact, [Next]_vars PROVE SendCountExact'
<1>typ. TypeOK /\ ThreadPlaces
    BY DEF ConnInv
<1>q. taskQueue \in Seq(Callback \X Nat) /\ pendingSendCallbacks \in Int
    BY <1>typ DEF TypeOK
<1>pc. /\ pc \in [Thread -> PC] /\ Loop \notin Workers /\ Loop \notin Others
       /\ pc[Loop] # "post"
    BY <1>typ, ThreadsAssumption DEF TypeOK, ThreadPlaces
<1>fin. /\ IsFiniteSet(Sends) /\ IsFiniteSet(Posting)
        /\ Cardinality(Sends) \in Nat /\ Cardinality(Posting) \in Nat
    BY <1>typ, SendsFinite
<1>c. /\ pendingSendCallbacks = Cardinality(Posting) + Cardinality(Sends)
      /\ pendingSendCallbacks' = Cardinality(Posting') + Cardinality(Sends')
           => SendCountExact'
    BY DEF SendCountExact, Posting, Sends
<1>u. ASSUME Posting' = Posting, UNCHANGED <<taskQueue, pendingSendCallbacks>>
      PROVE  SendCountExact'
  <2>1. Sends' = Sends
      BY <1>u DEF Sends
  <2> QED BY <1>u, <2>1, <1>c
<1> USE <1>pc DEF Posting, Goto, Thread, Exec
<1>1. CASE PeerSend
  <2>1. Posting' = Posting /\ UNCHANGED <<taskQueue, pendingSendCallbacks>>
      BY <1>1 DEF PeerSend
  <2> QED BY <2>1, <1>u
<1>2. CASE PeerFin
  <2>1. Posting' = Posting /\ UNCHANGED <<taskQueue, pendingSendCallbacks>>
      BY <1>2 DEF PeerFin
  <2> QED BY <2>1, <1>u
<1>3. CASE PeerReset
  <2>1. Posting' = Posting /\ UNCHANGED <<taskQueue, pendingSendCallbacks>>
      BY <1>3 DEF PeerReset
  <2> QED BY <2>1, <1>u
<1>4. CASE Read
  <2>1. Posting' = Posting /\ UNCHANGED <<taskQueue, pendingSendCallbacks>>
      BY <1>4 DEF Read
  <2> QED BY <2>1, <1>u
<1>5. CASE ErrorEvent
  <2>1. Posting' = Posting /\ UNCHANGED <<taskQueue, pendingSendCallbacks>>
      BY <1>5 DEF ErrorEvent, HandleClose, After
  <2> QED BY <2>1, <1>u
<1>6. CASE ParseOK
  <2>1. Posting' = Posting /\ UNCHANGED <<taskQueue, pendingSendCallbacks>>
      BY <1>6 DEF ParseOK
  <2> QED BY <2>1, <1>u
<1>7. CASE ParseError
  <2>1. Posting' = Posting /\ UNCHANGED <<taskQueue, pendingSendCallbacks>>
      BY <1>7 DEF ParseError, HandleClose, After
  <2> QED BY <2>1, <1>u
<1>8. CASE ParseNeedMore
  <2>1. Posting' = Posting /\ UNCHANGED <<taskQueue, pendingSendCallbacks>>
      BY <1>8 DEF ParseNeedMore, EofEntry
  <2> QED BY <2>1, <1>u
<1>9. ASSUME NEW t \in Exec, Submit(t) PROVE SendCountExact'
  <2>1. Posting' = Posting /\ UNCHANGED <<taskQueue, pendingSendCallbacks>>
      BY <1>9 DEF Submit, After
  <2> QED BY <2>1, <1>u
<1>10. ASSUME NEW w \in Workers, TakeTask(w) PROVE SendCountExact'
  <2>1. Posting' = Posting /\ UNCHANGED <<taskQueue, pendingSendCallbacks>>
      BY <1>10 DEF TakeTask
  <2> QED BY <2>1, <1>u
<1>11. ASSUME NEW t \in Exec, StartTask(t) PROVE SendCountExact'
  <2>1. Posting' = Posting /\ UNCHANGED <<taskQueue, pendingSendCallbacks>>
      BY <1>11 DEF StartTask
  <2> QED BY <2>1, <1>u
<1>12. ASSUME NEW t \in Exec, HandlerReturns(t) PROVE SendCountExact'
  <2>1. Posting' = Posting /\ UNCHANGED <<taskQueue, pendingSendCallbacks>>
      BY <1>12 DEF HandlerReturns
  <2> QED BY <2>1, <1>u
<1>13. ASSUME NEW w \in Workers, HandlerReplies(w) PROVE SendCountExact'
  <2>1. Posting' = Posting \cup {w} /\ w \notin Posting
      BY <1>13 DEF HandlerReplies
  <2>2. UNCHANGED taskQueue /\ pendingSendCallbacks' = pendingSendCallbacks + 1
      BY <1>13 DEF HandlerReplies
  <2>3. Cardinality(Posting') = Cardinality(Posting) + 1
      BY <2>1, <1>fin, FS_AddElement
  <2>4. Sends' = Sends
      BY <2>2 DEF Sends
  <2> QED BY <2>2, <2>3, <2>4, <1>c, <1>fin
<1>14. ASSUME NEW t \in Workers \cup Others, SendPost(t) PROVE SendCountExact'
  <2>1. Posting' = Posting \ {t} /\ t \in Posting
      BY <1>14 DEF SendPost
  <2>2. Cardinality(Posting') = Cardinality(Posting) - 1
    <3> HIDE DEF Posting
    <3> QED BY <2>1, <1>fin, FS_RemoveElement
  <2>3. <<"send", task[t]>> \in Callback \X Nat
      BY <1>typ DEF TypeOK, Callback, Thread
  <2>4. UNCHANGED pendingSendCallbacks /\ taskQueue' = Append(taskQueue, <<"send", task[t]>>)
      BY <1>14 DEF SendPost
  <2>5. Sends' = Sends \cup {Len(taskQueue) + 1} /\ Len(taskQueue) + 1 \notin Sends
    <3> DEFINE c == <<"send", task[t]>>
    <3>1. c \in Callback \X Nat /\ taskQueue' = Append(taskQueue, c) /\ c[1] = "send"
        BY <2>3, <2>4
    <3> HIDE DEF c
    <3> QED BY <3>1, <1>q, SendsAppend
  <2>6. Cardinality(Sends') = Cardinality(Sends) + 1
      BY <2>5, <1>fin, FS_AddElement
  <2> QED BY <2>2, <2>4, <2>6, <1>c, <1>fin
<1>15. ASSUME NEW t \in Exec, OnTaskComplete(t) PROVE SendCountExact'
  <2>1. Posting' = Posting /\ UNCHANGED <<taskQueue, pendingSendCallbacks>>
      BY <1>15 DEF OnTaskComplete
  <2> QED BY <2>1, <1>u
<1>16. ASSUME NEW w \in Workers, PostToLoop(w) PROVE SendCountExact'
  <2>1. Posting' = Posting /\ UNCHANGED pendingSendCallbacks
      BY <1>16 DEF PostToLoop
  <2>2. PICK c \in Callback \X Nat : c[1] # "send" /\ taskQueue' = Append(taskQueue, c)
    <3>1. <<"eof", 0>> \in Callback \X Nat /\ <<"final", 0>> \in Callback \X Nat
        BY DEF Callback
    <3>2. \/ taskQueue' = Append(taskQueue, <<"eof", 0>>)
          \/ taskQueue' = Append(taskQueue, <<"final", 0>>)
        BY <1>16 DEF PostToLoop
    <3> QED BY <3>1, <3>2
  <2>3. Sends' = Sends
      BY <2>2, <1>q, SendsAppend
  <2> QED BY <2>1, <2>3, <1>c
<1>17. CASE RunPostedInline
  <2>1. Posting' = Posting /\ UNCHANGED <<taskQueue, pendingSendCallbacks>>
      BY <1>17 DEF RunPostedInline, After, EofEntry
  <2> QED BY <2>1, <1>u
<1>18. ASSUME NEW o \in Others, OtherSend(o) PROVE SendCountExact'
  <2>1. Posting' = Posting \cup {o} /\ o \notin Posting
      BY <1>18 DEF OtherSend
  <2>2. UNCHANGED taskQueue /\ pendingSendCallbacks' = pendingSendCallbacks + 1
      BY <1>18 DEF OtherSend
  <2>3. Cardinality(Posting') = Cardinality(Posting) + 1
      BY <2>1, <1>fin, FS_AddElement
  <2>4. Sends' = Sends
      BY <2>2 DEF Sends
  <2> QED BY <2>2, <2>3, <2>4, <1>c, <1>fin
<1>19. ASSUME NEW o \in Others, OtherClose(o) PROVE SendCountExact'
  <2>1. Posting' = Posting /\ UNCHANGED pendingSendCallbacks
      BY <1>19 DEF OtherClose
  <2>2. PICK c \in Callback \X Nat : c[1] # "send" /\ taskQueue' = Append(taskQueue, c)
    <3>1. <<"close", 0>> \in Callback \X Nat
        BY DEF Callback
    <3> QED BY <1>19, <3>1 DEF OtherClose
  <2>3. Sends' = Sends
      BY <2>2, <1>q, SendsAppend
  <2> QED BY <2>1, <2>3, <1>c
<1>20. CASE PoolStop
  <2>1. Posting' = Posting /\ UNCHANGED <<taskQueue, pendingSendCallbacks>>
      BY <1>20 DEF PoolStop
  <2> QED BY <2>1, <1>u
<1>21. CASE RunSend
  <2>1. Posting' = Posting /\ pendingSendCallbacks' = pendingSendCallbacks - 1
      BY <1>21 DEF RunSend, Dequeue, HandleClose, After, EofEntry
  <2>2. Cardinality(Sends') = Cardinality(Sends) - 1
    <3>1. taskQueue # <<>> /\ taskQueue' = Tail(taskQueue) /\ Head(taskQueue)[1] = "send"
        BY <1>21 DEF RunSend, Dequeue
    <3> QED BY <3>1, <1>typ, <1>fin, SendsTail
  <2>3. pendingSendCallbacks' = Cardinality(Posting') + Cardinality(Sends')
    <3> HIDE DEF Posting
    <3> QED BY <2>1, <2>2, <1>c, <1>fin
  <2> QED BY <2>3, <1>c
<1>22. CASE RunEof
  <2>1. Posting' = Posting /\ UNCHANGED pendingSendCallbacks
      BY <1>22 DEF RunEof, Dequeue, EofEntry
  <2>2. Cardinality(Sends') = Cardinality(Sends)
    <3>1. taskQueue # <<>> /\ taskQueue' = Tail(taskQueue) /\ Head(taskQueue)[1] # "send"
        BY <1>22 DEF RunEof, Dequeue
    <3> QED BY <3>1, <1>typ, <1>fin, SendsTail
  <2> QED BY <2>1, <2>2, <1>c
<1>23. CASE RunFinal
  <2>1. Posting' = Posting /\ UNCHANGED pendingSendCallbacks
      BY <1>23 DEF RunFinal, Dequeue
  <2>2. Cardinality(Sends') = Cardinality(Sends)
    <3>1. taskQueue # <<>> /\ taskQueue' = Tail(taskQueue) /\ Head(taskQueue)[1] # "send"
        BY <1>23 DEF RunFinal, Dequeue
    <3> QED BY <3>1, <1>typ, <1>fin, SendsTail
  <2> QED BY <2>1, <2>2, <1>c
<1>24. CASE RunClose
  <2>1. Posting' = Posting /\ UNCHANGED pendingSendCallbacks
      BY <1>24 DEF RunClose, Dequeue, HandleClose, After
  <2>2. Cardinality(Sends') = Cardinality(Sends)
    <3>1. taskQueue # <<>> /\ taskQueue' = Tail(taskQueue) /\ Head(taskQueue)[1] # "send"
        BY <1>24 DEF RunClose, Dequeue
    <3> QED BY <3>1, <1>typ, <1>fin, SendsTail
  <2> QED BY <2>1, <2>2, <1>c
<1>25. CASE EofTasks
  <2>1. Posting' = Posting /\ UNCHANGED <<taskQueue, pendingSendCallbacks>>
      BY <1>25 DEF EofTasks, After
  <2> QED BY <2>1, <1>u
<1>26. CASE EofSends
  <2>1. Posting' = Posting /\ UNCHANGED <<taskQueue, pendingSendCallbacks>>
      BY <1>26 DEF EofSends, HandleClose, After
  <2> QED BY <2>1, <1>u
<1>27. CASE CloseLocked
  <2>1. Posting' = Posting /\ UNCHANGED <<taskQueue, pendingSendCallbacks>>
      BY <1>27 DEF CloseLocked
  <2> QED BY <2>1, <1>u
<1>28. CASE Write
  <2>1. Posting' = Posting /\ UNCHANGED <<taskQueue, pendingSendCallbacks>>
      BY <1>28 DEF Write, EofEntry
  <2> QED BY <2>1, <1>u
<1>29. CASE IdleTimeout
  <2>1. Posting' = Posting /\ UNCHANGED <<taskQueue, pendingSendCallbacks>>
      BY <1>29 DEF IdleTimeout, HandleClose, After
  <2> QED BY <2>1, <1>u
<1>30. CASE UNCHANGED vars
  <2>1. Posting' = Posting /\ UNCHANGED <<taskQueue, pendingSendCallbacks>>
      BY <1>30 DEF vars
  <2> QED BY <2>1, <1>u
<1>31. CASE BusinessCleanup
  <2>1. Posting' = Posting /\ UNCHANGED <<taskQueue, pendingSendCallbacks>>
      BY <1>31 DEF BusinessCleanup
  <2> QED BY <2>1, <1>u
<1>32. CASE RemoveChannel
  <2>1. Posting' = Posting /\ UNCHANGED <<taskQueue, pendingSendCallbacks>>
      BY <1>32 DEF RemoveChannel
  <2> QED BY <2>1, <1>u
<1>33. CASE FinishClose
  <2>1. Posting' = Posting /\ UNCHANGED <<taskQueue, pendingSendCallbacks>>
      BY <1>33 DEF FinishClose
  <2> QED BY <2>1, <1>u
<1>34. CASE EraseConnection
  <2>1. Posting' = Posting /\ UNCHANGED <<taskQueue, pendingSendCallbacks>>
      BY <1>34 DEF EraseConnection
  <2> QED BY <2>1, <1>u
<1>35. ASSUME NEW w \in Workers, HandlerLogsIn(w) PROVE SendCountExact'
  <2>1. Posting' = Posting /\ UNCHANGED <<taskQueue, pendingSendCallbacks>>
      BY <1>35 DEF HandlerLogsIn
  <2> QED BY <2>1, <1>u
<1>36. CASE NextLogsIn
  <2>1. Posting' = Posting /\ UNCHANGED <<taskQueue, pendingSendCallbacks>>
      BY <1>36 DEF NextLogsIn
  <2> QED BY <2>1, <1>u
<1> QED
    BY <1>1, <1>2, <1>3, <1>4, <1>5, <1>6, <1>7, <1>8, <1>9, <1>10, <1>11,
       <1>12, <1>13, <1>14, <1>15, <1>16, <1>17, <1>18, <1>19, <1>20, <1>21,
       <1>22, <1>23, <1>24, <1>25, <1>26, <1>27, <1>28, <1>29, <1>30, <1>31,
       <1>32, <1>33, <1>34, <1>35, <1>36
    DEF Next, PeerStep, LoopStep, WorkerStep, OtherStep, RunInLoop, Terminating, Exec

\* pendingSendCallbacks_ is the number of sends under way (sendResponse).
THEOREM SendCountHolds == Spec => []SendCountExact
<1>1. Init => SendCountExact
  <2> SUFFICES ASSUME Init PROVE SendCountExact
      OBVIOUS
  <2>1. Posting = {} /\ Sends = {}
      BY DEF Init, Posting, Sends
  <2>2. pendingSendCallbacks = Cardinality(Posting) + Cardinality(Sends)
      BY <2>1, FS_EmptySet DEF Init
  <2> QED BY <2>2 DEF SendCountExact, Posting, Sends
<1>2. ConnInv /\ SendCountExact /\ [Next]_vars => SendCountExact'
    BY SendCountStep
<1> QED BY Invariance, <1>1, <1>2, PTL DEF Spec

\* The limit of the responses on their way never falls: it rises when a handler has
\* posted or returned, and a request is started only when none runs.
LEMMA LimitStep ==
  ASSUME ConnInv, [Next]_vars PROVE Limit' \in Nat /\ Limit \in Nat /\ Limit' >= Limit
<1>typ. /\ pc \in [Thread -> PC] /\ started \in Seq(Nat) /\ task \in [Thread -> Nat]
        /\ Len(started) \in Nat
    BY DEF ConnInv, TypeOK
<1>u. ASSUME UNCHANGED started, InHandler' \subseteq InHandler
      PROVE  Limit' \in Nat /\ Limit \in Nat /\ Limit' >= Limit
    BY <1>typ, <1>u DEF Limit
<1> USE ThreadsAssumption, <1>typ DEF Goto, Thread, Exec, InHandler
<1>1. CASE PeerSend
    BY <1>1, <1>u DEF PeerSend
<1>2. CASE PeerFin
    BY <1>2, <1>u DEF PeerFin
<1>3. CASE PeerReset
    BY <1>3, <1>u DEF PeerReset
<1>4. CASE Read
    BY <1>4, <1>u DEF Read
<1>5. CASE ErrorEvent
    BY <1>5, <1>u DEF ErrorEvent, HandleClose, After
<1>6. CASE ParseOK
    BY <1>6, <1>u DEF ParseOK
<1>7. CASE ParseError
    BY <1>7, <1>u DEF ParseError, HandleClose, After
<1>8. CASE ParseNeedMore
    BY <1>8, <1>u DEF ParseNeedMore, EofEntry
<1>9. ASSUME NEW t \in Exec, Submit(t)
       PROVE  Limit' \in Nat /\ Limit \in Nat /\ Limit' >= Limit
    BY <1>9, <1>u DEF Submit, After
<1>10. ASSUME NEW w \in Workers, TakeTask(w)
       PROVE  Limit' \in Nat /\ Limit \in Nat /\ Limit' >= Limit
    BY <1>10, <1>u DEF TakeTask
<1>11. ASSUME NEW t \in Exec, StartTask(t)
       PROVE  Limit' \in Nat /\ Limit \in Nat /\ Limit' >= Limit
  <2>1. CASE state # "Connected"
      BY <1>11, <2>1, <1>u DEF StartTask
  <2>2. CASE state = "Connected"
    <3>1. InHandler = {}
        BY <1>11 DEF StartTask, ConnInv, SlotInv, Executing
    <3>2. started' = Append(started, task[t]) /\ pc' = [pc EXCEPT ![t] = "run"]
        BY <1>11, <2>2 DEF StartTask
    <3>3. t \in InHandler' /\ Len(started') = Len(started) + 1
        BY <3>2
    <3> HIDE DEF InHandler
    <3> QED BY <3>1, <3>3 DEF Limit
  <2> QED BY <2>1, <2>2
<1>12. ASSUME NEW t \in Exec, HandlerReturns(t)
       PROVE  Limit' \in Nat /\ Limit \in Nat /\ Limit' >= Limit
    BY <1>12, <1>u DEF HandlerReturns
<1>13. ASSUME NEW w \in Workers, HandlerReplies(w)
       PROVE  Limit' \in Nat /\ Limit \in Nat /\ Limit' >= Limit
    BY <1>13, <1>u DEF HandlerReplies
<1>14. ASSUME NEW t \in Workers \cup Others, SendPost(t)
       PROVE  Limit' \in Nat /\ Limit \in Nat /\ Limit' >= Limit
    BY <1>14, <1>u DEF SendPost
<1>15. ASSUME NEW t \in Exec, OnTaskComplete(t)
       PROVE  Limit' \in Nat /\ Limit \in Nat /\ Limit' >= Limit
    BY <1>15, <1>u DEF OnTaskComplete
<1>16. ASSUME NEW w \in Workers, PostToLoop(w)
       PROVE  Limit' \in Nat /\ Limit \in Nat /\ Limit' >= Limit
    BY <1>16, <1>u DEF PostToLoop
<1>17. CASE RunPostedInline
    BY <1>17, <1>u DEF RunPostedInline, After, EofEntry
<1>18. ASSUME NEW o \in Others, OtherSend(o)
       PROVE  Limit' \in Nat /\ Limit \in Nat /\ Limit' >= Limit
    BY <1>18, <1>u DEF OtherSend
<1>19. ASSUME NEW o \in Others, OtherClose(o)
       PROVE  Limit' \in Nat /\ Limit \in Nat /\ Limit' >= Limit
    BY <1>19, <1>u DEF OtherClose
<1>20. CASE PoolStop
    BY <1>20, <1>u DEF PoolStop
<1>21. CASE RunSend
    BY <1>21, <1>u DEF RunSend, Dequeue, HandleClose, After, EofEntry
<1>22. CASE RunEof
    BY <1>22, <1>u DEF RunEof, Dequeue, EofEntry
<1>23. CASE RunFinal
    BY <1>23, <1>u DEF RunFinal, Dequeue
<1>24. CASE RunClose
    BY <1>24, <1>u DEF RunClose, Dequeue, HandleClose, After
<1>25. CASE EofTasks
    BY <1>25, <1>u DEF EofTasks, After
<1>26. CASE EofSends
    BY <1>26, <1>u DEF EofSends, HandleClose, After
<1>27. CASE CloseLocked
    BY <1>27, <1>u DEF CloseLocked
<1>28. CASE Write
    BY <1>28, <1>u DEF Write, EofEntry
<1>29. CASE IdleTimeout
    BY <1>29, <1>u DEF IdleTimeout, HandleClose, After
<1>30. CASE UNCHANGED vars
    BY <1>30, <1>u DEF vars
<1>31. CASE BusinessCleanup
    BY <1>31, <1>u DEF BusinessCleanup
<1>32. CASE RemoveChannel
    BY <1>32, <1>u DEF RemoveChannel
<1>33. CASE FinishClose
    BY <1>33, <1>u DEF FinishClose
<1>34. CASE EraseConnection
    BY <1>34, <1>u DEF EraseConnection
<1>35. ASSUME NEW w \in Workers, HandlerLogsIn(w)
       PROVE  Limit' \in Nat /\ Limit \in Nat /\ Limit' >= Limit
    BY <1>35, <1>u DEF HandlerLogsIn
<1>36. CASE NextLogsIn
    BY <1>36, <1>u DEF NextLogsIn
<1> QED
    BY <1>1, <1>2, <1>3, <1>4, <1>5, <1>6, <1>7, <1>8, <1>9, <1>10, <1>11,
       <1>12, <1>13, <1>14, <1>15, <1>16, <1>17, <1>18, <1>19, <1>20, <1>21,
       <1>22, <1>23, <1>24, <1>25, <1>26, <1>27, <1>28, <1>29, <1>30, <1>31,
       <1>32, <1>33, <1>34, <1>35, <1>36
    DEF Next, PeerStep, LoopStep, WorkerStep, OtherStep, RunInLoop, Terminating, Exec

\* Pushes carry 0, and a handler that can still respond is that of the last request
\* started.
LEMMA TaskStep ==
  ASSUME ConnInv, TaskInv, [Next]_vars PROVE TaskInv'
<1>typ. /\ pc \in [Thread -> PC] /\ started \in Seq(Nat) /\ task \in [Thread -> Nat]
        /\ Loop \notin Others /\ Workers \cap Others = {}
    BY ThreadsAssumption DEF ConnInv, TypeOK
<1>u. ASSUME UNCHANGED <<started, task>>, InHandler' \subseteq InHandler
      PROVE  TaskInv'
    BY <1>u DEF TaskInv
<1> USE <1>typ DEF Goto, Thread, Exec, InHandler
<1>1. CASE PeerSend
    BY <1>1, <1>u DEF PeerSend
<1>2. CASE PeerFin
    BY <1>2, <1>u DEF PeerFin
<1>3. CASE PeerReset
    BY <1>3, <1>u DEF PeerReset
<1>4. CASE Read
    BY <1>4, <1>u DEF Read
<1>5. CASE ErrorEvent
    BY <1>5, <1>u DEF ErrorEvent, HandleClose, After
<1>6. CASE ParseOK
  <2>1. UNCHANGED started /\ \A t \in Thread : t # Loop => task'[t] = task[t]
      BY <1>6 DEF ParseOK
  <2>2. InHandler' = InHandler /\ Loop \notin InHandler
      BY <1>6 DEF ParseOK
  <2> QED BY <2>1, <2>2 DEF TaskInv
<1>7. CASE ParseError
    BY <1>7, <1>u DEF ParseError, HandleClose, After
<1>8. CASE ParseNeedMore
    BY <1>8, <1>u DEF ParseNeedMore, EofEntry
<1>9. ASSUME NEW t \in Exec, Submit(t) PROVE TaskInv'
    BY <1>9, <1>u DEF Submit, After
<1>10. ASSUME NEW w \in Workers, TakeTask(w) PROVE TaskInv'
  <2>1. UNCHANGED started /\ \A t \in Thread : t # w => task'[t] = task[t]
      BY <1>10 DEF TakeTask
  <2>2. InHandler' = InHandler /\ w \notin InHandler /\ w \notin Others
      BY <1>10 DEF TakeTask
  <2> QED BY <2>1, <2>2 DEF TaskInv
<1>11. ASSUME NEW t \in Exec, StartTask(t) PROVE TaskInv'
  <2>1. CASE state # "Connected"
      BY <1>11, <2>1, <1>u DEF StartTask
  <2>2. CASE state = "Connected"
    <3>1. InHandler = {} /\ task[t] = Len(started) + 1
        BY <1>11, <2>2 DEF StartTask, ConnInv, SlotInv, OrderInv, Executing
    <3>2. started' = Append(started, task[t]) /\ pc' = [pc EXCEPT ![t] = "run"] /\ task' = task
        BY <1>11, <2>2 DEF StartTask
    <3>3. InHandler' = {t} /\ Len(started') = Len(started) + 1
        BY <3>1, <3>2
    <3> HIDE DEF InHandler
    <3> QED BY <3>1, <3>2, <3>3 DEF TaskInv
  <2> QED BY <2>1, <2>2
<1>12. ASSUME NEW t \in Exec, HandlerReturns(t) PROVE TaskInv'
    BY <1>12, <1>u DEF HandlerReturns
<1>13. ASSUME NEW w \in Workers, HandlerReplies(w) PROVE TaskInv'
    BY <1>13, <1>u DEF HandlerReplies
<1>14. ASSUME NEW t \in Workers \cup Others, SendPost(t) PROVE TaskInv'
    BY <1>14, <1>u DEF SendPost
<1>15. ASSUME NEW t \in Exec, OnTaskComplete(t) PROVE TaskInv'
  <2>1. UNCHANGED started /\ \A u \in Thread : u # t => task'[u] = task[u]
      BY <1>15 DEF OnTaskComplete
  <2>2. InHandler' = InHandler /\ t \notin InHandler /\ t \notin Others
      BY <1>15 DEF OnTaskComplete
  <2> QED BY <2>1, <2>2 DEF TaskInv
<1>16. ASSUME NEW w \in Workers, PostToLoop(w) PROVE TaskInv'
    BY <1>16, <1>u DEF PostToLoop
<1>17. CASE RunPostedInline
    BY <1>17, <1>u DEF RunPostedInline, After, EofEntry
<1>18. ASSUME NEW o \in Others, OtherSend(o) PROVE TaskInv'
    BY <1>18, <1>u DEF OtherSend
<1>19. ASSUME NEW o \in Others, OtherClose(o) PROVE TaskInv'
    BY <1>19, <1>u DEF OtherClose
<1>20. CASE PoolStop
    BY <1>20, <1>u DEF PoolStop
<1>21. CASE RunSend
    BY <1>21, <1>u DEF RunSend, Dequeue, HandleClose, After, EofEntry
<1>22. CASE RunEof
    BY <1>22, <1>u DEF RunEof, Dequeue, EofEntry
<1>23. CASE RunFinal
    BY <1>23, <1>u DEF RunFinal, Dequeue
<1>24. CASE RunClose
    BY <1>24, <1>u DEF RunClose, Dequeue, HandleClose, After
<1>25. CASE EofTasks
    BY <1>25, <1>u DEF EofTasks, After
<1>26. CASE EofSends
    BY <1>26, <1>u DEF EofSends, HandleClose, After
<1>27. CASE CloseLocked
    BY <1>27, <1>u DEF CloseLocked
<1>28. CASE Write
    BY <1>28, <1>u DEF Write, EofEntry
<1>29. CASE IdleTimeout
    BY <1>29, <1>u DEF IdleTimeout, HandleClose, After
<1>30. CASE UNCHANGED vars
    BY <1>30, <1>u DEF vars
<1>31. CASE BusinessCleanup
    BY <1>31, <1>u DEF BusinessCleanup
<1>32. CASE RemoveChannel
    BY <1>32, <1>u DEF RemoveChannel
<1>33. CASE FinishClose
    BY <1>33, <1>u DEF FinishClose
<1>34. CASE EraseConnection
    BY <1>34, <1>u DEF EraseConnection
<1>35. ASSUME NEW w \in Workers, HandlerLogsIn(w) PROVE TaskInv'
    BY <1>35, <1>u DEF HandlerLogsIn
<1>36. CASE NextLogsIn
    BY <1>36, <1>u DEF NextLogsIn
<1> QED
    BY <1>1, <1>2, <1>3, <1>4, <1>5, <1>6, <1>7, <1>8, <1>9, <1>10, <1>11,
       <1>12, <1>13, <1>14, <1>15, <1>16, <1>17, <1>18, <1>19, <1>20, <1>21,
       <1>22, <1>23, <1>24, <1>25, <1>26, <1>27, <1>28, <1>29, <1>30, <1>31,
       <1>32, <1>33, <1>34, <1>35, <1>36
    DEF Next, PeerStep, LoopStep, WorkerStep, OtherStep, RunInLoop, Terminating, Exec

\* The responses stay in order on their way through task_queue_ and outBuffer_.
LEMMA WayStep ==
  ASSUME ConnInv, ReplyInv, [Next]_vars PROVE WayInv' /\ LimitInv'
<1>typ. /\ wire \in Seq(Nat) /\ outBuffer \in Seq(Nat)
        /\ taskQueue \in Seq(Callback \X Nat) /\ task \in [Thread -> Nat]
        /\ pc \in [Thread -> PC] /\ TypeOK /\ started \in Seq(Nat)
    BY DEF ConnInv, TypeOK
<1>lim. Limit \in Nat /\ Limit' \in Nat /\ Limit' >= Limit
    BY LimitStep
<1>nat. /\ \A i \in 1..Len(wire) : wire[i] \in Nat
        /\ \A i \in 1..Len(outBuffer) : outBuffer[i] \in Nat
        /\ \A i \in Sends : taskQueue[i][2] \in Nat /\ i \in Nat \ {0}
    BY <1>typ DEF Sends
<1>inv. WayInv /\ LimitInv /\ TaskInv
    BY DEF ReplyInv
<1>u. ASSUME UNCHANGED <<wire, outBuffer>>, Sends' = Sends,
             \A i \in Sends : taskQueue'[i] = taskQueue[i]
      PROVE  WayInv' /\ LimitInv'
  <2>1. WayInv'
      BY <1>u, <1>inv DEF WayInv
  <2>2. LimitInv'
      BY <1>u, <1>inv, <1>lim, <1>nat DEF LimitInv
  <2> QED BY <2>1, <2>2
<1>s. ASSUME UNCHANGED <<wire, outBuffer, taskQueue>> PROVE WayInv' /\ LimitInv'
  <2>1. Sends' = Sends /\ \A i \in Sends : taskQueue'[i] = taskQueue[i]
      BY <1>s DEF Sends
  <2> QED BY <1>s, <1>u, <2>1
<1>t. ASSUME taskQueue # <<>>, taskQueue' = Tail(taskQueue)
      PROVE  /\ \A i \in Sends' : \E j \in Sends : j > 1 /\ taskQueue'[i] = taskQueue[j]
             /\ \A i, j \in Sends' : i < j => Before(taskQueue'[i][2], taskQueue'[j][2])
             /\ \A i \in Sends' : taskQueue'[i][2] # 0 => taskQueue'[i][2] < Limit'
  <2>1. \A i \in Sends' : i \in Nat \ {0}
      BY <1>t, <1>typ DEF Sends
  <2>2. \A i \in Sends' : i + 1 \in Sends /\ taskQueue'[i] = taskQueue[i + 1]
      BY <1>t, <1>typ, SendsTail
  <2>3. ASSUME NEW i \in Sends', NEW j \in Sends', i < j
        PROVE  Before(taskQueue'[i][2], taskQueue'[j][2])
    <3>1. i + 1 \in Sends /\ j + 1 \in Sends /\ i + 1 < j + 1
        BY <2>1, <2>2, <2>3
    <3>2. Before(taskQueue[i + 1][2], taskQueue[j + 1][2])
        BY <3>1, <1>inv DEF WayInv
    <3> QED BY <2>2, <3>2
  <2>4. ASSUME NEW i \in Sends', taskQueue'[i][2] # 0
        PROVE  taskQueue'[i][2] < Limit'
    <3>1. i + 1 \in Sends /\ taskQueue'[i][2] = taskQueue[i + 1][2]
        BY <2>2
    <3>2. taskQueue[i + 1][2] < Limit /\ taskQueue[i + 1][2] \in Nat
        BY <2>4, <3>1, <1>inv, <1>nat DEF LimitInv
    <3> QED BY <3>1, <3>2, <1>lim
  <2>5. ASSUME NEW i \in Sends'
        PROVE  \E j \in Sends : j > 1 /\ taskQueue'[i] = taskQueue[j]
    <3>1. i + 1 \in Sends /\ i + 1 > 1 /\ taskQueue'[i] = taskQueue[i + 1]
        BY <2>1, <2>2
    <3> QED BY <3>1
  <2> QED BY <2>3, <2>4, <2>5
<1>d. ASSUME UNCHANGED <<wire, outBuffer>>, taskQueue # <<>>, taskQueue' = Tail(taskQueue)
      PROVE  WayInv' /\ LimitInv'
  <2>t. /\ \A i \in Sends' : \E j \in Sends : j > 1 /\ taskQueue'[i] = taskQueue[j]
        /\ \A i, j \in Sends' : i < j => Before(taskQueue'[i][2], taskQueue'[j][2])
        /\ \A i \in Sends' : taskQueue'[i][2] # 0 => taskQueue'[i][2] < Limit'
      BY <1>d, <1>t
  <2>1. \A i \in 1..Len(wire), j \in Sends' : Before(wire[i], taskQueue'[j][2])
      BY <2>t, <1>inv, Zenon DEF WayInv
  <2>2. \A i \in 1..Len(outBuffer), j \in Sends' : Before(outBuffer[i], taskQueue'[j][2])
      BY <2>t, <1>inv, Zenon DEF WayInv
  <2>3. WayInv'
      BY <1>d, <2>t, <2>1, <2>2, <1>inv DEF WayInv
  <2>4. LimitInv'
    <3>1. \A i \in 1..Len(wire) : wire[i] # 0 => wire[i] < Limit'
        BY <1>inv, <1>lim, <1>nat DEF LimitInv
    <3>2. \A i \in 1..Len(outBuffer) : outBuffer[i] # 0 => outBuffer[i] < Limit'
        BY <1>inv, <1>lim, <1>nat DEF LimitInv
    <3> QED BY <1>d, <2>t, <3>1, <3>2 DEF LimitInv
  <2> QED BY <2>3, <2>4
<1>1. CASE PeerSend
    BY <1>1, <1>s DEF PeerSend
<1>2. CASE PeerFin
    BY <1>2, <1>s DEF PeerFin
<1>3. CASE PeerReset
    BY <1>3, <1>s DEF PeerReset
<1>4. CASE Read
    BY <1>4, <1>s DEF Read
<1>5. CASE ErrorEvent
    BY <1>5, <1>s DEF ErrorEvent, HandleClose, After
<1>6. CASE ParseOK
    BY <1>6, <1>s DEF ParseOK
<1>7. CASE ParseError
    BY <1>7, <1>s DEF ParseError, HandleClose, After
<1>8. CASE ParseNeedMore
    BY <1>8, <1>s DEF ParseNeedMore, EofEntry
<1>9. ASSUME NEW t \in Exec, Submit(t) PROVE WayInv' /\ LimitInv'
    BY <1>9, <1>s DEF Submit, After
<1>10. ASSUME NEW w \in Workers, TakeTask(w) PROVE WayInv' /\ LimitInv'
    BY <1>10, <1>s DEF TakeTask
<1>11. ASSUME NEW t \in Exec, StartTask(t) PROVE WayInv' /\ LimitInv'
    BY <1>11, <1>s DEF StartTask
<1>12. ASSUME NEW t \in Exec, HandlerReturns(t) PROVE WayInv' /\ LimitInv'
    BY <1>12, <1>s DEF HandlerReturns
<1>13. ASSUME NEW w \in Workers, HandlerReplies(w) PROVE WayInv' /\ LimitInv'
    BY <1>13, <1>s DEF HandlerReplies
<1>14. ASSUME NEW t \in Workers \cup Others, SendPost(t) PROVE WayInv' /\ LimitInv'
  <2> DEFINE c == <<"send", task[t]>>
             n == Len(taskQueue) + 1
  <2>1. c \in Callback \X Nat /\ c[1] = "send" /\ c[2] = task[t] /\ task[t] \in Nat
      BY <1>typ DEF Callback, Thread
  <2>2. UNCHANGED <<wire, outBuffer, started>> /\ taskQueue' = Append(taskQueue, c)
      BY <1>14 DEF SendPost
  <2>3. /\ Sends' = Sends \cup {n} /\ taskQueue'[n] = c
        /\ \A i \in Sends : taskQueue'[i] = taskQueue[i]
    <3> HIDE DEF c
    <3> QED BY <2>1, <2>2, <1>typ, SendsAppend
  <2>4. \A i \in Sends : i < n
      BY <1>typ DEF Sends
  <2>5. task[t] # 0 => task[t] = Limit /\ task[t] < Limit'
    <3>1. CASE t \in Others
        BY <3>1, <1>inv DEF TaskInv
    <3>2. CASE t \in Workers
      <4>1. t \in InHandler /\ \A v \in InHandler : v = t
          BY <1>14, <3>2 DEF SendPost, InHandler, ConnInv, SlotInv, Exec, Executing
      <4>2. task[t] = Len(started) /\ Limit = Len(started)
          BY <4>1, <1>inv DEF TaskInv, Limit
      <4>3. InHandler' = {}
        <5>1. pc' = [pc EXCEPT ![t] = "complete"]
            BY <1>14, <3>2, ThreadsAssumption DEF SendPost, Goto
        <5> QED BY <5>1, <4>1, <1>typ DEF InHandler, Thread
      <4>4. Limit' = Len(started) + 1
          BY <4>3, <2>2 DEF Limit
      <4> QED BY <4>2, <4>4, <1>typ
    <3> QED BY <3>1, <3>2
  <2>6. taskQueue'[n][2] = task[t]
      BY <2>1, <2>3
  <2> HIDE DEF c, n
  <2>7. WayInv'
    <3>1. \A i \in 1..Len(wire) : Before(wire[i], task[t])
        BY <2>5, <1>inv, <1>nat DEF LimitInv, Before
    <3>2. \A i \in 1..Len(outBuffer) : Before(outBuffer[i], task[t])
        BY <2>5, <1>inv, <1>nat DEF LimitInv, Before
    <3>3. \A i \in Sends : Before(taskQueue[i][2], task[t])
        BY <2>5, <1>inv, <1>nat DEF LimitInv, Before
    <3>4. n \in Nat /\ \A i \in Sends : i \in Nat /\ i < n
        BY <2>4, <1>nat, <1>typ DEF n
    <3>5. ASSUME NEW i \in Sends', NEW j \in Sends', i < j
          PROVE  Before(taskQueue'[i][2], taskQueue'[j][2])
      <4>1. i \in Sends
          BY <2>3, <3>4, <3>5
      <4>2. CASE j = n
          BY <4>1, <4>2, <2>3, <2>6, <3>3
      <4>3. CASE j \in Sends
          BY <4>1, <4>3, <3>5, <2>3, <1>inv DEF WayInv
      <4> QED BY <4>2, <4>3, <2>3
    <3>6. \A i \in 1..Len(wire), j \in Sends' : Before(wire[i], taskQueue'[j][2])
        BY <2>3, <2>6, <3>1, <1>inv DEF WayInv
    <3>7. \A i \in 1..Len(outBuffer), j \in Sends' : Before(outBuffer[i], taskQueue'[j][2])
        BY <2>3, <2>6, <3>2, <1>inv DEF WayInv
    <3> QED BY <2>2, <3>5, <3>6, <3>7, <1>inv DEF WayInv
  <2>8. LimitInv'
    <3>1. \A i \in 1..Len(wire) : wire[i] # 0 => wire[i] < Limit'
        BY <1>inv, <1>lim, <1>nat DEF LimitInv
    <3>2. \A i \in 1..Len(outBuffer) : outBuffer[i] # 0 => outBuffer[i] < Limit'
        BY <1>inv, <1>lim, <1>nat DEF LimitInv
    <3>3. \A i \in Sends : taskQueue[i][2] # 0 => taskQueue[i][2] < Limit'
        BY <1>inv, <1>lim, <1>nat DEF LimitInv
    <3>4. \A i \in Sends' : taskQueue'[i][2] # 0 => taskQueue'[i][2] < Limit'
        BY <2>3, <2>5, <2>6, <3>3
    <3> QED BY <2>2, <3>1, <3>2, <3>4 DEF LimitInv
  <2> QED BY <2>7, <2>8
<1>15. ASSUME NEW t \in Exec, OnTaskComplete(t) PROVE WayInv' /\ LimitInv'
    BY <1>15, <1>s DEF OnTaskComplete
<1>16. ASSUME NEW w \in Workers, PostToLoop(w) PROVE WayInv' /\ LimitInv'
  <2>1. UNCHANGED <<wire, outBuffer>>
      BY <1>16 DEF PostToLoop
  <2>2. PICK c \in Callback \X Nat : c[1] # "send" /\ taskQueue' = Append(taskQueue, c)
    <3>1. <<"eof", 0>> \in Callback \X Nat /\ <<"final", 0>> \in Callback \X Nat
        BY DEF Callback
    <3>2. \/ taskQueue' = Append(taskQueue, <<"eof", 0>>)
          \/ taskQueue' = Append(taskQueue, <<"final", 0>>)
        BY <1>16 DEF PostToLoop
    <3> QED BY <3>1, <3>2
  <2>3. Sends' = Sends /\ \A i \in Sends : taskQueue'[i] = taskQueue[i]
      BY <2>2, <1>typ, SendsAppend
  <2> QED BY <2>1, <2>3, <1>u
<1>17. CASE RunPostedInline
    BY <1>17, <1>s DEF RunPostedInline, After, EofEntry
<1>18. ASSUME NEW o \in Others, OtherSend(o) PROVE WayInv' /\ LimitInv'
    BY <1>18, <1>s DEF OtherSend
<1>19. ASSUME NEW o \in Others, OtherClose(o) PROVE WayInv' /\ LimitInv'
  <2>1. UNCHANGED <<wire, outBuffer>>
      BY <1>19 DEF OtherClose
  <2>2. PICK c \in Callback \X Nat : c[1] # "send" /\ taskQueue' = Append(taskQueue, c)
    <3>1. <<"close", 0>> \in Callback \X Nat
        BY DEF Callback
    <3> QED BY <1>19, <3>1 DEF OtherClose
  <2>3. Sends' = Sends /\ \A i \in Sends : taskQueue'[i] = taskQueue[i]
      BY <2>2, <1>typ, SendsAppend
  <2> QED BY <2>1, <2>3, <1>u
<1>20. CASE PoolStop
    BY <1>20, <1>s DEF PoolStop
<1>21. CASE RunSend
  <2>1. /\ taskQueue # <<>> /\ taskQueue' = Tail(taskQueue) /\ UNCHANGED wire
        /\ Head(taskQueue)[1] = "send"
      BY <1>21 DEF RunSend, Dequeue
  <2>2. CASE state # "Connected"
      BY <1>21, <2>1, <2>2, <1>d DEF RunSend
  <2>3. CASE state = "Connected"
    <3> DEFINE m == Head(taskQueue)[2]
    <3>1. outBuffer' = Append(outBuffer, m)
        BY <1>21, <2>3 DEF RunSend
    <3>2. 1 \in Sends /\ taskQueue[1][2] = m /\ m \in Nat
      <4>1. Head(taskQueue) = taskQueue[1] /\ 1 \in 1..Len(taskQueue)
          BY <2>1, <1>typ
      <4> QED BY <4>1, <2>1, <1>nat DEF Sends
    <3> HIDE DEF m
    <3>3. /\ Len(outBuffer') = Len(outBuffer) + 1 /\ Len(outBuffer) \in Nat
          /\ \A i \in 1..Len(outBuffer) : outBuffer'[i] = outBuffer[i]
          /\ outBuffer'[Len(outBuffer) + 1] = m
        BY <3>1, <3>2, <1>typ
    <3>t. /\ \A i \in Sends' : \E j \in Sends : j > 1 /\ taskQueue'[i] = taskQueue[j]
          /\ \A i, j \in Sends' : i < j => Before(taskQueue'[i][2], taskQueue'[j][2])
          /\ \A i \in Sends' : taskQueue'[i][2] # 0 => taskQueue'[i][2] < Limit'
        BY <2>1, <1>t
    <3>4. \A i \in Sends' : Before(m, taskQueue'[i][2])
        BY <3>2, <3>t, <1>inv DEF WayInv
    <3>5. \A i \in 1..Len(wire) : Before(wire[i], m)
        BY <3>2, <1>inv DEF WayInv
    <3>6. \A i \in 1..Len(outBuffer) : Before(outBuffer[i], m)
        BY <3>2, <1>inv DEF WayInv
    <3>7. m # 0 => m < Limit
        BY <3>2, <1>inv DEF LimitInv
    <3>8. \A i \in 1..Len(outBuffer') : i \in 1..Len(outBuffer) \/ i = Len(outBuffer) + 1
        BY <3>3
    <3>9. \A i, j \in 1..Len(outBuffer') : i < j => Before(outBuffer'[i], outBuffer'[j])
        BY <3>3, <3>6, <3>8, <1>inv DEF WayInv
    <3>10. \A i \in 1..Len(wire), j \in 1..Len(outBuffer') : Before(wire[i], outBuffer'[j])
        BY <3>3, <3>5, <3>8, <1>inv DEF WayInv
    <3>11. \A i \in 1..Len(wire), j \in Sends' : Before(wire[i], taskQueue'[j][2])
        BY <3>t, <1>inv, Zenon DEF WayInv
    <3>12. \A i \in 1..Len(outBuffer), j \in Sends' : Before(outBuffer[i], taskQueue'[j][2])
        BY <3>t, <1>inv, Zenon DEF WayInv
    <3>13. \A i \in 1..Len(outBuffer'), j \in Sends' : Before(outBuffer'[i], taskQueue'[j][2])
        BY <3>3, <3>4, <3>8, <3>12
    <3>14. WayInv'
        BY <2>1, <3>t, <3>9, <3>10, <3>11, <3>13, <1>inv DEF WayInv
    <3>15. LimitInv'
      <4>1. \A i \in 1..Len(wire) : wire[i] # 0 => wire[i] < Limit'
          BY <1>inv, <1>lim, <1>nat DEF LimitInv
      <4>2. \A i \in 1..Len(outBuffer') : outBuffer'[i] # 0 => outBuffer'[i] < Limit'
          BY <3>2, <3>3, <3>7, <3>8, <1>inv, <1>lim, <1>nat DEF LimitInv
      <4> QED BY <2>1, <3>t, <4>1, <4>2 DEF LimitInv
    <3> QED BY <3>14, <3>15
  <2> QED BY <2>2, <2>3
<1>22. CASE RunEof
    BY <1>22, <1>d DEF RunEof, Dequeue
<1>23. CASE RunFinal
    BY <1>23, <1>d DEF RunFinal, Dequeue
<1>24. CASE RunClose
    BY <1>24, <1>d DEF RunClose, Dequeue
<1>25. CASE EofTasks
    BY <1>25, <1>s DEF EofTasks, After
<1>26. CASE EofSends
    BY <1>26, <1>s DEF EofSends, HandleClose, After
<1>27. CASE CloseLocked
  <2>1. outBuffer' = <<>> /\ UNCHANGED <<wire, taskQueue>>
      BY <1>27 DEF CloseLocked
  <2>2. Sends' = Sends /\ Len(outBuffer') = 0
      BY <2>1 DEF Sends
  <2>3. WayInv'
      BY <2>1, <2>2, <1>inv DEF WayInv
  <2>4. LimitInv'
      BY <2>1, <2>2, <1>inv, <1>lim, <1>nat DEF LimitInv
  <2> QED BY <2>3, <2>4
<1>28. CASE Write
  <2>1. PICK k \in 1..Len(outBuffer) :
          /\ wire' = wire \o SubSeq(outBuffer, 1, k)
          /\ outBuffer' = SubSeq(outBuffer, k + 1, Len(outBuffer))
      BY <1>28 DEF Write
  <2> DEFINE n == Len(wire)
             b == Len(outBuffer)
  <2>2. n \in Nat /\ b \in Nat /\ k \in Nat
      BY <1>typ
  <2>3. /\ Len(wire') = n + k
        /\ \A i \in 1..n : wire'[i] = wire[i]
        /\ \A i \in (n + 1)..(n + k) : wire'[i] = outBuffer[i - n]
      BY <2>1, <1>typ
  <2>4. /\ Len(outBuffer') = b - k
        /\ \A i \in 1..(b - k) : outBuffer'[i] = outBuffer[i + k]
      BY <2>1, <1>typ
  <2>5. UNCHANGED taskQueue /\ Sends' = Sends
      BY <1>28 DEF Write, Sends
  <2> HIDE DEF n, b
  <2>6. \A i \in 1..Len(wire') :
          \/ i \in 1..n /\ wire'[i] = wire[i]
          \/ i > n /\ i - n \in 1..k /\ wire'[i] = outBuffer[i - n]
      BY <2>2, <2>3
  <2>7. \A i \in 1..Len(outBuffer') : /\ i + k \in 1..b /\ i + k > k
                                      /\ outBuffer'[i] = outBuffer[i + k]
      BY <2>2, <2>4
  <2>8. \A i \in 1..k : i \in 1..b
      BY <2>2 DEF b
  <2>9. \A i, j \in 1..Len(wire') : i < j => Before(wire'[i], wire'[j])
      BY <2>2, <2>6, <2>8, <1>inv DEF WayInv, n, b
  <2>10. \A i, j \in 1..Len(outBuffer') : i < j => Before(outBuffer'[i], outBuffer'[j])
      BY <2>2, <2>7, <1>inv DEF WayInv, b
  <2>11. \A i \in 1..Len(wire'), j \in 1..Len(outBuffer') : Before(wire'[i], outBuffer'[j])
    <3> SUFFICES ASSUME NEW i \in 1..Len(wire'), NEW j \in 1..Len(outBuffer')
                 PROVE  Before(wire'[i], outBuffer'[j])
        OBVIOUS
    <3>1. j + k \in 1..b /\ j + k > k /\ j + k \in Nat /\ outBuffer'[j] = outBuffer[j + k]
        BY <2>2, <2>7
    <3>2. CASE i \in 1..n /\ wire'[i] = wire[i]
        BY <3>1, <3>2, <1>inv DEF WayInv, n, b
    <3>3. CASE i - n \in 1..k /\ wire'[i] = outBuffer[i - n]
      <4>1. i - n \in 1..b /\ i - n < j + k
          BY <2>2, <2>8, <3>1, <3>3
      <4> QED BY <3>1, <3>3, <4>1, <1>inv DEF WayInv, b
    <3> QED BY <2>6, <3>2, <3>3
  <2>12. \A i \in 1..Len(wire'), j \in Sends : Before(wire'[i], taskQueue[j][2])
      BY <2>6, <2>8, <1>inv DEF WayInv, n, b
  <2>13. \A i \in 1..Len(outBuffer'), j \in Sends : Before(outBuffer'[i], taskQueue[j][2])
      BY <2>7, <1>inv DEF WayInv, b
  <2>14. WayInv'
      BY <2>5, <2>9, <2>10, <2>11, <2>12, <2>13, <1>inv DEF WayInv
  <2>15. LimitInv'
    <3>1. \A i \in 1..Len(wire') : wire'[i] # 0 => wire'[i] < Limit'
      <4>1. /\ \A i \in 1..n : wire[i] # 0 => wire[i] < Limit'
            /\ \A i \in 1..b : outBuffer[i] # 0 => outBuffer[i] < Limit'
          BY <1>inv, <1>lim, <1>nat DEF LimitInv, n, b
      <4> QED BY <2>6, <2>8, <4>1
    <3>2. \A i \in 1..Len(outBuffer') : outBuffer'[i] # 0 => outBuffer'[i] < Limit'
      <4>1. \A i \in 1..b : outBuffer[i] # 0 => outBuffer[i] < Limit'
          BY <1>inv, <1>lim, <1>nat DEF LimitInv, b
      <4> QED BY <2>7, <4>1
    <3>3. \A i \in Sends : taskQueue[i][2] # 0 => taskQueue[i][2] < Limit'
        BY <1>inv, <1>lim, <1>nat DEF LimitInv
    <3> QED BY <2>5, <3>1, <3>2, <3>3 DEF LimitInv
  <2> QED BY <2>14, <2>15
<1>29. CASE IdleTimeout
    BY <1>29, <1>s DEF IdleTimeout, HandleClose, After
<1>30. CASE UNCHANGED vars
    BY <1>30, <1>s DEF vars
<1>31. CASE BusinessCleanup
    BY <1>31, <1>s DEF BusinessCleanup
<1>32. CASE RemoveChannel
    BY <1>32, <1>s DEF RemoveChannel
<1>33. CASE FinishClose
    BY <1>33, <1>s DEF FinishClose
<1>34. CASE EraseConnection
    BY <1>34, <1>s DEF EraseConnection
<1>35. ASSUME NEW w \in Workers, HandlerLogsIn(w) PROVE WayInv' /\ LimitInv'
    BY <1>35, <1>s DEF HandlerLogsIn
<1>36. CASE NextLogsIn
    BY <1>36, <1>s DEF NextLogsIn
<1> QED
    BY <1>1, <1>2, <1>3, <1>4, <1>5, <1>6, <1>7, <1>8, <1>9, <1>10, <1>11,
       <1>12, <1>13, <1>14, <1>15, <1>16, <1>17, <1>18, <1>19, <1>20, <1>21,
       <1>22, <1>23, <1>24, <1>25, <1>26, <1>27, <1>28, <1>29, <1>30, <1>31,
       <1>32, <1>33, <1>34, <1>35, <1>36
    DEF Next, PeerStep, LoopStep, WorkerStep, OtherStep, RunInLoop, Terminating, Exec

\* Responses leave in the order of their requests (sendResponse, flushSendQueue, write).
THEOREM ReplyOrderHolds == Spec => []ReplyOrder
<1>1. Init => ReplyInv
  <2> SUFFICES ASSUME Init PROVE ReplyInv
      OBVIOUS
  <2>1. TaskInv
      BY DEF Init, TaskInv, InHandler, Thread
  <2>2. Sends = {} /\ Len(wire) = 0 /\ Len(outBuffer) = 0
      BY DEF Init, Sends
  <2> QED BY <2>1, <2>2 DEF ReplyInv, WayInv, LimitInv
<1>2. ConnInv /\ ReplyInv /\ [Next]_vars => ReplyInv'
    BY TaskStep, WayStep DEF ReplyInv
<1>3. ReplyInv => ReplyOrder
    BY DEF ReplyInv, WayInv, Before, ReplyOrder
<1> QED BY Invariance, <1>1, <1>2, <1>3, PTL DEF Spec

\* A response that a handler has produced stays on its way while the connection is open.
LEMMA KeptStep ==
  ASSUME ConnInv, KeptInv, [Next]_vars PROVE KeptInv'
<1>t. TypeOK
    BY DEF ConnInv
<1>typ. /\ wire \in Seq(Nat) /\ outBuffer \in Seq(Nat)
        /\ taskQueue \in Seq(Callback \X Nat) /\ task \in [Thread -> Nat]
        /\ pc \in [Thread -> PC] /\ pc[Loop] # "post"
    BY DEF ConnInv, TypeOK, ThreadPlaces
<1>k. ASSUME state' = "Connected" => state = "Connected", UNCHANGED replied,
             \A r : OnItsWay(r) => OnItsWay(r)'
      PROVE  KeptInv'
    BY <1>k DEF KeptInv
<1>u. ASSUME UNCHANGED <<wire, outBuffer, taskQueue, replied>>,
             state' = "Connected" => state = "Connected",
             \A u \in Thread : pc[u] = "post" => pc'[u] = "post" /\ task'[u] = task[u]
      PROVE  KeptInv'
  <2>1. Sends' = Sends
      BY <1>u DEF Sends
  <2>2. \A r : OnItsWay(r) => OnItsWay(r)'
      BY <1>u, <2>1 DEF OnItsWay
  <2> QED BY <1>u, <1>k, <2>2
<1>d. ASSUME UNCHANGED <<wire, outBuffer, task, replied>>,
             state' = "Connected" => state = "Connected",
             \A u \in Thread : pc[u] = "post" => pc'[u] = "post",
             taskQueue # <<>>, taskQueue' = Tail(taskQueue), Head(taskQueue)[1] # "send"
      PROVE  KeptInv'
  <2>1. \A i \in Sends : \E j \in Sends' : taskQueue'[j] = taskQueue[i]
    <3>1. /\ \A i \in Sends : i # 1 => i - 1 \in Sends' /\ taskQueue[i] = taskQueue'[i - 1]
          /\ 1 \notin Sends
        BY <1>d, <1>t, SendsTail
    <3> QED BY <3>1
  <2>2. ASSUME NEW r, OnItsWay(r) PROVE OnItsWay(r)'
    <3>1. CASE \E i \in Sends : taskQueue[i][2] = r
      <4>1. \E j \in Sends' : taskQueue'[j][2] = r
          BY <3>1, <2>1
      <4> QED BY <4>1 DEF OnItsWay
    <3>2. CASE \E u \in Thread : pc[u] = "post" /\ task[u] = r
      <4>1. \E u \in Thread : pc'[u] = "post" /\ task'[u] = r
          BY <3>2, <1>d
      <4> QED BY <4>1 DEF OnItsWay
    <3>3. CASE \/ \E i \in 1..Len(wire) : wire[i] = r
               \/ \E i \in 1..Len(outBuffer) : outBuffer[i] = r
        BY <3>3, <1>d DEF OnItsWay
    <3> QED BY <2>2, <3>1, <3>2, <3>3 DEF OnItsWay
  <2> QED BY <1>d, <1>k, <2>2
<1> USE <1>typ, ThreadsAssumption DEF Goto, Thread, Exec
<1>1. CASE PeerSend
    BY <1>1, <1>u DEF PeerSend
<1>2. CASE PeerFin
    BY <1>2, <1>u DEF PeerFin
<1>3. CASE PeerReset
    BY <1>3, <1>u DEF PeerReset
<1>4. CASE Read
    BY <1>4, <1>u DEF Read
<1>5. CASE ErrorEvent
    BY <1>5, <1>u DEF ErrorEvent, HandleClose, After
<1>6. CASE ParseOK
    BY <1>6, <1>u DEF ParseOK
<1>7. CASE ParseError
    BY <1>7, <1>u DEF ParseError, HandleClose, After
<1>8. CASE ParseNeedMore
    BY <1>8, <1>u DEF ParseNeedMore, EofEntry
<1>9. ASSUME NEW t \in Exec, Submit(t) PROVE KeptInv'
    BY <1>9, <1>u DEF Submit, After
<1>10. ASSUME NEW w \in Workers, TakeTask(w) PROVE KeptInv'
    BY <1>10, <1>u DEF TakeTask
<1>11. ASSUME NEW t \in Exec, StartTask(t) PROVE KeptInv'
    BY <1>11, <1>u DEF StartTask
<1>12. ASSUME NEW t \in Exec, HandlerReturns(t) PROVE KeptInv'
    BY <1>12, <1>u DEF HandlerReturns
<1>13. ASSUME NEW w \in Workers, HandlerReplies(w) PROVE KeptInv'
  <2>1. replied' = replied \cup {task[w]} /\ pc'[w] = "post" /\ w \in Thread
      BY <1>13 DEF HandlerReplies
  <2>2. UNCHANGED <<state, wire, outBuffer, taskQueue, task>>
      BY <1>13 DEF HandlerReplies
  <2>3. \A u \in Thread : pc[u] = "post" => pc'[u] = "post"
      BY <1>13 DEF HandlerReplies
  <2>4. Sends' = Sends
      BY <2>2 DEF Sends
  <2>5. OnItsWay(task[w])'
      BY <2>1, <2>2 DEF OnItsWay
  <2>6. \A r : OnItsWay(r) => OnItsWay(r)'
      BY <2>2, <2>3, <2>4 DEF OnItsWay
  <2> QED BY <2>1, <2>2, <2>5, <2>6 DEF KeptInv
<1>14. ASSUME NEW t \in Workers \cup Others, SendPost(t) PROVE KeptInv'
  <2> DEFINE c == <<"send", task[t]>>
             n == Len(taskQueue) + 1
  <2>1. c \in Callback \X Nat /\ c[1] = "send" /\ c[2] = task[t]
      BY DEF Callback
  <2>2. UNCHANGED <<state, wire, outBuffer, task, replied>> /\ taskQueue' = Append(taskQueue, c)
      BY <1>14 DEF SendPost
  <2>3. /\ n \in Sends' /\ taskQueue'[n] = c
        /\ \A i \in Sends : i \in Sends' /\ taskQueue'[i] = taskQueue[i]
    <3> HIDE DEF c
    <3> QED BY <2>1, <2>2, <1>typ, SendsAppend
  <2>4. \A u \in Thread : pc[u] = "post" => u = t \/ pc'[u] = "post"
      BY <1>14 DEF SendPost
  <2>5. n \in Sends' /\ taskQueue'[n][2] = task[t]
      BY <2>1, <2>3
  <2> HIDE DEF c, n
  <2>6. \A r : OnItsWay(r) => OnItsWay(r)'
      BY <2>2, <2>3, <2>4, <2>5 DEF OnItsWay
  <2> QED BY <2>2, <2>6, <1>k
<1>15. ASSUME NEW t \in Exec, OnTaskComplete(t) PROVE KeptInv'
    BY <1>15, <1>u DEF OnTaskComplete
<1>16. ASSUME NEW w \in Workers, PostToLoop(w) PROVE KeptInv'
  <2>1. UNCHANGED <<state, wire, outBuffer, task, replied>>
      BY <1>16 DEF PostToLoop
  <2>2. PICK c \in Callback \X Nat : c[1] # "send" /\ taskQueue' = Append(taskQueue, c)
    <3>1. <<"eof", 0>> \in Callback \X Nat /\ <<"final", 0>> \in Callback \X Nat
        BY DEF Callback
    <3>2. \/ taskQueue' = Append(taskQueue, <<"eof", 0>>)
          \/ taskQueue' = Append(taskQueue, <<"final", 0>>)
        BY <1>16 DEF PostToLoop
    <3> QED BY <3>1, <3>2
  <2>3. Sends' = Sends /\ \A i \in Sends : taskQueue'[i] = taskQueue[i]
      BY <2>2, <1>typ, SendsAppend
  <2>4. \A u \in Thread : pc[u] = "post" => pc'[u] = "post"
      BY <1>16 DEF PostToLoop
  <2>5. \A r : OnItsWay(r) => OnItsWay(r)'
      BY <2>1, <2>3, <2>4 DEF OnItsWay
  <2> QED BY <2>1, <2>5, <1>k
<1>17. CASE RunPostedInline
    BY <1>17, <1>u DEF RunPostedInline, After, EofEntry
<1>18. ASSUME NEW o \in Others, OtherSend(o) PROVE KeptInv'
    BY <1>18, <1>u DEF OtherSend
<1>19. ASSUME NEW o \in Others, OtherClose(o) PROVE KeptInv'
  <2>1. UNCHANGED <<state, wire, outBuffer, task, replied, pc>>
      BY <1>19 DEF OtherClose
  <2>2. PICK c \in Callback \X Nat : c[1] # "send" /\ taskQueue' = Append(taskQueue, c)
    <3>1. <<"close", 0>> \in Callback \X Nat
        BY DEF Callback
    <3> QED BY <1>19, <3>1 DEF OtherClose
  <2>3. Sends' = Sends /\ \A i \in Sends : taskQueue'[i] = taskQueue[i]
      BY <2>2, <1>typ, SendsAppend
  <2>4. \A r : OnItsWay(r) => OnItsWay(r)'
      BY <2>1, <2>3 DEF OnItsWay
  <2> QED BY <2>1, <2>4, <1>k
<1>20. CASE PoolStop
    BY <1>20, <1>u DEF PoolStop
<1>21. CASE RunSend
  <2>1. /\ taskQueue # <<>> /\ taskQueue' = Tail(taskQueue) /\ UNCHANGED <<wire, replied, task>>
        /\ pc[Loop] = "idle" /\ (state' = "Connected" => state = "Connected")
      BY <1>21 DEF RunSend, Dequeue, HandleClose
  <2>2. CASE state # "Connected"
      BY <2>1, <2>2 DEF KeptInv
  <2>3. CASE state = "Connected"
    <3> DEFINE m == Head(taskQueue)[2]
    <3>1. outBuffer' = Append(outBuffer, m)
        BY <1>21, <2>3 DEF RunSend
    <3>2. m \in Nat /\ m = taskQueue[1][2]
      <4>1. Head(taskQueue) \in Callback \X Nat /\ Head(taskQueue) = taskQueue[1]
          BY <2>1, <1>typ
      <4> QED BY <4>1
    <3> HIDE DEF m
    <3>3. /\ \A i \in 1..Len(outBuffer) : i \in 1..Len(outBuffer') /\ outBuffer'[i] = outBuffer[i]
          /\ Len(outBuffer) + 1 \in 1..Len(outBuffer')
          /\ outBuffer'[Len(outBuffer) + 1] = m
        BY <3>1, <3>2, <1>typ
    <3>4. \A i \in Sends : \/ taskQueue[i][2] = m
                            \/ \E j \in Sends' : taskQueue'[j] = taskQueue[i]
      <4>1. \A i \in Sends : i # 1 => i - 1 \in Sends' /\ taskQueue[i] = taskQueue'[i - 1]
          BY <2>1, <1>t, SendsTail
      <4> QED BY <4>1, <3>2
    <3>5. \A u \in Thread : pc[u] = "post" => pc'[u] = "post"
        BY <1>21, <2>1 DEF RunSend, HandleClose, After, EofEntry
    <3>6. ASSUME NEW r, OnItsWay(r) PROVE OnItsWay(r)'
      <4>1. CASE \E i \in 1..Len(outBuffer) : outBuffer[i] = r
        <5>1. \E i \in 1..Len(outBuffer') : outBuffer'[i] = r
            BY <4>1, <3>3
        <5> QED BY <5>1 DEF OnItsWay
      <4>2. CASE \E i \in Sends : taskQueue[i][2] = r
        <5>1. \/ \E i \in 1..Len(outBuffer') : outBuffer'[i] = r
              \/ \E j \in Sends' : taskQueue'[j][2] = r
            BY <4>2, <3>3, <3>4
        <5> QED BY <5>1 DEF OnItsWay
      <4>3. CASE \E u \in Thread : pc[u] = "post" /\ task[u] = r
        <5>1. \E u \in Thread : pc'[u] = "post" /\ task'[u] = r
            BY <4>3, <3>5, <2>1
        <5> QED BY <5>1 DEF OnItsWay
      <4>4. CASE \E i \in 1..Len(wire) : wire[i] = r
          BY <4>4, <2>1 DEF OnItsWay
      <4> QED BY <3>6, <4>1, <4>2, <4>3, <4>4 DEF OnItsWay
    <3> QED BY <2>1, <3>6, <1>k
  <2> QED BY <2>2, <2>3
<1>22. CASE RunEof
  <2>1. /\ taskQueue # <<>> /\ taskQueue' = Tail(taskQueue) /\ Head(taskQueue)[1] # "send"
        /\ pc[Loop] = "idle"
      BY <1>22 DEF RunEof, Dequeue
  <2>2. /\ UNCHANGED <<wire, outBuffer, task, replied>>
        /\ state' = "Connected" => state = "Connected"
      BY <1>22 DEF RunEof, EofEntry
  <2>3. \A u \in Thread : pc[u] = "post" => pc'[u] = "post"
      BY <1>22, <2>1 DEF RunEof, EofEntry
  <2> QED BY <2>1, <2>2, <2>3, <1>d
<1>23. CASE RunFinal
  <2>1. /\ taskQueue # <<>> /\ taskQueue' = Tail(taskQueue) /\ Head(taskQueue)[1] # "send"
        /\ pc[Loop] = "idle"
      BY <1>23 DEF RunFinal, Dequeue
  <2>2. /\ UNCHANGED <<wire, outBuffer, task, replied>>
        /\ state' = "Connected" => state = "Connected"
      BY <1>23 DEF RunFinal
  <2>3. \A u \in Thread : pc[u] = "post" => pc'[u] = "post"
      BY <1>23, <2>1 DEF RunFinal
  <2> QED BY <2>1, <2>2, <2>3, <1>d
<1>24. CASE RunClose
  <2>1. /\ taskQueue # <<>> /\ taskQueue' = Tail(taskQueue) /\ Head(taskQueue)[1] # "send"
        /\ pc[Loop] = "idle"
      BY <1>24 DEF RunClose, Dequeue
  <2>2. /\ UNCHANGED <<wire, outBuffer, task, replied>>
        /\ state' = "Connected" => state = "Connected"
      BY <1>24 DEF RunClose, HandleClose, After
  <2>3. \A u \in Thread : pc[u] = "post" => pc'[u] = "post"
      BY <1>24, <2>1 DEF RunClose, HandleClose, After
  <2> QED BY <2>1, <2>2, <2>3, <1>d
<1>25. CASE EofTasks
    BY <1>25, <1>u DEF EofTasks, After
<1>26. CASE EofSends
    BY <1>26, <1>u DEF EofSends, HandleClose, After
<1>27. CASE CloseLocked
  <2>1. state' # "Connected"
      BY <1>27 DEF CloseLocked, ConnInv, LoopInv
  <2> QED BY <2>1 DEF KeptInv
<1>28. CASE Write
  <2>1. PICK k \in 1..Len(outBuffer) :
          /\ wire' = wire \o SubSeq(outBuffer, 1, k)
          /\ outBuffer' = SubSeq(outBuffer, k + 1, Len(outBuffer))
      BY <1>28 DEF Write
  <2>2. Len(wire) \in Nat /\ Len(outBuffer) \in Nat /\ k \in Nat
      BY <1>typ
  <2>3. /\ \A i \in 1..Len(wire) : i \in 1..Len(wire') /\ wire'[i] = wire[i]
        /\ \A i \in 1..k : /\ Len(wire) + i \in 1..Len(wire')
                          /\ wire'[Len(wire) + i] = outBuffer[i]
    <3>1. Len(SubSeq(outBuffer, 1, k)) = k /\ SubSeq(outBuffer, 1, k) \in Seq(Nat)
        BY <2>2, <1>typ
    <3>2. \A i \in 1..k : SubSeq(outBuffer, 1, k)[i] = outBuffer[i]
        BY <2>2, <1>typ
    <3>3. Len(wire') = Len(wire) + k
        BY <2>1, <3>1, <1>typ
    <3>4. \A i \in 1..Len(wire) : wire'[i] = wire[i]
        BY <2>1, <3>1, <1>typ
    <3>5. \A i \in 1..k : wire'[Len(wire) + i] = SubSeq(outBuffer, 1, k)[i]
        BY <2>1, <2>2, <3>1, <1>typ
    <3> QED BY <2>2, <3>2, <3>3, <3>4, <3>5
  <2>4. \A i \in 1..Len(outBuffer) : i > k =>
          i - k \in 1..Len(outBuffer') /\ outBuffer'[i - k] = outBuffer[i]
    <3>1. /\ Len(outBuffer') = Len(outBuffer) - k
          /\ \A i \in 1..(Len(outBuffer) - k) : outBuffer'[i] = outBuffer[i + k]
        BY <2>1, <2>2, <1>typ
    <3> SUFFICES ASSUME NEW i \in 1..Len(outBuffer), i > k
                 PROVE  i - k \in 1..Len(outBuffer') /\ outBuffer'[i - k] = outBuffer[i]
        OBVIOUS
    <3>2. i - k \in 1..(Len(outBuffer) - k) /\ (i - k) + k = i
        BY <2>2
    <3> QED BY <3>1, <3>2
  <2>5. \A i \in 1..Len(outBuffer) : \/ \E j \in 1..Len(wire') : wire'[j] = outBuffer[i]
                                    \/ \E j \in 1..Len(outBuffer') : outBuffer'[j] = outBuffer[i]
    <3> SUFFICES ASSUME NEW i \in 1..Len(outBuffer)
                 PROVE  \/ \E j \in 1..Len(wire') : wire'[j] = outBuffer[i]
                        \/ \E j \in 1..Len(outBuffer') : outBuffer'[j] = outBuffer[i]
        OBVIOUS
    <3>1. CASE i > k
        BY <3>1, <2>4
    <3>2. CASE i \in 1..k
        BY <3>2, <2>3
    <3> QED BY <3>1, <3>2, <2>2
  <2>6. UNCHANGED <<state, taskQueue, task, replied>> /\ Sends' = Sends
      BY <1>28 DEF Write, Sends
  <2>7. \A u \in Thread : pc[u] = "post" => pc'[u] = "post"
      BY <1>28 DEF Write, EofEntry
  <2>8. ASSUME NEW r, OnItsWay(r) PROVE OnItsWay(r)'
    <3>1. CASE \E i \in 1..Len(wire) : wire[i] = r
      <4>1. \E i \in 1..Len(wire') : wire'[i] = r
          BY <3>1, <2>3
      <4> QED BY <4>1 DEF OnItsWay
    <3>2. CASE \E i \in 1..Len(outBuffer) : outBuffer[i] = r
      <4>1. \/ \E j \in 1..Len(wire') : wire'[j] = r
            \/ \E j \in 1..Len(outBuffer') : outBuffer'[j] = r
          BY <3>2, <2>5
      <4> QED BY <4>1 DEF OnItsWay
    <3>3. CASE \E i \in Sends : taskQueue[i][2] = r
        BY <3>3, <2>6 DEF OnItsWay
    <3>4. CASE \E u \in Thread : pc[u] = "post" /\ task[u] = r
      <4>1. \E u \in Thread : pc'[u] = "post" /\ task'[u] = r
          BY <3>4, <2>6, <2>7
      <4> QED BY <4>1 DEF OnItsWay
    <3> QED BY <2>8, <3>1, <3>2, <3>3, <3>4 DEF OnItsWay
  <2> QED BY <2>6, <2>8, <1>k
<1>29. CASE IdleTimeout
    BY <1>29, <1>u DEF IdleTimeout, HandleClose, After
<1>30. CASE UNCHANGED vars
    BY <1>30, <1>u DEF vars
<1>31. CASE BusinessCleanup
    BY <1>31, <1>u DEF BusinessCleanup
<1>32. CASE RemoveChannel
    BY <1>32, <1>u DEF RemoveChannel
<1>33. CASE FinishClose
    BY <1>33, <1>u DEF FinishClose
<1>34. CASE EraseConnection
    BY <1>34, <1>u DEF EraseConnection
<1>35. ASSUME NEW w \in Workers, HandlerLogsIn(w) PROVE KeptInv'
    BY <1>35, <1>u DEF HandlerLogsIn
<1>36. CASE NextLogsIn
    BY <1>36, <1>u DEF NextLogsIn
<1> QED
    BY <1>1, <1>2, <1>3, <1>4, <1>5, <1>6, <1>7, <1>8, <1>9, <1>10, <1>11,
       <1>12, <1>13, <1>14, <1>15, <1>16, <1>17, <1>18, <1>19, <1>20, <1>21,
       <1>22, <1>23, <1>24, <1>25, <1>26, <1>27, <1>28, <1>29, <1>30, <1>31,
       <1>32, <1>33, <1>34, <1>35, <1>36
    DEF Next, PeerStep, LoopStep, WorkerStep, OtherStep, RunInLoop, Terminating, Exec

\* No chunk is lost while the connection is open, but for a partial frame behind the end of
\* file (read()).
LEMMA ChunkStep ==
  ASSUME ConnInv, EofInv, ChunkInv, [Next]_vars PROVE ChunkInv'
<1>t. TypeOK
    BY DEF ConnInv
<1>typ. /\ sent \in Nat /\ unread \in Nat /\ inBuffer \in Nat /\ parsed \in Nat
        /\ fin \in BOOLEAN /\ peerReadClosed \in BOOLEAN /\ parsing \in BOOLEAN
        /\ pc \in [Thread -> PC]
    BY DEF ConnInv, TypeOK
<1>u. ASSUME UNCHANGED <<sent, unread, fin, inBuffer, parsed, peerReadClosed>>,
             state' = "Connected" => state = "Connected" /\ parsing' = parsing
      PROVE  ChunkInv'
    BY <1>u DEF ChunkInv
<1> USE <1>typ DEF FrameChunks
<1>1. CASE PeerSend
    BY <1>1 DEF PeerSend, ChunkInv
<1>2. CASE PeerFin
    BY <1>2 DEF PeerFin, ChunkInv
<1>3. CASE PeerReset
    BY <1>3, <1>u DEF PeerReset
<1>4. CASE Read
    BY <1>4 DEF Read, ChunkInv
<1>5. CASE ErrorEvent
    BY <1>5, <1>u DEF ErrorEvent, HandleClose, After
<1>6. CASE ParseOK
  <2>1. /\ inBuffer' = inBuffer - 2 /\ inBuffer >= 2 /\ parsed' = parsed + 1
        /\ UNCHANGED <<sent, unread, fin, state, peerReadClosed, parsing>> /\ parsing
      BY <1>6 DEF ParseOK, EofInv, FrameChunks
  <2> QED BY <2>1 DEF ChunkInv, FrameChunks
<1>7. CASE ParseError
    BY <1>7, <1>u DEF ParseError, HandleClose, After
<1>8. CASE ParseNeedMore
  <2>1. /\ inBuffer < 2 /\ parsing /\ ~parsing'
        /\ inBuffer' = (IF peerReadClosed THEN 0 ELSE inBuffer)
        /\ UNCHANGED <<sent, unread, fin, parsed, state, peerReadClosed>>
      BY <1>8 DEF ParseNeedMore, EofInv, FrameChunks
  <2> QED BY <2>1 DEF ChunkInv, FrameChunks
<1>9. ASSUME NEW t \in Exec, Submit(t) PROVE ChunkInv'
    BY <1>9, <1>u DEF Submit, After
<1>10. ASSUME NEW w \in Workers, TakeTask(w) PROVE ChunkInv'
    BY <1>10, <1>u DEF TakeTask
<1>11. ASSUME NEW t \in Exec, StartTask(t) PROVE ChunkInv'
    BY <1>11, <1>u DEF StartTask
<1>12. ASSUME NEW t \in Exec, HandlerReturns(t) PROVE ChunkInv'
    BY <1>12, <1>u DEF HandlerReturns
<1>13. ASSUME NEW w \in Workers, HandlerReplies(w) PROVE ChunkInv'
    BY <1>13, <1>u DEF HandlerReplies
<1>14. ASSUME NEW t \in Workers \cup Others, SendPost(t) PROVE ChunkInv'
    BY <1>14, <1>u DEF SendPost
<1>15. ASSUME NEW t \in Exec, OnTaskComplete(t) PROVE ChunkInv'
    BY <1>15, <1>u DEF OnTaskComplete
<1>16. ASSUME NEW w \in Workers, PostToLoop(w) PROVE ChunkInv'
    BY <1>16, <1>u DEF PostToLoop
<1>17. CASE RunPostedInline
    BY <1>17, <1>u DEF RunPostedInline, After, EofEntry
<1>18. ASSUME NEW o \in Others, OtherSend(o) PROVE ChunkInv'
    BY <1>18, <1>u DEF OtherSend
<1>19. ASSUME NEW o \in Others, OtherClose(o) PROVE ChunkInv'
    BY <1>19, <1>u DEF OtherClose
<1>20. CASE PoolStop
    BY <1>20, <1>u DEF PoolStop
<1>21. CASE RunSend
    BY <1>21, <1>u DEF RunSend, Dequeue, HandleClose, After, EofEntry
<1>22. CASE RunEof
    BY <1>22, <1>u DEF RunEof, Dequeue, EofEntry
<1>23. CASE RunFinal
    BY <1>23, <1>u DEF RunFinal, Dequeue
<1>24. CASE RunClose
    BY <1>24, <1>u DEF RunClose, Dequeue, HandleClose, After
<1>25. CASE EofTasks
    BY <1>25, <1>u DEF EofTasks, After
<1>26. CASE EofSends
    BY <1>26, <1>u DEF EofSends, HandleClose, After
<1>27. CASE CloseLocked
  <2>1. state' # "Connected"
      BY <1>27 DEF CloseLocked, ConnInv, LoopInv
  <2>2. UNCHANGED <<peerReadClosed, fin, unread>>
      BY <1>27 DEF CloseLocked
  <2> QED BY <2>1, <2>2 DEF ChunkInv
<1>28. CASE Write
    BY <1>28, <1>u DEF Write, EofEntry
<1>29. CASE IdleTimeout
    BY <1>29, <1>u DEF IdleTimeout, HandleClose, After
<1>30. CASE UNCHANGED vars
    BY <1>30, <1>u DEF vars
<1>31. CASE BusinessCleanup
    BY <1>31, <1>u DEF BusinessCleanup
<1>32. CASE RemoveChannel
    BY <1>32, <1>u DEF RemoveChannel
<1>33. CASE FinishClose
    BY <1>33, <1>u DEF FinishClose
<1>34. CASE EraseConnection
    BY <1>34, <1>u DEF EraseConnection
<1>35. ASSUME NEW w \in Workers, HandlerLogsIn(w) PROVE ChunkInv'
    BY <1>35, <1>u DEF HandlerLogsIn
<1>36. CASE NextLogsIn
    BY <1>36, <1>u DEF NextLogsIn
<1> QED
    BY <1>1, <1>2, <1>3, <1>4, <1>5, <1>6, <1>7, <1>8, <1>9, <1>10, <1>11,
       <1>12, <1>13, <1>14, <1>15, <1>16, <1>17, <1>18, <1>19, <1>20, <1>21,
       <1>22, <1>23, <1>24, <1>25, <1>26, <1>27, <1>28, <1>29, <1>30, <1>31,
       <1>32, <1>33, <1>34, <1>35, <1>36
    DEF Next, PeerStep, LoopStep, WorkerStep, OtherStep, RunInLoop, Terminating, Exec

\* Where the loop is on an accepted connection, and that drained tasks stay drained
\* (maybeFinishAfterPeerEof()).
LEMMA EofStep ==
  ASSUME ~Outbound, ConnInv, ChunkInv, EofInv, [Next]_vars PROVE EofInv'
<1>typ. /\ fin \in BOOLEAN /\ peerReadClosed \in BOOLEAN /\ parsing \in BOOLEAN
        /\ pc \in [Thread -> PC] /\ Loop \in Thread
        /\ pendingTasks \in Seq(Nat)
    BY DEF ConnInv, TypeOK, Thread
<1>places. /\ pc[Loop] \notin {"idle", "closing"} \cup ClosingPlaces =>
                state = "Connected" /\ ~poolStopped
           /\ pc[Loop] = "closing" => state = "Closing"
           /\ parsing => state = "Connected"
    BY DEF ConnInv, LoopInv
<1>w. ASSUME pc'[Loop] = pc[Loop],
             UNCHANGED <<parsing, peerReadClosed, fin, state, cause, taskRunning, pendingTasks>>
      PROVE  EofInv'
    BY <1>w DEF EofInv
<1> USE <1>typ, <1>places, ThreadsAssumption DEF Goto, Thread, ClosingPlaces
<1>1. CASE PeerSend
    BY <1>1, <1>w DEF PeerSend
<1>2. CASE PeerFin
    BY <1>2 DEF PeerFin, EofInv
<1>3. CASE PeerReset
    BY <1>3, <1>w DEF PeerReset
<1>4. CASE Read
    BY <1>4 DEF EofInv, Read
<1>5. CASE ErrorEvent
    BY <1>5 DEF EofInv, ErrorEvent, HandleClose, After
<1>6. CASE ParseOK
    BY <1>6 DEF EofInv, ParseOK
<1>7. CASE ParseError
    BY <1>7 DEF EofInv, ParseError, HandleClose, After
<1>8. CASE ParseNeedMore
    BY <1>8 DEF EofInv, ParseNeedMore, EofEntry
<1>9. ASSUME NEW t \in Exec, Submit(t) PROVE EofInv'
  <2>1. CASE t = Loop
      BY <1>9, <2>1, <1>places DEF Submit, After, EofInv
  <2>2. CASE t \in Workers
      BY <1>9, <2>2, <1>w DEF Submit
  <2> QED BY <2>1, <2>2 DEF Exec
<1>10. ASSUME NEW w \in Workers, TakeTask(w) PROVE EofInv'
    BY <1>10, <1>w DEF TakeTask
<1>11. ASSUME NEW t \in Exec, StartTask(t) PROVE EofInv'
  <2>1. t \in Workers
      BY <1>11 DEF StartTask, EofInv, Exec
  <2> QED BY <1>11, <2>1, <1>w DEF StartTask
<1>12. ASSUME NEW t \in Exec, HandlerReturns(t) PROVE EofInv'
  <2>1. t \in Workers
      BY <1>12 DEF HandlerReturns, EofInv, Exec
  <2> QED BY <1>12, <2>1, <1>w DEF HandlerReturns
<1>13. ASSUME NEW w \in Workers, HandlerReplies(w) PROVE EofInv'
    BY <1>13, <1>w DEF HandlerReplies
<1>14. ASSUME NEW t \in Workers \cup Others, SendPost(t) PROVE EofInv'
    BY <1>14, <1>w DEF SendPost
<1>15. ASSUME NEW t \in Exec, OnTaskComplete(t) PROVE EofInv'
  <2>1. t \in Workers
      BY <1>15 DEF OnTaskComplete, EofInv, Exec
  <2>2. /\ pc'[Loop] = pc[Loop] /\ UNCHANGED <<parsing, peerReadClosed, fin, state, cause>>
        /\ taskRunning
      BY <1>15, <2>1 DEF OnTaskComplete, ConnInv, SlotInv, Executing
  <2>3. pc[Loop] # "eofSends" /\ cause # "drained"
      BY <2>2 DEF EofInv
  <2> QED BY <2>2, <2>3 DEF EofInv
<1>16. ASSUME NEW w \in Workers, PostToLoop(w) PROVE EofInv'
    BY <1>16, <1>w DEF PostToLoop
<1>17. CASE RunPostedInline
    BY <1>17 DEF RunPostedInline, EofInv
<1>18. ASSUME NEW o \in Others, OtherSend(o) PROVE EofInv'
    BY <1>18, <1>w DEF OtherSend
<1>19. ASSUME NEW o \in Others, OtherClose(o) PROVE EofInv'
    BY <1>19, <1>w DEF OtherClose
<1>20. CASE PoolStop
    BY <1>20, <1>w DEF PoolStop
<1>21. CASE RunSend
    BY <1>21 DEF EofInv, RunSend, Dequeue, HandleClose, After, EofEntry
<1>22. CASE RunEof
    BY <1>22 DEF EofInv, RunEof, Dequeue, EofEntry
<1>23. CASE RunFinal
    BY <1>23 DEF EofInv, RunFinal, Dequeue
<1>24. CASE RunClose
    BY <1>24 DEF EofInv, RunClose, Dequeue, HandleClose, After
<1>25. CASE EofTasks
    BY <1>25 DEF EofInv, EofTasks, After
<1>26. CASE EofSends
  <2>1. pc[Loop] = "eofSends" /\ fin /\ ~parsing /\ ~taskRunning
      BY <1>26 DEF EofInv, EofSends, EofInv, ChunkInv
  <2> QED BY <1>26, <2>1 DEF EofSends, HandleClose, After, EofInv
<1>27. CASE CloseLocked
    BY <1>27 DEF EofInv, CloseLocked
<1>28. CASE Write
    BY <1>28 DEF EofInv, Write, EofEntry
<1>29. CASE IdleTimeout
    BY <1>29 DEF EofInv, IdleTimeout, HandleClose, After
<1>30. CASE UNCHANGED vars
    BY <1>30, <1>w DEF vars
<1>31. CASE BusinessCleanup
    BY <1>31 DEF EofInv, BusinessCleanup
<1>32. CASE RemoveChannel
    BY <1>32 DEF EofInv, RemoveChannel
<1>33. CASE FinishClose
    BY <1>33 DEF EofInv, FinishClose
<1>34. CASE EraseConnection
    BY <1>34 DEF EofInv, EraseConnection
<1>35. ASSUME NEW w \in Workers, HandlerLogsIn(w) PROVE EofInv'
    BY <1>35, <1>w DEF HandlerLogsIn
<1>36. CASE NextLogsIn
    BY <1>36, <1>w DEF NextLogsIn
<1> QED
    BY <1>1, <1>2, <1>3, <1>4, <1>5, <1>6, <1>7, <1>8, <1>9, <1>10, <1>11,
       <1>12, <1>13, <1>14, <1>15, <1>16, <1>17, <1>18, <1>19, <1>20, <1>21,
       <1>22, <1>23, <1>24, <1>25, <1>26, <1>27, <1>28, <1>29, <1>30, <1>31,
       <1>32, <1>33, <1>34, <1>35, <1>36
    DEF Next, PeerStep, LoopStep, WorkerStep, OtherStep, RunInLoop, Terminating, Exec

\* A close that the end of file brings about has lost nothing: at the moment of the check and
\* ever after.
LEMMA DrainedStep ==
  ASSUME ConnInv, SendCountExact, DrainInv, [Next]_vars PROVE DrainedCloseLosesNothing'
<1>t. TypeOK
    BY DEF ConnInv
<1>i. KeptInv /\ ChunkInv /\ EofInv /\ DrainedCloseLosesNothing
    BY DEF DrainInv
<1>u. ASSUME UNCHANGED <<sent, started, replied, wire>>, cause' = "drained" => cause = "drained"
      PROVE  DrainedCloseLosesNothing'
    BY <1>u, <1>i DEF DrainedCloseLosesNothing
<1> USE <1>i
<1>1. CASE PeerSend
  <2>1. cause # "drained" /\ cause' = cause
      BY <1>1 DEF PeerSend, EofInv
  <2> QED BY <2>1 DEF DrainedCloseLosesNothing
<1>2. CASE PeerFin
    BY <1>2, <1>u DEF PeerFin
<1>3. CASE PeerReset
    BY <1>3, <1>u DEF PeerReset
<1>4. CASE Read
    BY <1>4, <1>u DEF Read
<1>5. CASE ErrorEvent
    BY <1>5, <1>u DEF ErrorEvent, HandleClose, After
<1>6. CASE ParseOK
    BY <1>6, <1>u DEF ParseOK
<1>7. CASE ParseError
    BY <1>7, <1>u DEF ParseError, HandleClose, After
<1>8. CASE ParseNeedMore
    BY <1>8, <1>u DEF ParseNeedMore, EofEntry
<1>9. ASSUME NEW t \in Exec, Submit(t) PROVE DrainedCloseLosesNothing'
    BY <1>9, <1>u DEF Submit, After
<1>10. ASSUME NEW w \in Workers, TakeTask(w) PROVE DrainedCloseLosesNothing'
    BY <1>10, <1>u DEF TakeTask
<1>11. ASSUME NEW t \in Exec, StartTask(t) PROVE DrainedCloseLosesNothing'
  <2>1. taskRunning
      BY <1>11 DEF StartTask, ConnInv, SlotInv, Executing
  <2>2. cause # "drained" /\ cause' = cause
      BY <1>11, <2>1 DEF StartTask, EofInv
  <2> QED BY <2>2 DEF DrainedCloseLosesNothing
<1>12. ASSUME NEW t \in Exec, HandlerReturns(t) PROVE DrainedCloseLosesNothing'
    BY <1>12, <1>u DEF HandlerReturns
<1>13. ASSUME NEW w \in Workers, HandlerReplies(w) PROVE DrainedCloseLosesNothing'
  <2>1. taskRunning
      BY <1>13 DEF HandlerReplies, ConnInv, SlotInv, Executing, Exec
  <2>2. cause # "drained" /\ cause' = cause
      BY <1>13, <2>1 DEF HandlerReplies, EofInv
  <2> QED BY <2>2 DEF DrainedCloseLosesNothing
<1>14. ASSUME NEW t \in Workers \cup Others, SendPost(t) PROVE DrainedCloseLosesNothing'
    BY <1>14, <1>u DEF SendPost
<1>15. ASSUME NEW t \in Exec, OnTaskComplete(t) PROVE DrainedCloseLosesNothing'
    BY <1>15, <1>u DEF OnTaskComplete
<1>16. ASSUME NEW w \in Workers, PostToLoop(w) PROVE DrainedCloseLosesNothing'
    BY <1>16, <1>u DEF PostToLoop
<1>17. CASE RunPostedInline
    BY <1>17, <1>u DEF RunPostedInline, After, EofEntry
<1>18. ASSUME NEW o \in Others, OtherSend(o) PROVE DrainedCloseLosesNothing'
    BY <1>18, <1>u DEF OtherSend
<1>19. ASSUME NEW o \in Others, OtherClose(o) PROVE DrainedCloseLosesNothing'
    BY <1>19, <1>u DEF OtherClose
<1>20. CASE PoolStop
    BY <1>20, <1>u DEF PoolStop
<1>21. CASE RunSend
    BY <1>21, <1>u DEF RunSend, Dequeue, HandleClose, After, EofEntry
<1>22. CASE RunEof
    BY <1>22, <1>u DEF RunEof, Dequeue, EofEntry
<1>23. CASE RunFinal
    BY <1>23, <1>u DEF RunFinal, Dequeue
<1>24. CASE RunClose
    BY <1>24, <1>u DEF RunClose, Dequeue, HandleClose, After
<1>25. CASE EofTasks
    BY <1>25, <1>u DEF EofTasks, After
<1>26. CASE EofSends
  <2>1. /\ UNCHANGED <<started, sent, replied, wire>> /\ state = "Connected"
        /\ pc[Loop] = "eofSends" /\ TasksDrained /\ peerReadClosed /\ ~parsing
      BY <1>26 DEF EofSends, EofInv, ConnInv, LoopInv, ClosingPlaces
  <2>2. CASE ~SendsDrained
      BY <1>26, <2>1, <2>2, <1>u DEF EofSends
  <2>3. CASE SendsDrained
    <3>1. Len(started) = parsed /\ parsed \in Nat /\ sent \in Nat
        BY <2>1 DEF ConnInv, OrderInv, TypeOK
    <3>2. sent - 2 * parsed \in {0, 1}
      <4>1. unread = 0 /\ inBuffer = 0
          BY <2>1 DEF ChunkInv
      <4> QED BY <2>1, <3>1, <4>1 DEF ChunkInv, FrameChunks
    <3>3. Len(started) = sent \div FrameChunks
        BY <3>1, <3>2 DEF FrameChunks
    <3>4. Posting = {} /\ Sends = {}
      <4>1. Cardinality(Posting) + Cardinality(Sends) = 0
          BY <2>3 DEF SendCountExact, Posting, Sends
      <4>2. Cardinality(Posting) = 0 /\ Cardinality(Sends) = 0
          BY <4>1, <1>t, SendsFinite
      <4> QED BY <4>2, <1>t, SendsFinite, FS_EmptySet
    <3>5. \A r \in replied : \E i \in 1..Len(wire) : wire[i] = r
      <4> SUFFICES ASSUME NEW r \in replied PROVE \E i \in 1..Len(wire) : wire[i] = r
          OBVIOUS
      <4>1. OnItsWay(r)
          BY <2>1 DEF KeptInv
      <4>2. ~ \E t \in Thread : pc[t] = "post" /\ task[t] = r
          BY <3>4 DEF Posting
      <4>3. ~ \E i \in 1..Len(outBuffer) : outBuffer[i] = r
          BY <2>3
      <4> QED BY <3>4, <4>1, <4>2, <4>3 DEF OnItsWay
    <3> QED BY <2>1, <3>3, <3>5 DEF DrainedCloseLosesNothing
  <2> QED BY <2>2, <2>3
<1>27. CASE CloseLocked
    BY <1>27, <1>u DEF CloseLocked
<1>28. CASE Write
  <2>1. cause # "drained" /\ cause' = cause
      BY <1>28 DEF Write, EofInv
  <2> QED BY <2>1 DEF DrainedCloseLosesNothing
<1>29. CASE IdleTimeout
    BY <1>29, <1>u DEF IdleTimeout, HandleClose, After
<1>30. CASE UNCHANGED vars
    BY <1>30, <1>u DEF vars
<1>31. CASE BusinessCleanup
    BY <1>31, <1>u DEF BusinessCleanup
<1>32. CASE RemoveChannel
    BY <1>32, <1>u DEF RemoveChannel
<1>33. CASE FinishClose
    BY <1>33, <1>u DEF FinishClose
<1>34. CASE EraseConnection
    BY <1>34, <1>u DEF EraseConnection
<1>35. ASSUME NEW w \in Workers, HandlerLogsIn(w) PROVE DrainedCloseLosesNothing'
    BY <1>35, <1>u DEF HandlerLogsIn
<1>36. CASE NextLogsIn
    BY <1>36, <1>u DEF NextLogsIn
<1> QED
    BY <1>1, <1>2, <1>3, <1>4, <1>5, <1>6, <1>7, <1>8, <1>9, <1>10, <1>11,
       <1>12, <1>13, <1>14, <1>15, <1>16, <1>17, <1>18, <1>19, <1>20, <1>21,
       <1>22, <1>23, <1>24, <1>25, <1>26, <1>27, <1>28, <1>29, <1>30, <1>31,
       <1>32, <1>33, <1>34, <1>35, <1>36
    DEF Next, PeerStep, LoopStep, WorkerStep, OtherStep, RunInLoop, Terminating, Exec

\* On an accepted connection, the close after the peer's end of file loses neither a
\* complete request nor a response (read(), maybeFinishAfterPeerEof()).
THEOREM DrainedCloseHolds ==
  ASSUME ~Outbound PROVE Spec => []DrainedCloseLosesNothing
<1>1. Init => DrainInv
  <2> SUFFICES ASSUME Init PROVE DrainInv
      OBVIOUS
  <2>1. KeptInv
      BY DEF Init, KeptInv
  <2>2. ChunkInv
      BY DEF Init, ChunkInv, FrameChunks
  <2>3. EofInv
      BY DEF Init, EofInv, Thread
  <2>4. DrainedCloseLosesNothing
      BY DEF Init, DrainedCloseLosesNothing
  <2> QED BY <2>1, <2>2, <2>3, <2>4 DEF DrainInv
<1>2. ConnInv /\ SendCountExact /\ DrainInv /\ [Next]_vars => DrainInv'
    BY KeptStep, ChunkStep, EofStep, DrainedStep DEF DrainInv
<1>3. DrainInv => DrainedCloseLosesNothing
    BY DEF DrainInv
<1> QED BY Invariance, SendCountHolds, <1>1, <1>2, <1>3, PTL DEF Spec
=============================================================================
