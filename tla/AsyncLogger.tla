----------------------------- MODULE AsyncLogger -----------------------------
(***************************************************************************)
(* The asynchronous logger (Logger/AsyncLogger.cpp): any thread pushes a   *)
(* line under mutex_, one writer thread takes the whole queue and writes   *)
(* it, stop() ends the writer and joins it.                                *)
(*                                                                         *)
(* cv_.wait(lock, predicate) is two steps of the writer: it evaluates the  *)
(* predicate holding mutex_, and then releases mutex_ and blocks in one    *)
(* atomic step.  A notification reaches only a writer that is blocked.     *)
(* log() pushes under mutex_, stop() sets stop_ without it.                *)
(***************************************************************************)
EXTENDS Integers, Sequences

CONSTANTS
  Loggers,      \* threads that call log()
  MaxLines      \* bound: lines logged

ASSUME LinesAssumption == MaxLines \in Nat

VARIABLES
  lineQueue,    \* queue_
  local,        \* the batch the writer has swapped out
  file,         \* lines written and flushed
  logStop,      \* stop_
  writer,       \* place of the writer in writeLoop()
  logger,       \* place of each thread in log()
  logStopper,   \* place of the thread that calls stop()
  lines,        \* lines pushed so far: the line's number
  before        \* the lines pushed when stop_ was set

loggerVars == <<lineQueue, local, file, logStop, writer, logger, logStopper, lines, before>>

\* "held": predicate was false, mutex_ still held; "blocked": inside cv_.wait;
\* "writing": batch taken, mutex_ released.
WriterPlace == {"lock", "held", "blocked", "writing", "done"}

LogTypeOK ==
  /\ lineQueue \in Seq(1..MaxLines) /\ local \in Seq(1..MaxLines)
  /\ file \in Seq(1..MaxLines)
  /\ logStop \in BOOLEAN
  /\ writer \in WriterPlace
  /\ logger \in [Loggers -> {"idle", "notify"}]
  /\ logStopper \in {"idle", "notify", "join", "returned"}
  /\ lines \in 0..MaxLines /\ before \in 0..MaxLines

LogInit ==
  /\ lineQueue = <<>> /\ local = <<>> /\ file = <<>> /\ logStop = FALSE
  /\ writer = "lock" /\ logger = [l \in Loggers |-> "idle"]
  /\ logStopper = "idle" /\ lines = 0 /\ before = 0

\* log() that does not take mutex_.
MutexIgnored == TRUE

\* mutex_ is held by another thread only between the writer's failed test and
\* its blocking; every other critical section is one step.
MutexFree == writer # "held"

\* A notification by a thread that does not hold the mutex.
Notified == IF writer = "blocked" THEN "lock" ELSE writer

\* The line is put in front of the queue.
PushFront(q, n) == <<n>> \o q

\* queue_.push
PushLine(q, n) == Append(q, n)

\* log(): push under the lock...
LogPush(l) ==
  /\ logger[l] = "idle" /\ MutexFree /\ lines < MaxLines
  /\ lines' = lines + 1
  /\ lineQueue' = PushLine(lineQueue, lines + 1)
  /\ logger' = [logger EXCEPT ![l] = "notify"]
  /\ UNCHANGED <<local, file, logStop, writer, logStopper, before>>

\* ...and notify_one() after releasing it.
LogNotify(l) ==
  /\ logger[l] = "notify"
  /\ writer' = Notified
  /\ logger' = [logger EXCEPT ![l] = "idle"]
  /\ UNCHANGED <<lineQueue, local, file, logStop, logStopper, lines, before>>

\* The writer leaves as soon as it sees stop_.
ExitOnStop == logStop

\* writeLoop(): the exit test after cv_.wait.
ExitTest == logStop /\ lineQueue = <<>>

\* The writer holds mutex_ and evaluates the predicate stop_ || !queue_.empty();
\* when it is true it exits or swaps the queue out and unlocks.
WriterCheck ==
  /\ writer = "lock"
  /\ IF ExitTest
       THEN writer' = "done" /\ UNCHANGED <<lineQueue, local>>
     ELSE IF lineQueue # <<>>
       THEN writer' = "writing" /\ local' = lineQueue /\ lineQueue' = <<>>
       ELSE writer' = "held" /\ UNCHANGED <<lineQueue, local>>
  /\ UNCHANGED <<file, logStop, logger, logStopper, lines, before>>

\* cv_.wait releases mutex_ and blocks.
WriterBlock ==
  /\ writer = "held"
  /\ writer' = "blocked"
  /\ UNCHANGED <<lineQueue, local, file, logStop, logger, logStopper, lines, before>>

\* cv_.wait may return without a notification; it then tests again.
LogWakeup ==
  /\ writer = "blocked"
  /\ writer' = "lock"
  /\ UNCHANGED <<lineQueue, local, file, logStop, logger, logStopper, lines, before>>

\* The batch is written and flushed without the lock.
WriterFlush ==
  /\ writer = "writing"
  /\ file' = file \o local /\ local' = <<>>
  /\ writer' = "lock"
  /\ UNCHANGED <<lineQueue, logStop, logger, logStopper, lines, before>>

\* stop(): the compare-and-swap on stop_, without mutex_...
StopSet ==
  /\ logStopper = "idle"
  /\ logStop' = TRUE /\ before' = lines
  /\ logStopper' = "notify"
  /\ UNCHANGED <<lineQueue, local, file, writer, logger, lines>>

\* ...notify_one()...
StopNotify ==
  /\ logStopper = "notify"
  /\ writer' = Notified
  /\ logStopper' = "join"
  /\ UNCHANGED <<lineQueue, local, file, logStop, logger, lines, before>>

\* ...and join.
LogStopJoin ==
  /\ logStopper = "join" /\ writer = "done"
  /\ logStopper' = "returned"
  /\ UNCHANGED <<lineQueue, local, file, logStop, writer, logger, lines, before>>

\* A blocked writer with nothing to write is at rest, and so is everything
\* after stop() has returned.
LogAtRest ==
  /\ logStopper = "returned" \/ writer = "blocked"
  /\ UNCHANGED loggerVars

LogWriterStep == WriterCheck \/ WriterBlock \/ WriterFlush

LogNext ==
  \/ \E l \in Loggers : LogPush(l) \/ LogNotify(l)
  \/ LogWriterStep \/ LogWakeup
  \/ StopSet \/ StopNotify \/ LogStopJoin
  \/ LogAtRest

\* Threads that are in log() or stop() go on; nobody has to call them, and
\* nobody may count on a spurious wakeup.
LogFairness ==
  /\ WF_loggerVars(LogWriterStep)
  /\ WF_loggerVars(StopNotify) /\ WF_loggerVars(LogStopJoin)
  /\ \A l \in Loggers : WF_loggerVars(LogNotify(l))

LogSpec == LogInit /\ [][LogNext]_loggerVars /\ LogFairness

-----------------------------------------------------------------------------
\* When the writer has left, every line pushed before stop() is in the file.
FlushedAtExit ==
  writer = "done" => \A n \in 1..before : \E i \in 1..Len(file) : file[i] = n

\* The file, the batch and the queue together are the lines in the order in
\* which log() pushed them: no line is lost, doubled or reordered on the way,
\* and the writer does not leave with a line pushed before stop().
LinesInOrder ==
  /\ LogTypeOK /\ FlushedAtExit
  /\ file \o local \o lineQueue = [i \in 1..lines |-> i]

\* A line pushed before stop() reaches the file, whenever stop() comes and
\* whether or not anybody logs again: log()'s notification is never missed.
LinesReachFile ==
  \A n \in 1..MaxLines :
    (lines >= n /\ ~logStop) ~> (\E i \in 1..Len(file) : file[i] = n)

\* stop() returns: the writer sees stop_ and leaves.
LogStopReturns == logStopper = "notify" ~> logStopper = "returned"
=============================================================================
