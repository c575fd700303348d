--------------------------- MODULE EventLoopProofs ---------------------------
(***************************************************************************)
(* Proofs about the event loop (EventLoop), for any descriptors, workers,  *)
(* connections and closes: no callback is left without a wakeup, the maps  *)
(* never point at another connection's socket and no descriptor leaks, and *)
(* the eventfd protocol implements the callback queue (Executor).          *)
(*                                                                         *)
(* NoLostWakeup is inductive.  For the maps the invariant follows what may *)
(* still act on a descriptor number: the build callback, the task that     *)
(* defers a close, and the final callback.  While one of them is about the *)
(* number is taken, and no two of them are about for one connection.       *)
(***************************************************************************)
EXTENDS EventLoop, SequenceTheorems, TLAPS

\* Posted and not yet run, in order.
Line == tasks \o taskQueue

Queued(cb) == \E i \in 1..Len(Line) : Line[i] = cb

Posting(p, cb) == poster[p] = "post" /\ hand[p] = cb

\* The callback is in the queue, or a thread is about to put it there.
About(cb) == Queued(cb) \/ \E p \in Posters : Posting(p, cb)

\* The loop has swapped out callbacks only while it runs them.
SwapInv == place # "run" => tasks = <<>>

\* A callback other than a close is about once.
OnceInv ==
  /\ \A i, j \in 1..Len(Line) : Line[i] = Line[j] /\ Line[i][1] # "close" => i = j
  /\ \A p \in Posters, cb \in Callbacks :
       Posting(p, cb) /\ cb[1] # "close" =>
         ~Queued(cb) /\ \A r \in Posters : Posting(r, cb) => r = p

\* The maps and the sockets under a number.
NumberOk(f) ==
  /\ owner[f] # NoConn => owner[f] <= accepted /\ fd[owner[f]] = f
  /\ channels[f] # NoConn => connections[f] = channels[f]
  /\ connections[f] # NoConn => connections[f] = owner[f]
  /\ owner[f] # NoConn /\ connections[f] = NoConn => About(<<"build", owner[f]>>)

NumbersInv == \A f \in Fds : NumberOk(f)

\* The number of a connection that will be built, or finally removed, is its own.
ConnOk(c) ==
  /\ About(<<"build", c>>) => owner[fd[c]] = c /\ connections[fd[c]] = NoConn
  /\ About(<<"final", c>>) \/ c \in deferred =>
       owner[fd[c]] = c /\ connections[fd[c]] = c /\ channels[fd[c]] = NoConn
  /\ ~(About(<<"final", c>>) /\ c \in deferred)

ConnsInv == \A c \in Conns : ConnOk(c)

\* Only the main thread builds.
MainInv == \A w \in Workers, c \in Conns : ~Posting(w, <<"build", c>>)

MapsInv == OnceInv /\ NumbersInv /\ ConnsInv /\ MainInv

LoopInv == TypeOK /\ NoLostWakeup /\ SwapInv /\ MapsInv

-----------------------------------------------------------------------------
(* Sequences *)

\* Appending to the second part appends to the whole.
LEMMA ConcatAppend ==
  ASSUME NEW S, NEW s \in Seq(S), NEW t \in Seq(S), NEW x \in S
  PROVE  s \o t \in Seq(S) /\ s \o Append(t, x) = Append(s \o t, x)
<1>1. <<x>> \in Seq(S) /\ s \o t \in Seq(S)
    BY ConcatProperties
<1>2. s \o Append(t, x) = s \o (t \o <<x>>)
    BY AppendIsConcat
<1>3. s \o (t \o <<x>>) = (s \o t) \o <<x>>
    BY <1>1, ConcatAssociative
<1>4. (s \o t) \o <<x>> = Append(s \o t, x)
    BY <1>1, AppendIsConcat
<1> QED BY <1>1, <1>2, <1>3, <1>4

\* The head of the first part is the head of the whole.
LEMMA ConcatTail ==
  ASSUME NEW S, NEW s \in Seq(S), NEW t \in Seq(S), s # <<>>
  PROVE  /\ s \o t \in Seq(S) /\ s \o t # <<>>
         /\ Head(s \o t) = Head(s) /\ Tail(s \o t) = Tail(s) \o t
<1>1. /\ s \o t \in Seq(S) /\ Len(s \o t) = Len(s) + Len(t)
      /\ \A i \in 1..(Len(s) + Len(t)) :
           (s \o t)[i] = IF i <= Len(s) THEN s[i] ELSE t[i - Len(s)]
    BY ConcatProperties
<1>2. Len(s) \in Nat /\ Len(s) >= 1 /\ Len(t) \in Nat
    OBVIOUS
<1>3. s \o t # <<>>
    BY <1>1, <1>2
<1>4. /\ Tail(s) \in Seq(S) /\ Len(Tail(s)) = Len(s) - 1
      /\ \A i \in 1..Len(Tail(s)) : Tail(s)[i] = s[i + 1]
    BY HeadTailProperties
<1>5. /\ Tail(s \o t) \in Seq(S) /\ Len(Tail(s \o t)) = Len(s) + Len(t) - 1
      /\ \A i \in 1..Len(Tail(s \o t)) : Tail(s \o t)[i] = (s \o t)[i + 1]
    BY <1>1, <1>3, HeadTailProperties
<1>6. /\ Tail(s) \o t \in Seq(S) /\ Len(Tail(s) \o t) = Len(s) - 1 + Len(t)
      /\ \A i \in 1..(Len(s) - 1 + Len(t)) :
           (Tail(s) \o t)[i] = IF i <= Len(s) - 1 THEN Tail(s)[i] ELSE t[i - (Len(s) - 1)]
    BY <1>4, ConcatProperties
<1>7. ASSUME NEW i \in 1..Len(Tail(s \o t)) PROVE Tail(s \o t)[i] = (Tail(s) \o t)[i]
  <2>1. i \in 1..(Len(s) - 1 + Len(t)) /\ i + 1 \in 1..(Len(s) + Len(t))
      BY <1>2, <1>5
  <2>2. CASE i <= Len(s) - 1
    <3>1. (Tail(s) \o t)[i] = s[i + 1]
      <4>1. (Tail(s) \o t)[i] = Tail(s)[i]
          BY <2>1, <2>2, <1>6
      <4>2. i \in 1..Len(Tail(s))
          BY <2>1, <2>2, <1>2, <1>4
      <4> QED BY <4>1, <4>2, <1>4
    <3>2. (s \o t)[i + 1] = s[i + 1]
      <4>1. i + 1 <= Len(s)
          BY <2>1, <2>2, <1>2
      <4> QED BY <4>1, <2>1, <1>1
    <3> QED BY <3>1, <3>2, <1>5
  <2>3. CASE ~(i <= Len(s) - 1)
    <3>1. (Tail(s) \o t)[i] = t[i - (Len(s) - 1)]
        BY <2>1, <2>3, <1>6
    <3>2. (s \o t)[i + 1] = t[(i + 1) - Len(s)]
      <4>1. ~(i + 1 <= Len(s))
          BY <2>1, <2>3, <1>2
      <4> QED BY <4>1, <2>1, <1>1
    <3>3. i - (Len(s) - 1) = (i + 1) - Len(s)
        BY <2>1, <1>2
    <3> QED BY <3>1, <3>2, <3>3, <1>5
  <2> QED BY <2>2, <2>3
<1>8. Len(Tail(s \o t)) = Len(Tail(s) \o t)
    BY <1>2, <1>5, <1>6
<1>9. Tail(s \o t) = Tail(s) \o t
    BY <1>5, <1>6, <1>7, <1>8, SeqEqual
<1>10. Head(s \o t) = Head(s)
    BY <1>1, <1>2, <1>3
<1> QED BY <1>1, <1>3, <1>9, <1>10

\* What the places of a sequence hold after appending to it.
LEMMA PushSeq ==
  ASSUME NEW S, NEW q \in Seq(S), NEW k \in S, NEW r, r = Append(q, k)
  PROVE  /\ Len(q) \in Nat /\ Len(r) = Len(q) + 1
         /\ Len(q) + 1 \in 1..Len(r) /\ r[Len(q) + 1] = k
         /\ \A i \in 1..Len(q) : i \in 1..Len(r) /\ r[i] = q[i]
         /\ \A i \in 1..Len(r) : (i \in 1..Len(q) /\ r[i] = q[i]) \/ (i = Len(q) + 1 /\ r[i] = k)
<1>1. Len(q) \in Nat /\ Len(r) = Len(q) + 1
    OBVIOUS
<1>2. r[Len(q) + 1] = k /\ \A i \in 1..Len(q) : r[i] = q[i]
    OBVIOUS
<1>3. /\ \A i \in 1..Len(r) : i \in 1..Len(q) \/ i = Len(q) + 1
      /\ \A i \in 1..Len(q) : i \in 1..Len(r)
      /\ Len(q) + 1 \in 1..Len(r)
    BY <1>1
<1> QED BY <1>1, <1>2, <1>3

\* What the places of a sequence hold after its head was taken.
LEMMA PopSeq ==
  ASSUME NEW S, NEW q \in Seq(S), q # <<>>, NEW r, r = Tail(q)
  PROVE  /\ Head(q) = q[1] /\ 1 \in 1..Len(q) /\ q[1] \in S
         /\ \A i \in 1..Len(r) : i + 1 \in 1..Len(q) /\ r[i] = q[i + 1]
         /\ \A i \in 1..Len(q) : i = 1 \/ (i - 1 \in 1..Len(r) /\ r[i - 1] = q[i])
<1>1. Len(q) \in Nat /\ Len(q) >= 1 /\ Len(r) = Len(q) - 1
    OBVIOUS
<1>2. Head(q) = q[1] /\ 1 \in 1..Len(q) /\ q[1] \in S
    BY <1>1
<1>3. \A i \in 1..Len(r) : i + 1 \in 1..Len(q) /\ r[i] = q[i + 1]
    BY <1>1
<1>4. \A i \in 1..Len(q) : i = 1 \/ (i - 1 \in 1..Len(r) /\ r[i - 1] = q[i])
    BY <1>1, <1>3
<1> QED BY <1>2, <1>3, <1>4

-----------------------------------------------------------------------------
(* The line of callbacks *)

\* Posting appends to the line.
LEMMA LinePost ==
  ASSUME TypeOK, NEW p \in Posters, Post(p)
  PROVE  Line \in Seq(Callbacks) /\ hand[p] \in Callbacks /\ Line' = Append(Line, hand[p])
<1>1. tasks \in Seq(Callbacks) /\ taskQueue \in Seq(Callbacks) /\ hand[p] \in Callbacks
    BY DEF TypeOK
<1>2. tasks' = tasks /\ taskQueue' = Append(taskQueue, hand[p])
    BY DEF Post, PostBack
<1> QED BY <1>1, <1>2, ConcatAppend DEF Line

\* Running a callback takes the head of the line.
LEMMA LineTake ==
  ASSUME TypeOK, NEW k, TakeCallback(k), taskQueue' = taskQueue
  PROVE  /\ Line \in Seq(Callbacks) /\ Line # <<>> /\ Head(Line) = Head(tasks)
         /\ Line' = Tail(Line) /\ Head(tasks) \in Callbacks
<1>1. tasks \in Seq(Callbacks) /\ taskQueue \in Seq(Callbacks)
    BY DEF TypeOK
<1>2. tasks # <<>> /\ tasks' = Tail(tasks)
    BY DEF TakeCallback
<1>3. Head(tasks) \in Callbacks
    BY <1>1, <1>2
<1> QED BY <1>1, <1>2, <1>3, ConcatTail DEF Line

\* Swapping leaves the line alone.
LEMMA LineSwap ==
  ASSUME TypeOK, SwapInv, SwapTasks
  PROVE  Line' = Line
<1>1. taskQueue \in Seq(Callbacks) /\ tasks = <<>>
    BY DEF TypeOK, SwapInv, SwapTasks
<1>2. tasks' = taskQueue /\ taskQueue' = <<>>
    BY DEF SwapTasks
<1>3. <<>> \o taskQueue = taskQueue /\ taskQueue \o <<>> = taskQueue
    BY <1>1, ConcatEmptySeq
<1> QED BY <1>1, <1>2, <1>3 DEF Line

-----------------------------------------------------------------------------
(* Types, the swap and the wakeups *)

\* What handleClose() does to the maps, and to the numbers.
LEMMA CloseTypes ==
  ASSUME TypeOK, NEW S \in SUBSET Conns, NEW D \in SUBSET S, CloseSet(S, D)
  PROVE  /\ channels' \in [Fds -> 0..MaxConn] /\ connections' \in [Fds -> 0..MaxConn]
         /\ owner' \in [Fds -> 0..MaxConn] /\ deferred' \subseteq Conns
<1>0. 0 \in 0..MaxConn
    BY LoopAssumption
<1>1. channels' \in [Fds -> 0..MaxConn]
    BY <1>0 DEF CloseSet, TypeOK, NoConn
<1>2. connections' \in [Fds -> 0..MaxConn]
    BY <1>0 DEF CloseSet, TypeOK, NoConn
<1>3. owner' \in [Fds -> 0..MaxConn]
    BY <1>0 DEF CloseSet, TypeOK, NoConn
<1> QED BY <1>1, <1>2, <1>3 DEF CloseSet, TypeOK

\* Every step keeps the types.
LEMMA TypeStep ==
  ASSUME LoopInv, [Next]_vars
  PROVE  TypeOK'
<1> USE DEF LoopInv, TypeOK, kernelVars, mapVars, threadVars
<1>a. MaxConn \in Nat /\ MaxClose \in Nat /\ 0 \in 0..MaxConn
    BY LoopAssumption
<1>w. Workers \subseteq Posters /\ "main" \in Posters
    BY DEF Posters
<1>1. ASSUME NEW c \in Conns, SocketFails(c) PROVE TypeOK'
    BY <1>1, <1>a, <1>w DEF SocketFails
<1>2. CASE TimerExpires
    BY <1>2, <1>a, <1>w DEF TimerExpires
<1>3. ASSUME NEW f \in Fds, Accept(f) PROVE TypeOK'
  <2>1. accepted + 1 \in Conns /\ accepted' \in 0..MaxConn
      BY <1>3, <1>a, <1>w DEF Accept, Conns
  <2>2. accepted + 1 \in 0..MaxConn /\ <<"build", accepted + 1>> \in Callbacks
      BY <2>1, <1>a DEF Conns, Callbacks
  <2>3. owner' \in [Fds -> 0..MaxConn]
      BY <1>3, <1>a, <1>w, <2>2 DEF Accept
  <2>4. fd' \in [Conns -> Fds]
      BY <1>3, <1>a, <1>w, <2>1 DEF Accept
  <2>5. hand' \in [Posters -> Callbacks] /\ poster' \in [Posters -> {"idle", "post", "wake"}]
      BY <1>3, <1>a, <1>w, <2>2 DEF Accept
  <2> QED BY <1>3, <1>a, <1>w, <2>1, <2>3, <2>4, <2>5 DEF Accept
<1>4. ASSUME NEW w \in Workers, NEW c \in Conns, CloseFromOutside(w, c) PROVE TypeOK'
  <2>1. <<"close", c>> \in Callbacks
      BY DEF Callbacks
  <2>2. hand' \in [Posters -> Callbacks] /\ poster' \in [Posters -> {"idle", "post", "wake"}]
      BY <1>4, <1>a, <1>w, <2>1 DEF CloseFromOutside
  <2> QED BY <1>4, <1>a, <1>w, <2>2 DEF CloseFromOutside
<1>5. ASSUME NEW w \in Workers, NEW c \in Conns, TaskCompletes(w, c) PROVE TypeOK'
  <2>1. <<"final", c>> \in Callbacks
      BY DEF Callbacks
  <2>2. hand' \in [Posters -> Callbacks] /\ poster' \in [Posters -> {"idle", "post", "wake"}]
      BY <1>5, <1>a, <1>w, <2>1 DEF TaskCompletes
  <2> QED BY <1>5, <1>a, <1>w, <2>2 DEF TaskCompletes
<1>6. ASSUME NEW p \in Posters, Post(p) PROVE TypeOK'
  <2>1. taskQueue' \in Seq(Callbacks)
      BY <1>6, <1>a, <1>w DEF Post, PostBack
  <2>2. poster' \in [Posters -> {"idle", "post", "wake"}]
      BY <1>6, <1>a, <1>w DEF Post
  <2> QED BY <1>6, <1>a, <1>w, <2>1, <2>2 DEF Post
<1>7. ASSUME NEW p \in Posters, WakeUp(p) PROVE TypeOK'
    BY <1>7, <1>a, <1>w DEF WakeUp
<1>8. CASE Stop
    BY <1>8, <1>a, <1>w DEF Stop, StopSignal
<1>9. CASE EpollWait
  <2>1. batch' \subseteq Event
      BY <1>9, <1>a, <1>w DEF EpollWait, Ready, Event
  <2> QED BY <1>9, <1>a, <1>w, <2>1 DEF EpollWait
<1>10. CASE DispatchWakeup
    BY <1>10, <1>a, <1>w DEF DispatchWakeup
<1>11. CASE SwapTasks
  <2>1. tasks' \in Seq(Callbacks) /\ taskQueue' \in Seq(Callbacks)
      BY <1>11, <1>a, <1>w DEF SwapTasks
  <2> QED BY <1>11, <1>a, <1>w, <2>1 DEF SwapTasks
<1>12. CASE RunBuild
  <2>t. /\ tasks' \in Seq(Callbacks) /\ ran' \in Seq(Callbacks)
        /\ Head(tasks) \in Callbacks /\ Head(tasks)[2] \in Conns
    <3>1. Head(tasks) \in Callbacks /\ Tail(tasks) \in Seq(Callbacks)
        BY <1>12, <1>a, <1>w DEF RunBuild, TakeCallback
    <3>2. ran' \in Seq(Callbacks)
        BY <1>12, <1>a, <1>w, <3>1 DEF RunBuild, TakeCallback
    <3>3. Head(tasks)[2] \in Conns
        BY <3>1 DEF Callbacks
    <3> QED BY <1>12, <1>a, <1>w, <3>1, <3>2, <3>3 DEF RunBuild, TakeCallback
  <2>1. Head(tasks)[2] \in 0..MaxConn /\ fd[Head(tasks)[2]] \in Fds
      BY <2>t, <1>a DEF Conns
  <2>2. channels' \in [Fds -> 0..MaxConn] /\ connections' \in [Fds -> 0..MaxConn]
      BY <1>12, <1>a, <1>w, <2>1 DEF RunBuild
  <2> QED BY <1>12, <1>a, <1>w, <2>t, <2>2 DEF RunBuild
<1>13. CASE RunClose
  <2>t. /\ tasks' \in Seq(Callbacks) /\ ran' \in Seq(Callbacks)
        /\ Head(tasks) \in Callbacks /\ Head(tasks)[2] \in Conns
    <3>1. Head(tasks) \in Callbacks /\ Tail(tasks) \in Seq(Callbacks)
        BY <1>13, <1>a, <1>w DEF RunClose, TakeCallback
    <3>2. ran' \in Seq(Callbacks)
        BY <1>13, <1>a, <1>w, <3>1 DEF RunClose, TakeCallback
    <3>3. Head(tasks)[2] \in Conns
        BY <3>1 DEF Callbacks
    <3> QED BY <1>13, <1>a, <1>w, <3>1, <3>2, <3>3 DEF RunClose, TakeCallback
  <2>s. PICK S \in SUBSET Conns : \E D \in SUBSET S : CloseSet(S, D)
      BY <1>13, <1>a, <1>w DEF RunClose, Closable
  <2>1. PICK D \in SUBSET S : CloseSet(S, D)
      BY <2>s
  <2>2. /\ channels' \in [Fds -> 0..MaxConn] /\ connections' \in [Fds -> 0..MaxConn]
        /\ owner' \in [Fds -> 0..MaxConn] /\ deferred' \subseteq Conns
      BY <2>1, CloseTypes
  <2> QED BY <1>13, <1>a, <1>w, <2>t, <2>2 DEF RunClose
<1>14. CASE RunFinal
  <2>t. /\ tasks' \in Seq(Callbacks) /\ ran' \in Seq(Callbacks)
        /\ Head(tasks) \in Callbacks /\ Head(tasks)[2] \in Conns
    <3>1. Head(tasks) \in Callbacks /\ Tail(tasks) \in Seq(Callbacks)
        BY <1>14, <1>a, <1>w DEF RunFinal, TakeCallback
    <3>2. ran' \in Seq(Callbacks)
        BY <1>14, <1>a, <1>w, <3>1 DEF RunFinal, TakeCallback
    <3>3. Head(tasks)[2] \in Conns
        BY <3>1 DEF Callbacks
    <3> QED BY <1>14, <1>a, <1>w, <3>1, <3>2, <3>3 DEF RunFinal, TakeCallback
  <2>1. fd[Head(tasks)[2]] \in Fds
      BY <2>t
  <2>2. connections' \in [Fds -> 0..MaxConn] /\ owner' \in [Fds -> 0..MaxConn]
      BY <1>14, <1>a, <1>w, <2>1 DEF RunFinal, FdReleased, NoConn
  <2> QED BY <1>14, <1>a, <1>w, <2>t, <2>2 DEF RunFinal
<1>15. CASE RunDone
    BY <1>15, <1>a, <1>w DEF RunDone, CounterAfterTasks
<1>16. CASE DispatchTimer
  <2>s. PICK S \in SUBSET Conns : \E D \in SUBSET S : CloseSet(S, D)
      BY <1>16, <1>a, <1>w DEF DispatchTimer, Closable
  <2>1. PICK D \in SUBSET S : CloseSet(S, D)
      BY <2>s
  <2>2. /\ channels' \in [Fds -> 0..MaxConn] /\ connections' \in [Fds -> 0..MaxConn]
        /\ owner' \in [Fds -> 0..MaxConn] /\ deferred' \subseteq Conns
      BY <2>1, CloseTypes
  <2> QED BY <1>16, <1>a, <1>w, <2>2 DEF DispatchTimer
<1>17. ASSUME NEW f \in Fds, DispatchError(f) PROVE TypeOK'
  <2>s. PICK S \in SUBSET Conns : \E D \in SUBSET S : CloseSet(S, D)
      BY <1>17, <1>a, <1>w DEF DispatchError, Closable
  <2>1. PICK D \in SUBSET S : CloseSet(S, D)
      BY <2>s
  <2>2. /\ channels' \in [Fds -> 0..MaxConn] /\ connections' \in [Fds -> 0..MaxConn]
        /\ owner' \in [Fds -> 0..MaxConn] /\ deferred' \subseteq Conns
      BY <2>1, CloseTypes
  <2>3. wrongly' \subseteq Conns
      BY <1>17, <1>a, <1>w DEF DispatchError, Closable
  <2> QED BY <1>17, <1>a, <1>w, <2>2, <2>3 DEF DispatchError
<1>18. CASE EndOfBatch
    BY <1>18, <1>a, <1>w DEF EndOfBatch
<1>19. CASE Idle
    BY <1>19, <1>a, <1>w DEF Idle, vars
<1>20. CASE UNCHANGED vars
    BY <1>20, <1>a, <1>w DEF vars
<1> QED
    BY <1>1, <1>2, <1>3, <1>4, <1>5, <1>6, <1>7, <1>8, <1>9, <1>10, <1>11,
       <1>12, <1>13, <1>14, <1>15, <1>16, <1>17, <1>18, <1>19, <1>20
    DEF Next, LoopStep, PosterStep

\* Every step keeps the swapped callbacks to the loop that runs them.
LEMMA SwapStep ==
  ASSUME LoopInv, [Next]_vars
  PROVE  SwapInv'
<1> USE DEF LoopInv, SwapInv, kernelVars, mapVars, threadVars
<1>1. ASSUME NEW c \in Conns, SocketFails(c) PROVE SwapInv'
    BY <1>1 DEF SocketFails
<1>2. CASE TimerExpires
    BY <1>2 DEF TimerExpires
<1>3. ASSUME NEW f \in Fds, Accept(f) PROVE SwapInv'
    BY <1>3 DEF Accept
<1>4. ASSUME NEW w \in Workers, NEW c \in Conns, CloseFromOutside(w, c) PROVE SwapInv'
    BY <1>4 DEF CloseFromOutside
<1>5. ASSUME NEW w \in Workers, NEW c \in Conns, TaskCompletes(w, c) PROVE SwapInv'
    BY <1>5 DEF TaskCompletes
<1>6. ASSUME NEW p \in Posters, Post(p) PROVE SwapInv'
    BY <1>6 DEF Post, PostBack
<1>7. ASSUME NEW p \in Posters, WakeUp(p) PROVE SwapInv'
    BY <1>7 DEF WakeUp
<1>8. CASE Stop
    BY <1>8 DEF Stop, StopSignal
<1>9. CASE EpollWait
    BY <1>9 DEF EpollWait
<1>10. CASE DispatchWakeup
    BY <1>10 DEF DispatchWakeup
<1>11. CASE SwapTasks
    BY <1>11 DEF SwapTasks
<1>12. CASE RunBuild
    BY <1>12 DEF RunBuild, TakeCallback
<1>13. CASE RunClose
    BY <1>13 DEF RunClose, TakeCallback
<1>14. CASE RunFinal
    BY <1>14 DEF RunFinal, TakeCallback, FdReleased
<1>15. CASE RunDone
    BY <1>15 DEF RunDone, CounterAfterTasks
<1>16. CASE DispatchTimer
    BY <1>16 DEF DispatchTimer
<1>17. ASSUME NEW f \in Fds, DispatchError(f) PROVE SwapInv'
    BY <1>17 DEF DispatchError
<1>18. CASE EndOfBatch
    BY <1>18 DEF EndOfBatch
<1>19. CASE Idle
    BY <1>19 DEF Idle, vars
<1>20. CASE UNCHANGED vars
    BY <1>20 DEF vars
<1> QED
    BY <1>1, <1>2, <1>3, <1>4, <1>5, <1>6, <1>7, <1>8, <1>9, <1>10, <1>11,
       <1>12, <1>13, <1>14, <1>15, <1>16, <1>17, <1>18, <1>19, <1>20
    DEF Next, LoopStep, PosterStep

\* Every step keeps a wakeup for what is queued.
LEMMA WakeStep ==
  ASSUME LoopInv, [Next]_vars
  PROVE  NoLostWakeup'
<1> USE DEF LoopInv, NoLostWakeup, kernelVars, mapVars, threadVars
<1>t. poster \in [Posters -> {"idle", "post", "wake"}]
    BY DEF TypeOK
<1>w. Workers \subseteq Posters /\ "main" \in Posters
    BY DEF Posters
<1>1. ASSUME NEW c \in Conns, SocketFails(c) PROVE NoLostWakeup'
    BY <1>1, <1>t, <1>w DEF SocketFails
<1>2. CASE TimerExpires
    BY <1>2, <1>t, <1>w DEF TimerExpires
<1>3. ASSUME NEW f \in Fds, Accept(f) PROVE NoLostWakeup'
    BY <1>3, <1>t, <1>w DEF Accept
<1>4. ASSUME NEW w \in Workers, NEW c \in Conns, CloseFromOutside(w, c) PROVE NoLostWakeup'
    BY <1>4, <1>t, <1>w DEF CloseFromOutside
<1>5. ASSUME NEW w \in Workers, NEW c \in Conns, TaskCompletes(w, c) PROVE NoLostWakeup'
    BY <1>5, <1>t, <1>w DEF TaskCompletes
<1>6. ASSUME NEW p \in Posters, Post(p) PROVE NoLostWakeup'
    BY <1>6, <1>t, <1>w DEF Post, PostBack
<1>7. ASSUME NEW p \in Posters, WakeUp(p) PROVE NoLostWakeup'
    BY <1>7, <1>t, <1>w DEF WakeUp
<1>8. CASE Stop
    BY <1>8, <1>t, <1>w DEF Stop, StopSignal
<1>9. CASE EpollWait
    BY <1>9, <1>t, <1>w DEF EpollWait
<1>10. CASE DispatchWakeup
    BY <1>10, <1>t, <1>w DEF DispatchWakeup
<1>11. CASE SwapTasks
    BY <1>11, <1>t, <1>w DEF SwapTasks
<1>12. CASE RunBuild
    BY <1>12, <1>t, <1>w DEF RunBuild, TakeCallback
<1>13. CASE RunClose
    BY <1>13, <1>t, <1>w DEF RunClose, TakeCallback
<1>14. CASE RunFinal
    BY <1>14, <1>t, <1>w DEF RunFinal, TakeCallback, FdReleased
<1>15. CASE RunDone
    BY <1>15, <1>t, <1>w DEF RunDone, CounterAfterTasks
<1>16. CASE DispatchTimer
    BY <1>16, <1>t, <1>w DEF DispatchTimer
<1>17. ASSUME NEW f \in Fds, DispatchError(f) PROVE NoLostWakeup'
    BY <1>17, <1>t, <1>w DEF DispatchError
<1>18. CASE EndOfBatch
    BY <1>18, <1>t, <1>w DEF EndOfBatch
<1>19. CASE Idle
    BY <1>19, <1>t, <1>w DEF Idle, vars
<1>20. CASE UNCHANGED vars
    BY <1>20, <1>t, <1>w DEF vars
<1> QED
    BY <1>1, <1>2, <1>3, <1>4, <1>5, <1>6, <1>7, <1>8, <1>9, <1>10, <1>11,
       <1>12, <1>13, <1>14, <1>15, <1>16, <1>17, <1>18, <1>19, <1>20
    DEF Next, LoopStep, PosterStep

-----------------------------------------------------------------------------
(* What is about *)

\* Nothing is about more or less when the line and the posting threads stay.
LEMMA AboutSame ==
  ASSUME OnceInv, Line' = Line,
         \A p \in Posters, cb \in Callbacks : Posting(p, cb)' <=> Posting(p, cb)
  PROVE  OnceInv' /\ \A cb \in Callbacks : About(cb)' <=> About(cb)
<1>1. \A cb \in Callbacks : Queued(cb)' <=> Queued(cb)
    BY DEF Queued
<1>2. \A cb \in Callbacks : About(cb)' <=> About(cb)
    BY <1>1 DEF About
<1>3. \A i, j \in 1..Len(Line') : Line'[i] = Line'[j] /\ Line'[i][1] # "close" => i = j
    BY DEF OnceInv
<1>4. \A p \in Posters, cb \in Callbacks :
        Posting(p, cb)' /\ cb[1] # "close" =>
          ~Queued(cb)' /\ \A r \in Posters : Posting(r, cb)' => r = p
    BY <1>1 DEF OnceInv
<1> QED BY <1>2, <1>3, <1>4 DEF OnceInv

\* A callback that is posted was about already.
LEMMA AboutPost ==
  ASSUME TypeOK, OnceInv, NEW p \in Posters, Post(p)
  PROVE  OnceInv' /\ \A cb \in Callbacks : About(cb)' <=> About(cb)
<1>1. Line \in Seq(Callbacks) /\ hand[p] \in Callbacks /\ Line' = Append(Line, hand[p])
    BY LinePost
<1> DEFINE n == Len(Line)
<1>2. /\ n \in Nat /\ Len(Line') = n + 1 /\ n + 1 \in 1..Len(Line') /\ Line'[n + 1] = hand[p]
      /\ \A i \in 1..n : i \in 1..Len(Line') /\ Line'[i] = Line[i]
      /\ \A i \in 1..Len(Line') :
           (i \in 1..n /\ Line'[i] = Line[i]) \/ (i = n + 1 /\ Line'[i] = hand[p])
    BY <1>1, PushSeq
<1>3. \A cb \in Callbacks : Queued(cb)' <=> Queued(cb) \/ cb = hand[p]
    BY <1>2 DEF Queued
<1>4. poster \in [Posters -> {"idle", "post", "wake"}] /\ poster[p] = "post"
      /\ poster' = [poster EXCEPT ![p] = "wake"] /\ hand' = hand
    BY DEF TypeOK, Post
<1>5. \A r \in Posters, cb \in Callbacks : Posting(r, cb)' <=> Posting(r, cb) /\ r # p
    BY <1>4 DEF Posting
<1>6. \A cb \in Callbacks : Posting(p, cb) <=> cb = hand[p]
    BY <1>4 DEF Posting
<1>7. \A cb \in Callbacks : About(cb)' <=> About(cb)
    BY <1>3, <1>5, <1>6 DEF About
<1>8. hand[p][1] # "close" => ~Queued(hand[p])
    BY <1>1, <1>6 DEF OnceInv
<1>9. ASSUME NEW i \in 1..Len(Line'), NEW j \in 1..Len(Line'),
             Line'[i] = Line'[j], Line'[i][1] # "close"
      PROVE  i = j
  <2>1. CASE i = n + 1 /\ j = n + 1
      BY <2>1
  <2>2. CASE i \in 1..n /\ j \in 1..n
    <3>1. Line'[i] = Line[i] /\ Line'[j] = Line[j]
        BY <2>2, <1>2
    <3> QED BY <2>2, <3>1, <1>9 DEF OnceInv
  <2>3. CASE i \in 1..n /\ j = n + 1
    <3>1. Line[i] = hand[p] /\ hand[p][1] # "close"
        BY <2>3, <1>2, <1>9
    <3> QED BY <2>3, <3>1, <1>8 DEF Queued
  <2>4. CASE j \in 1..n /\ i = n + 1
    <3>1. Line[j] = hand[p] /\ hand[p][1] # "close"
        BY <2>4, <1>2, <1>9
    <3> QED BY <2>4, <3>1, <1>8 DEF Queued
  <2> QED BY <2>1, <2>2, <2>3, <2>4, <1>2
<1>10. ASSUME NEW q \in Posters, NEW cb \in Callbacks, Posting(q, cb)', cb[1] # "close"
       PROVE  ~Queued(cb)' /\ \A r \in Posters : Posting(r, cb)' => r = q
  <2>1. Posting(q, cb) /\ q # p
      BY <1>5, <1>10
  <2>2. ~Queued(cb) /\ \A r \in Posters : Posting(r, cb) => r = q
      BY <2>1, <1>10 DEF OnceInv
  <2>3. cb # hand[p]
      BY <2>1, <2>2, <1>6
  <2> QED BY <2>2, <2>3, <1>3, <1>5
<1> QED BY <1>7, <1>9, <1>10 DEF OnceInv

\* An idle thread takes a callback in hand that is not about.
LEMMA AboutHand ==
  ASSUME TypeOK, OnceInv, NEW p \in Posters, NEW k \in Callbacks,
         poster[p] = "idle", k[1] # "close" => ~About(k),
         hand' = [hand EXCEPT ![p] = k], poster' = [poster EXCEPT ![p] = "post"],
         tasks' = tasks, taskQueue' = taskQueue
  PROVE  /\ OnceInv' /\ \A cb \in Callbacks : About(cb)' <=> About(cb) \/ cb = k
         /\ \A r \in Posters, cb \in Callbacks :
              Posting(r, cb)' <=> Posting(r, cb) \/ (r = p /\ cb = k)
<1>1. Line' = Line
    BY DEF Line
<1>2. \A cb \in Callbacks : Queued(cb)' <=> Queued(cb)
    BY <1>1 DEF Queued
<1>3. poster \in [Posters -> {"idle", "post", "wake"}] /\ hand \in [Posters -> Callbacks]
    BY DEF TypeOK
<1>4. \A r \in Posters, cb \in Callbacks :
        Posting(r, cb)' <=> Posting(r, cb) \/ (r = p /\ cb = k)
    BY <1>3 DEF Posting
<1>5. \A cb \in Callbacks : About(cb)' <=> About(cb) \/ cb = k
    BY <1>2, <1>4 DEF About
<1>6. \A i, j \in 1..Len(Line') : Line'[i] = Line'[j] /\ Line'[i][1] # "close" => i = j
    BY <1>1 DEF OnceInv
<1>7. ASSUME NEW q \in Posters, NEW cb \in Callbacks, Posting(q, cb)', cb[1] # "close"
      PROVE  ~Queued(cb)' /\ \A r \in Posters : Posting(r, cb)' => r = q
  <2>1. CASE cb = k
    <3>1. ~Queued(k) /\ \A r \in Posters : ~Posting(r, k)
        BY <2>1, <1>7 DEF About
    <3> QED BY <3>1, <2>1, <1>2, <1>4, <1>7
  <2>2. CASE cb # k
    <3>1. Posting(q, cb)
        BY <2>2, <1>4, <1>7
    <3>2. ~Queued(cb) /\ \A r \in Posters : Posting(r, cb) => r = q
        BY <3>1, <1>7 DEF OnceInv
    <3> QED BY <3>2, <2>2, <1>2, <1>4
  <2> QED BY <2>1, <2>2
<1> QED BY <1>4, <1>5, <1>6, <1>7 DEF OnceInv

\* A callback that is taken was about, and unless it is a close is about no more.
LEMMA AboutTake ==
  ASSUME TypeOK, OnceInv, NEW kind, TakeCallback(kind), taskQueue' = taskQueue,
         poster' = poster, hand' = hand
  PROVE  /\ OnceInv' /\ Head(tasks) \in Callbacks /\ About(Head(tasks))
         /\ \A cb \in Callbacks :
              cb[1] # "close" => (About(cb)' <=> About(cb) /\ cb # Head(tasks))
<1>1. /\ Line \in Seq(Callbacks) /\ Line # <<>> /\ Head(Line) = Head(tasks)
      /\ Line' = Tail(Line) /\ Head(tasks) \in Callbacks
    BY LineTake
<1>2. /\ Head(Line) = Line[1] /\ 1 \in 1..Len(Line)
      /\ \A i \in 1..Len(Line') : i + 1 \in 1..Len(Line) /\ Line'[i] = Line[i + 1]
      /\ \A i \in 1..Len(Line) : i = 1 \/ (i - 1 \in 1..Len(Line') /\ Line'[i - 1] = Line[i])
    BY <1>1, PopSeq
<1>3. Queued(Head(tasks))
    BY <1>1, <1>2 DEF Queued
<1>4. \A p \in Posters, cb \in Callbacks : Posting(p, cb)' <=> Posting(p, cb)
    BY DEF Posting
<1>5. ASSUME NEW i \in 1..Len(Line'), NEW j \in 1..Len(Line'),
             Line'[i] = Line'[j], Line'[i][1] # "close"
      PROVE  i = j
  <2>1. /\ i + 1 \in 1..Len(Line) /\ Line'[i] = Line[i + 1]
        /\ j + 1 \in 1..Len(Line) /\ Line'[j] = Line[j + 1]
      BY <1>2
  <2>2. i + 1 = j + 1
      BY <2>1, <1>5 DEF OnceInv
  <2> QED BY <2>2
<1>6. ASSUME NEW cb \in Callbacks, cb[1] # "close"
      PROVE  Queued(cb)' <=> Queued(cb) /\ cb # Head(tasks)
  <2>1. ASSUME Queued(cb)' PROVE Queued(cb) /\ cb # Head(tasks)
    <3>1. PICK i \in 1..Len(Line') : Line'[i] = cb
        BY <2>1 DEF Queued
    <3>2. i + 1 \in 1..Len(Line) /\ Line[i + 1] = cb
        BY <3>1, <1>2
    <3>3. ASSUME cb = Head(tasks) PROVE FALSE
      <4>1. Line[1] = Line[i + 1] /\ Line[1][1] # "close"
          BY <3>2, <3>3, <1>1, <1>2, <1>6
      <4>2. 1 = i + 1
          BY <4>1, <3>2, <1>2 DEF OnceInv
      <4> QED BY <4>2
    <3> QED BY <3>2, <3>3 DEF Queued
  <2>2. ASSUME Queued(cb), cb # Head(tasks) PROVE Queued(cb)'
    <3>1. PICK i \in 1..Len(Line) : Line[i] = cb
        BY <2>2 DEF Queued
    <3>2. i - 1 \in 1..Len(Line') /\ Line'[i - 1] = cb
        BY <3>1, <2>2, <1>1, <1>2
    <3> QED BY <3>2 DEF Queued
  <2> QED BY <2>1, <2>2
<1>7. ASSUME NEW q \in Posters, NEW cb \in Callbacks, Posting(q, cb)', cb[1] # "close"
      PROVE  ~Queued(cb)' /\ \A r \in Posters : Posting(r, cb)' => r = q
  <2>1. Posting(q, cb)
      BY <1>4, <1>7
  <2>2. ~Queued(cb) /\ \A r \in Posters : Posting(r, cb) => r = q
      BY <2>1, <1>7 DEF OnceInv
  <2> QED BY <2>2, <1>4, <1>6, <1>7
<1>8. ASSUME NEW cb \in Callbacks, cb[1] # "close"
      PROVE  About(cb)' <=> About(cb) /\ cb # Head(tasks)
  <2>1. Queued(cb)' <=> Queued(cb) /\ cb # Head(tasks)
      BY <1>6, <1>8
  <2>2. ASSUME NEW q \in Posters, Posting(q, cb) PROVE cb # Head(tasks)
      BY <2>2, <1>3, <1>8 DEF OnceInv
  <2> QED BY <2>1, <2>2, <1>4 DEF About
<1>9. About(Head(tasks))
    BY <1>3 DEF About
<1> QED BY <1>1, <1>5, <1>7, <1>8, <1>9 DEF OnceInv

-----------------------------------------------------------------------------
(* The maps *)

\* Nothing that the maps depend on changes.
LEMMA MapsKept ==
  ASSUME TypeOK, NumbersInv, ConnsInv,
         UNCHANGED <<owner, channels, connections, fd, deferred, accepted>>,
         \A cb \in Callbacks : cb[1] # "close" => (About(cb)' <=> About(cb))
  PROVE  NumbersInv' /\ ConnsInv'
<1>c. \A c \in Conns : /\ <<"build", c>> \in Callbacks /\ <<"final", c>> \in Callbacks
                       /\ <<"build", c>>[1] # "close" /\ <<"final", c>>[1] # "close"
    BY DEF Callbacks
<1>t. /\ owner \in [Fds -> 0..MaxConn] /\ channels \in [Fds -> 0..MaxConn]
      /\ connections \in [Fds -> 0..MaxConn] /\ fd \in [Conns -> Fds] /\ deferred \subseteq Conns
      /\ accepted \in 0..MaxConn /\ MaxConn \in Nat /\ Conns = 1..MaxConn
    BY LoopAssumption DEF TypeOK, Conns
<1>1. \A c \in Conns : /\ About(<<"build", c>>)' <=> About(<<"build", c>>)
                       /\ About(<<"final", c>>)' <=> About(<<"final", c>>)
    BY <1>c
<1>2. ASSUME NEW f \in Fds PROVE NumberOk(f)'
  <2>1. NumberOk(f)
      BY DEF NumbersInv
  <2>2. owner[f] # NoConn => owner[f] \in Conns
      BY <1>t DEF NoConn
  <2>3. owner[f] # NoConn => (About(<<"build", owner[f]>>)' <=> About(<<"build", owner[f]>>))
    <3> DEFINE o == owner[f]
    <3>1. ASSUME o # NoConn PROVE About(<<"build", o>>)' <=> About(<<"build", o>>)
        BY <3>1, <2>2, <1>1
    <3> QED BY <3>1
  <2> QED BY <2>1, <2>2, <2>3 DEF NumberOk
<1>3. ASSUME NEW c \in Conns PROVE ConnOk(c)'
  <2>1. ConnOk(c)
      BY DEF ConnsInv
  <2> QED BY <2>1, <1>1 DEF ConnOk
<1> QED BY <1>2, <1>3 DEF NumbersInv, ConnsInv

\* handleClose() of connections in channels_: their numbers are theirs, and those
\* with a task keep them.
LEMMA MapsClosed ==
  ASSUME TypeOK, NumbersInv, ConnsInv, NEW S \in SUBSET Closable, NEW D \in SUBSET S,
         CloseSet(S, D), UNCHANGED <<fd, accepted>>,
         \A cb \in Callbacks : cb[1] # "close" => (About(cb)' <=> About(cb))
  PROVE  NumbersInv' /\ ConnsInv'
<1>c. \A c \in Conns : /\ <<"build", c>> \in Callbacks /\ <<"final", c>> \in Callbacks
                       /\ <<"build", c>>[1] # "close" /\ <<"final", c>>[1] # "close"
    BY DEF Callbacks
<1>t. /\ owner \in [Fds -> 0..MaxConn] /\ channels \in [Fds -> 0..MaxConn]
      /\ connections \in [Fds -> 0..MaxConn] /\ fd \in [Conns -> Fds] /\ deferred \subseteq Conns
      /\ accepted \in 0..MaxConn /\ MaxConn \in Nat /\ Conns = 1..MaxConn
    BY LoopAssumption DEF TypeOK, Conns
<1>1. \A c \in Conns : /\ About(<<"build", c>>)' <=> About(<<"build", c>>)
                       /\ About(<<"final", c>>)' <=> About(<<"final", c>>)
    BY <1>c
<1> DEFINE Shut(f) == \E c \in S : fd[c] = f
           Gone(f) == \E c \in S \ D : fd[c] = f
<1>2. \A c \in S : c \in Conns /\ channels[fd[c]] = c
    BY DEF Closable
<1>3. \A f \in Fds : /\ Gone(f) => Shut(f)
                     /\ Shut(f) => channels[f] \in S
                     /\ Gone(f) => channels[f] \in S \ D
    BY <1>2
<1>4. \A f \in Fds : /\ channels'[f] = (IF Shut(f) THEN NoConn ELSE channels[f])
                     /\ connections'[f] = (IF Gone(f) THEN NoConn ELSE connections[f])
                     /\ owner'[f] = (IF Gone(f) THEN NoConn ELSE owner[f])
    BY DEF CloseSet
<1>5. deferred' = deferred \cup D /\ D \subseteq Conns
    BY <1>2 DEF CloseSet
<1>6. ASSUME NEW f \in Fds PROVE NumberOk(f)'
  <2>1. NumberOk(f)
      BY DEF NumbersInv
  <2>2. CASE Gone(f)
    <3>1. owner'[f] = NoConn /\ connections'[f] = NoConn /\ channels'[f] = NoConn
        BY <2>2, <1>3, <1>4
    <3> QED BY <3>1 DEF NumberOk
  <2>3. CASE ~Gone(f)
    <3>1. /\ owner'[f] = owner[f] /\ connections'[f] = connections[f]
          /\ channels'[f] \in {NoConn, channels[f]}
        BY <2>3, <1>4
    <3>2. owner[f] # NoConn => owner[f] \in Conns
        BY <1>t DEF NoConn
    <3>3. ASSUME owner[f] # NoConn, connections[f] = NoConn
          PROVE  About(<<"build", owner[f]>>)'
      <4>1. PICK o \in Conns : o = owner[f]
          BY <3>2, <3>3
      <4>2. About(<<"build", o>>)'
          BY <4>1, <3>3, <2>1, <1>1 DEF NumberOk
      <4> QED BY <4>1, <4>2, <3>1
    <3> QED BY <3>1, <3>3, <2>1 DEF NumberOk
  <2> QED BY <2>2, <2>3
<1>7. ASSUME NEW c \in Conns PROVE ConnOk(c)'
  <2>1. ConnOk(c) /\ fd[c] \in Fds /\ NumberOk(fd[c]) /\ c # NoConn /\ fd'[c] = fd[c]
      BY <1>t DEF ConnsInv, NumbersInv, NoConn
  <2>2. channels[fd[c]] = NoConn => ~Shut(fd[c]) /\ ~Gone(fd[c])
      BY <2>1, <1>2, <1>3, <1>t DEF NoConn
  <2>3. connections[fd[c]] = NoConn => channels[fd[c]] = NoConn
      BY <2>1 DEF NumberOk
  <2>4. ASSUME About(<<"build", c>>)'
        PROVE  owner'[fd'[c]] = c /\ connections'[fd'[c]] = NoConn
    <3>1. owner[fd[c]] = c /\ connections[fd[c]] = NoConn
        BY <2>4, <2>1, <1>1 DEF ConnOk
    <3> QED BY <3>1, <2>1, <2>2, <2>3, <1>4
  <2>5. ASSUME About(<<"final", c>>)' \/ c \in deferred
        PROVE  /\ owner'[fd'[c]] = c /\ connections'[fd'[c]] = c
               /\ channels'[fd'[c]] = NoConn
    <3>1. owner[fd[c]] = c /\ connections[fd[c]] = c /\ channels[fd[c]] = NoConn
        BY <2>5, <2>1, <1>1 DEF ConnOk
    <3> QED BY <3>1, <2>1, <2>2, <1>4
  <2>6. ASSUME c \in D
        PROVE  /\ owner'[fd'[c]] = c /\ connections'[fd'[c]] = c
               /\ channels'[fd'[c]] = NoConn /\ ~About(<<"final", c>>)'
    <3>1. channels[fd[c]] = c
        BY <2>6, <1>2
    <3>2. connections[fd[c]] = c /\ owner[fd[c]] = c
        BY <3>1, <2>1 DEF NumberOk
    <3>3. Shut(fd[c]) /\ ~Gone(fd[c])
        BY <3>1, <2>1, <2>6, <1>3
    <3>4. ~About(<<"final", c>>)
        BY <3>1, <2>1 DEF ConnOk
    <3> QED BY <3>2, <3>3, <3>4, <2>1, <1>1, <1>4
  <2>7. ~(About(<<"final", c>>)' /\ c \in deferred)
      BY <2>1, <1>1 DEF ConnOk
  <2> QED BY <2>4, <2>5, <2>6, <2>7, <1>5 DEF ConnOk
<1> QED BY <1>6, <1>7 DEF NumbersInv, ConnsInv

\* accept4() gives a number that neither map knows.
LEMMA MapsAccept ==
  ASSUME TypeOK, NumbersInv, ConnsInv, NEW g \in Fds, Accept(g),
         \A cb \in Callbacks :
           About(cb)' <=> About(cb) \/ cb = <<"build", accepted + 1>>
  PROVE  NumbersInv' /\ ConnsInv'
<1>c. \A c \in Conns : /\ <<"build", c>> \in Callbacks /\ <<"final", c>> \in Callbacks
                       /\ <<"build", c>>[1] # "close" /\ <<"final", c>>[1] # "close"
    BY DEF Callbacks
<1>t. /\ owner \in [Fds -> 0..MaxConn] /\ channels \in [Fds -> 0..MaxConn]
      /\ connections \in [Fds -> 0..MaxConn] /\ fd \in [Conns -> Fds] /\ deferred \subseteq Conns
      /\ accepted \in 0..MaxConn /\ MaxConn \in Nat /\ Conns = 1..MaxConn
    BY LoopAssumption DEF TypeOK, Conns
<1>n. PICK n \in Conns : n = accepted + 1
    BY <1>t DEF Accept
<1>1. \A c \in Conns : /\ About(<<"build", c>>)' <=> About(<<"build", c>>) \/ c = n
                       /\ About(<<"final", c>>)' <=> About(<<"final", c>>)
    BY <1>c, <1>n
<1>2. /\ accepted' = n /\ owner[g] = NoConn /\ n # NoConn
      /\ channels' = channels /\ connections' = connections /\ deferred' = deferred
      /\ \A f \in Fds : owner'[f] = IF f = g THEN n ELSE owner[f]
      /\ \A c \in Conns : fd'[c] = IF c = n THEN g ELSE fd[c]
    BY <1>n, <1>t DEF Accept, NoConn
<1>3. connections[g] = NoConn /\ channels[g] = NoConn
  <2>1. NumberOk(g)
      BY DEF NumbersInv
  <2> QED BY <2>1, <1>2 DEF NumberOk
<1>4. ASSUME NEW f \in Fds PROVE NumberOk(f)'
  <2>1. NumberOk(f)
      BY DEF NumbersInv
  <2>2. CASE f = g
    <3>1. owner'[f] = n /\ fd'[n] = f
        BY <2>2, <1>2
    <3>2. n <= accepted'
        BY <1>2, <1>t
    <3>3. About(<<"build", n>>)'
        BY <1>1
    <3> QED BY <3>1, <3>2, <3>3, <2>2, <1>2, <1>3 DEF NumberOk
  <2>3. CASE f # g
    <3>1. owner'[f] = owner[f]
        BY <2>3, <1>2
    <3>2. ASSUME owner[f] # NoConn
          PROVE  owner'[f] <= accepted' /\ fd'[owner'[f]] = f
      <4>1. owner[f] \in Conns /\ owner[f] <= accepted /\ fd[owner[f]] = f
          BY <3>2, <2>1, <1>t DEF NumberOk, NoConn
      <4>2. owner[f] # n /\ owner[f] <= n
          BY <4>1, <1>n, <1>t
      <4> QED BY <4>1, <4>2, <3>1, <1>2
    <3>3. ASSUME owner[f] # NoConn, connections[f] = NoConn
          PROVE  About(<<"build", owner[f]>>)'
      <4>1. PICK o \in Conns : o = owner[f]
          BY <3>3, <1>t DEF NoConn
      <4>2. About(<<"build", o>>)'
          BY <4>1, <3>3, <2>1, <1>1 DEF NumberOk
      <4> QED BY <4>1, <4>2, <3>1
    <3> QED BY <3>1, <3>2, <3>3, <2>1, <1>2 DEF NumberOk
  <2> QED BY <2>2, <2>3
<1>5. ASSUME NEW c \in Conns PROVE ConnOk(c)'
  <2>1. ConnOk(c) /\ fd[c] \in Fds /\ NumberOk(fd[c]) /\ c # NoConn
      BY <1>t DEF ConnsInv, NumbersInv, NoConn
  <2>2. owner[fd[c]] = c => c # n /\ fd[c] # g
      BY <2>1, <1>2, <1>n, <1>t DEF NumberOk, NoConn
  <2>3. ASSUME About(<<"build", c>>)'
        PROVE  owner'[fd'[c]] = c /\ connections'[fd'[c]] = NoConn
    <3>1. CASE c = n
        BY <3>1, <1>2, <1>3
    <3>2. CASE c # n
      <4>1. owner[fd[c]] = c /\ connections[fd[c]] = NoConn
          BY <3>2, <2>3, <2>1, <1>1 DEF ConnOk
      <4> QED BY <4>1, <2>1, <2>2, <1>2
    <3> QED BY <3>1, <3>2
  <2>4. ASSUME About(<<"final", c>>)' \/ c \in deferred
        PROVE  /\ owner'[fd'[c]] = c /\ connections'[fd'[c]] = c
               /\ channels'[fd'[c]] = NoConn
    <3>1. owner[fd[c]] = c /\ connections[fd[c]] = c /\ channels[fd[c]] = NoConn
        BY <2>4, <2>1, <1>1 DEF ConnOk
    <3> QED BY <3>1, <2>1, <2>2, <1>2
  <2>5. ~(About(<<"final", c>>)' /\ c \in deferred)
      BY <2>1, <1>1 DEF ConnOk
  <2> QED BY <2>3, <2>4, <2>5, <1>2 DEF ConnOk
<1> QED BY <1>4, <1>5 DEF NumbersInv, ConnsInv

\* The last task of a deferred close turns into its final callback.
LEMMA MapsTask ==
  ASSUME TypeOK, NumbersInv, ConnsInv, NEW w \in Workers, NEW d \in Conns,
         TaskCompletes(w, d),
         \A cb \in Callbacks : About(cb)' <=> About(cb) \/ cb = <<"final", d>>
  PROVE  NumbersInv' /\ ConnsInv'
<1>c. \A c \in Conns : /\ <<"build", c>> \in Callbacks /\ <<"final", c>> \in Callbacks
                       /\ <<"build", c>>[1] # "close" /\ <<"final", c>>[1] # "close"
    BY DEF Callbacks
<1>t. /\ owner \in [Fds -> 0..MaxConn] /\ channels \in [Fds -> 0..MaxConn]
      /\ connections \in [Fds -> 0..MaxConn] /\ fd \in [Conns -> Fds] /\ deferred \subseteq Conns
      /\ accepted \in 0..MaxConn /\ MaxConn \in Nat /\ Conns = 1..MaxConn
    BY LoopAssumption DEF TypeOK, Conns
<1>1. \A c \in Conns : /\ About(<<"build", c>>)' <=> About(<<"build", c>>)
                       /\ About(<<"final", c>>)' <=> About(<<"final", c>>) \/ c = d
    BY <1>c
<1>2. /\ UNCHANGED <<owner, channels, connections, fd, accepted>>
      /\ deferred' = deferred \ {d} /\ d \in deferred
    BY DEF TaskCompletes, kernelVars
<1>3. ASSUME NEW f \in Fds PROVE NumberOk(f)'
  <2>1. NumberOk(f)
      BY DEF NumbersInv
  <2>2. ASSUME owner[f] # NoConn, connections[f] = NoConn
        PROVE  About(<<"build", owner[f]>>)'
    <3>1. PICK o \in Conns : o = owner[f]
        BY <2>2, <1>t DEF NoConn
    <3>2. About(<<"build", o>>)'
        BY <3>1, <2>2, <2>1, <1>1 DEF NumberOk
    <3> QED BY <3>1, <3>2, <1>2
  <2> QED BY <2>1, <2>2, <1>2 DEF NumberOk
<1>4. ASSUME NEW c \in Conns PROVE ConnOk(c)'
  <2>1. ConnOk(c)
      BY DEF ConnsInv
  <2> QED BY <2>1, <1>1, <1>2 DEF ConnOk
<1> QED BY <1>3, <1>4 DEF NumbersInv, ConnsInv

\* The build callback puts a connection in the maps, under a number that is its own.
LEMMA MapsBuild ==
  ASSUME TypeOK, NumbersInv, ConnsInv, RunBuild, About(Head(tasks)),
         Head(tasks) \in Callbacks,
         \A cb \in Callbacks :
           cb[1] # "close" => (About(cb)' <=> About(cb) /\ cb # Head(tasks))
  PROVE  NumbersInv' /\ ConnsInv'
<1>c. \A c \in Conns : /\ <<"build", c>> \in Callbacks /\ <<"final", c>> \in Callbacks
                       /\ <<"build", c>>[1] # "close" /\ <<"final", c>>[1] # "close"
    BY DEF Callbacks
<1>t. /\ owner \in [Fds -> 0..MaxConn] /\ channels \in [Fds -> 0..MaxConn]
      /\ connections \in [Fds -> 0..MaxConn] /\ fd \in [Conns -> Fds] /\ deferred \subseteq Conns
      /\ accepted \in 0..MaxConn /\ MaxConn \in Nat /\ Conns = 1..MaxConn
    BY LoopAssumption DEF TypeOK, Conns
<1>n. PICK n \in Conns : Head(tasks) = <<"build", n>>
    BY DEF RunBuild, TakeCallback, Callbacks
<1>1. \A c \in Conns : /\ About(<<"build", c>>)' <=> About(<<"build", c>>) /\ c # n
                       /\ About(<<"final", c>>)' <=> About(<<"final", c>>)
  <2>1. ASSUME NEW c \in Conns
        PROVE  About(<<"build", c>>)' <=> About(<<"build", c>>) /\ c # n
    <3>1. <<"build", c>> = Head(tasks) <=> c = n
        BY <1>n
    <3> QED BY <3>1, <1>c
  <2>2. ASSUME NEW c \in Conns
        PROVE  About(<<"final", c>>)' <=> About(<<"final", c>>)
    <3>1. <<"final", c>> # Head(tasks)
        BY <1>n
    <3> QED BY <3>1, <1>c
  <2> QED BY <2>1, <2>2
<1>g. PICK g \in Fds : g = fd[n]
    BY <1>t
<1>2. /\ UNCHANGED <<owner, deferred, fd, accepted>>
      /\ \A f \in Fds : channels'[f] = IF f = g THEN n ELSE channels[f]
      /\ \A f \in Fds : connections'[f] = IF f = g THEN n ELSE connections[f]
    BY <1>n, <1>g, <1>t DEF RunBuild, kernelVars, threadVars
<1>3. owner[g] = n /\ connections[g] = NoConn /\ n # NoConn
  <2>1. ConnOk(n) /\ About(<<"build", n>>)
      BY <1>n DEF ConnsInv
  <2> QED BY <2>1, <1>g, <1>t DEF ConnOk, NoConn
<1>4. ASSUME NEW f \in Fds PROVE NumberOk(f)'
  <2>1. NumberOk(f)
      BY DEF NumbersInv
  <2>2. CASE f = g
      BY <2>1, <2>2, <1>2, <1>3 DEF NumberOk
  <2>3. CASE f # g
    <3>1. channels'[f] = channels[f] /\ connections'[f] = connections[f]
        BY <2>3, <1>2
    <3>2. ASSUME owner[f] # NoConn, connections[f] = NoConn
          PROVE  About(<<"build", owner[f]>>)'
      <4>1. PICK o \in Conns : o = owner[f]
          BY <3>2, <1>t DEF NoConn
      <4>2. o # n
          BY <4>1, <3>2, <2>1, <2>3, <1>g DEF NumberOk
      <4>3. About(<<"build", o>>)'
          BY <4>1, <4>2, <3>2, <2>1, <1>1 DEF NumberOk
      <4> QED BY <4>1, <4>3, <1>2
    <3> QED BY <3>1, <3>2, <2>1, <1>2 DEF NumberOk
  <2> QED BY <2>2, <2>3
<1>5. ASSUME NEW c \in Conns PROVE ConnOk(c)'
  <2>1. ConnOk(c) /\ fd[c] \in Fds /\ c # NoConn /\ fd'[c] = fd[c]
      BY <1>2, <1>t DEF ConnsInv, NoConn
  <2>2. ASSUME About(<<"build", c>>)'
        PROVE  owner'[fd'[c]] = c /\ connections'[fd'[c]] = NoConn
    <3>1. owner[fd[c]] = c /\ connections[fd[c]] = NoConn /\ c # n
        BY <2>2, <2>1, <1>1 DEF ConnOk
    <3>2. fd[c] # g
        BY <3>1, <1>3
    <3> QED BY <3>1, <3>2, <2>1, <1>2
  <2>3. ASSUME About(<<"final", c>>)' \/ c \in deferred
        PROVE  /\ owner'[fd'[c]] = c /\ connections'[fd'[c]] = c
               /\ channels'[fd'[c]] = NoConn
    <3>1. owner[fd[c]] = c /\ connections[fd[c]] = c /\ channels[fd[c]] = NoConn
        BY <2>3, <2>1, <1>1 DEF ConnOk
    <3>2. fd[c] # g
        BY <3>1, <2>1, <1>3
    <3> QED BY <3>1, <3>2, <2>1, <1>2
  <2>4. ~(About(<<"final", c>>)' /\ c \in deferred)
      BY <2>1, <1>1 DEF ConnOk
  <2> QED BY <2>2, <2>3, <2>4, <1>2 DEF ConnOk
<1> QED BY <1>4, <1>5 DEF NumbersInv, ConnsInv

\* The final callback removes a connection whose number is still its own.
LEMMA MapsFinal ==
  ASSUME TypeOK, NumbersInv, ConnsInv, RunFinal, About(Head(tasks)),
         Head(tasks) \in Callbacks,
         \A cb \in Callbacks :
           cb[1] # "close" => (About(cb)' <=> About(cb) /\ cb # Head(tasks))
  PROVE  NumbersInv' /\ ConnsInv'
<1>c. \A c \in Conns : /\ <<"build", c>> \in Callbacks /\ <<"final", c>> \in Callbacks
                       /\ <<"build", c>>[1] # "close" /\ <<"final", c>>[1] # "close"
    BY DEF Callbacks
<1>t. /\ owner \in [Fds -> 0..MaxConn] /\ channels \in [Fds -> 0..MaxConn]
      /\ connections \in [Fds -> 0..MaxConn] /\ fd \in [Conns -> Fds] /\ deferred \subseteq Conns
      /\ accepted \in 0..MaxConn /\ MaxConn \in Nat /\ Conns = 1..MaxConn
    BY LoopAssumption DEF TypeOK, Conns
<1>n. PICK n \in Conns : Head(tasks) = <<"final", n>>
    BY DEF RunFinal, TakeCallback, Callbacks
<1>1. \A c \in Conns : /\ About(<<"build", c>>)' <=> About(<<"build", c>>)
                       /\ About(<<"final", c>>)' <=> About(<<"final", c>>) /\ c # n
  <2>1. ASSUME NEW c \in Conns
        PROVE  About(<<"final", c>>)' <=> About(<<"final", c>>) /\ c # n
    <3>1. <<"final", c>> = Head(tasks) <=> c = n
        BY <1>n
    <3> QED BY <3>1, <1>c
  <2>2. ASSUME NEW c \in Conns
        PROVE  About(<<"build", c>>)' <=> About(<<"build", c>>)
    <3>1. <<"build", c>> # Head(tasks)
        BY <1>n
    <3> QED BY <3>1, <1>c
  <2> QED BY <2>1, <2>2
<1>g. PICK g \in Fds : g = fd[n]
    BY <1>t
<1>2. /\ UNCHANGED <<channels, deferred, fd, accepted>>
      /\ \A f \in Fds : owner'[f] = IF f = g THEN NoConn ELSE owner[f]
      /\ \A f \in Fds : connections'[f] = IF f = g THEN NoConn ELSE connections[f]
    BY <1>n, <1>g, <1>t DEF RunFinal, FdReleased, threadVars
<1>3. /\ owner[g] = n /\ connections[g] = n /\ channels[g] = NoConn
      /\ n # NoConn /\ n \notin deferred
  <2>1. ConnOk(n) /\ About(<<"final", n>>)
      BY <1>n DEF ConnsInv
  <2> QED BY <2>1, <1>g, <1>t DEF ConnOk, NoConn
<1>4. ASSUME NEW f \in Fds PROVE NumberOk(f)'
  <2>1. NumberOk(f)
      BY DEF NumbersInv
  <2>2. CASE f = g
      BY <2>1, <2>2, <1>2, <1>3 DEF NumberOk
  <2>3. CASE f # g
    <3>1. owner'[f] = owner[f] /\ connections'[f] = connections[f]
        BY <2>3, <1>2
    <3>2. ASSUME owner[f] # NoConn, connections[f] = NoConn
          PROVE  About(<<"build", owner[f]>>)'
      <4>1. PICK o \in Conns : o = owner[f]
          BY <3>2, <1>t DEF NoConn
      <4>2. About(<<"build", o>>)'
          BY <4>1, <3>2, <2>1, <1>1 DEF NumberOk
      <4> QED BY <4>1, <4>2, <3>1
    <3> QED BY <3>1, <3>2, <2>1, <1>2 DEF NumberOk
  <2> QED BY <2>2, <2>3
<1>5. ASSUME NEW c \in Conns PROVE ConnOk(c)'
  <2>1. ConnOk(c) /\ fd[c] \in Fds /\ c # NoConn /\ fd'[c] = fd[c]
      BY <1>2, <1>t DEF ConnsInv, NoConn
  <2>2. ASSUME About(<<"build", c>>)'
        PROVE  owner'[fd'[c]] = c /\ connections'[fd'[c]] = NoConn
    <3>1. owner[fd[c]] = c /\ connections[fd[c]] = NoConn
        BY <2>2, <2>1, <1>1 DEF ConnOk
    <3>2. fd[c] # g
        BY <3>1, <1>3
    <3> QED BY <3>1, <3>2, <2>1, <1>2
  <2>3. ASSUME About(<<"final", c>>)' \/ c \in deferred
        PROVE  /\ owner'[fd'[c]] = c /\ connections'[fd'[c]] = c
               /\ channels'[fd'[c]] = NoConn
    <3>1. owner[fd[c]] = c /\ connections[fd[c]] = c /\ channels[fd[c]] = NoConn /\ c # n
        BY <2>3, <2>1, <1>1, <1>3 DEF ConnOk
    <3>2. fd[c] # g
        BY <3>1, <1>3
    <3> QED BY <3>1, <3>2, <2>1, <1>2
  <2>4. ~(About(<<"final", c>>)' /\ c \in deferred)
      BY <2>1, <1>1 DEF ConnOk
  <2> QED BY <2>2, <2>3, <2>4, <1>2 DEF ConnOk
<1> QED BY <1>4, <1>5 DEF NumbersInv, ConnsInv

-----------------------------------------------------------------------------
(* The steps *)

\* Steps that leave the line, the posting threads and the maps alone.
LEMMA QuietStep ==
  ASSUME LoopInv, Line' = Line,
         UNCHANGED <<hand, owner, channels, connections, fd, deferred, accepted>>,
         \A p \in Posters : (poster'[p] = "post") <=> (poster[p] = "post")
  PROVE  MapsInv'
<1>1. \A p \in Posters, cb \in Callbacks : Posting(p, cb)' <=> Posting(p, cb)
    BY DEF Posting
<1>2. OnceInv' /\ \A cb \in Callbacks : About(cb)' <=> About(cb)
    BY <1>1, AboutSame DEF LoopInv, MapsInv
<1>3. NumbersInv' /\ ConnsInv'
    BY <1>2, MapsKept DEF LoopInv, MapsInv
<1>4. MainInv'
  <2>1. \A c \in Conns : <<"build", c>> \in Callbacks
      BY DEF Callbacks
  <2> QED BY <2>1, <1>1 DEF LoopInv, MapsInv, MainInv, Posters
<1> QED BY <1>2, <1>3, <1>4 DEF MapsInv

\* Steps of the loop that close connections.
LEMMA ClosingStep ==
  ASSUME LoopInv, OnceInv', UNCHANGED <<hand, poster, fd, accepted>>,
         \A cb \in Callbacks : cb[1] # "close" => (About(cb)' <=> About(cb)),
         \E S \in SUBSET Closable : \E D \in SUBSET S : CloseSet(S, D)
  PROVE  MapsInv'
<1>1. PICK S \in SUBSET Closable : \E D \in SUBSET S : CloseSet(S, D)
    OBVIOUS
<1>2. PICK D \in SUBSET S : CloseSet(S, D)
    BY <1>1
<1>3. NumbersInv' /\ ConnsInv'
    BY <1>2, MapsClosed DEF LoopInv, MapsInv
<1>4. MainInv'
    BY DEF LoopInv, MapsInv, MainInv, Posting
<1> QED BY <1>3, <1>4 DEF MapsInv

\* A thread of the pool or the main thread takes a callback in hand.
LEMMA MainHand ==
  ASSUME MainInv, NEW p \in Posters, NEW k \in Callbacks, k[1] = "build" => p = "main",
         \A r \in Posters, cb \in Callbacks :
           Posting(r, cb)' <=> Posting(r, cb) \/ (r = p /\ cb = k)
  PROVE  MainInv'
<1>1. ASSUME NEW w \in Workers, NEW c \in Conns PROVE ~Posting(w, <<"build", c>>)'
  <2>1. w \in Posters /\ <<"build", c>> \in Callbacks /\ w # "main"
      BY LoopAssumption DEF Posters, Callbacks
  <2>2. ~(w = p /\ <<"build", c>> = k)
      BY <2>1
  <2> QED BY <2>1, <2>2 DEF MainInv
<1> QED BY <1>1 DEF MainInv

\* Every step keeps the maps, and what is about, in order.
LEMMA MapsStep ==
  ASSUME LoopInv, [Next]_vars
  PROVE  MapsInv'
<1> USE DEF kernelVars, mapVars, threadVars
<1>t. accepted \in Nat /\ MaxConn \in Nat
    BY LoopAssumption DEF LoopInv, TypeOK
<1>p. poster \in [Posters -> {"idle", "post", "wake"}]
    BY DEF LoopInv, TypeOK
<1>w. Workers \subseteq Posters /\ "main" \in Posters
    BY DEF Posters
<1>1. ASSUME NEW c \in Conns, SocketFails(c) PROVE MapsInv'
  <2>1. Line' = Line
      BY <1>1, <1>t, <1>p, <1>w DEF SocketFails, Line
  <2>2. UNCHANGED <<hand, poster, owner, channels, connections, fd, deferred, accepted>>
      BY <1>1, <1>t, <1>p, <1>w DEF SocketFails
  <2> QED BY <2>1, <2>2, QuietStep
<1>2. CASE TimerExpires
  <2>1. Line' = Line
      BY <1>2, <1>t, <1>p, <1>w DEF TimerExpires, Line
  <2>2. UNCHANGED <<hand, poster, owner, channels, connections, fd, deferred, accepted>>
      BY <1>2, <1>t, <1>p, <1>w DEF TimerExpires
  <2> QED BY <2>1, <2>2, QuietStep
<1>3. ASSUME NEW f \in Fds, Accept(f) PROVE MapsInv'
  <2>1. PICK k \in Callbacks : k = <<"build", accepted + 1>>
    <3>1. accepted + 1 \in Conns
        BY <1>3, <1>t, <1>p, <1>w DEF Accept, Conns, LoopInv, TypeOK
    <3> QED BY <3>1 DEF Callbacks
  <2>2. ~About(k)
    <3>1. PICK n \in Conns : n = accepted + 1
        BY <1>3, <1>t, <1>p, <1>w DEF Accept, Conns, LoopInv, TypeOK
    <3>2. ConnOk(n) /\ fd[n] \in Fds
        BY DEF LoopInv, MapsInv, ConnsInv, TypeOK
    <3>3. NumberOk(fd[n])
        BY <3>2 DEF LoopInv, MapsInv, NumbersInv
    <3>4. owner[fd[n]] # n
      <4>1. ~(n <= accepted) /\ n # NoConn
          BY <3>1, <1>t DEF LoopInv, TypeOK, NoConn, Conns
      <4> QED BY <4>1, <3>3 DEF NumberOk
    <3> QED BY <2>1, <3>1, <3>2, <3>4 DEF ConnOk
  <2>3. /\ OnceInv' /\ \A cb \in Callbacks : About(cb)' <=> About(cb) \/ cb = k
        /\ \A r \in Posters, cb \in Callbacks :
             Posting(r, cb)' <=> Posting(r, cb) \/ (r = "main" /\ cb = k)
      BY <1>3, <1>t, <1>p, <1>w, <2>1, <2>2, AboutHand DEF LoopInv, MapsInv, Accept
  <2>4. \A cb \in Callbacks : About(cb)' <=> About(cb) \/ cb = <<"build", accepted + 1>>
      BY <2>1, <2>3
  <2>5. NumbersInv' /\ ConnsInv'
      BY <1>3, <1>t, <1>p, <1>w, <2>4, MapsAccept DEF LoopInv, MapsInv
  <2>6. MainInv'
      BY <1>3, <1>t, <1>p, <1>w, <2>3, MainHand DEF LoopInv, MapsInv
  <2> QED BY <2>3, <2>5, <2>6 DEF MapsInv
<1>4. ASSUME NEW w \in Workers, NEW c \in Conns, CloseFromOutside(w, c) PROVE MapsInv'
  <2>1. PICK k \in Callbacks : k = <<"close", c>> /\ k[1] = "close"
    <3>1. <<"close", c>> \in Callbacks /\ <<"close", c>>[1] = "close"
        BY DEF Callbacks
    <3> QED BY <3>1
  <2>2. w \in Posters
      BY <1>4, <1>t, <1>p, <1>w
  <2>3. /\ OnceInv' /\ \A cb \in Callbacks : About(cb)' <=> About(cb) \/ cb = k
        /\ \A r \in Posters, cb \in Callbacks :
             Posting(r, cb)' <=> Posting(r, cb) \/ (r = w /\ cb = k)
      BY <1>4, <1>t, <1>p, <1>w, <2>1, <2>2, AboutHand DEF LoopInv, MapsInv, CloseFromOutside
  <2>4. \A cb \in Callbacks : cb[1] # "close" => (About(cb)' <=> About(cb))
      BY <2>1, <2>3
  <2>5. UNCHANGED <<owner, channels, connections, fd, deferred, accepted>>
      BY <1>4, <1>t, <1>p, <1>w DEF CloseFromOutside
  <2>6. NumbersInv' /\ ConnsInv'
      BY <2>4, <2>5, MapsKept DEF LoopInv, MapsInv
  <2>7. MainInv'
      BY <2>1, <2>2, <2>3, MainHand DEF LoopInv, MapsInv
  <2> QED BY <2>3, <2>6, <2>7 DEF MapsInv
<1>5. ASSUME NEW w \in Workers, NEW c \in Conns, TaskCompletes(w, c) PROVE MapsInv'
  <2>1. PICK k \in Callbacks : k = <<"final", c>> /\ k[1] = "final"
    <3>1. <<"final", c>> \in Callbacks /\ <<"final", c>>[1] = "final"
        BY DEF Callbacks
    <3> QED BY <3>1
  <2>2. w \in Posters
      BY <1>5, <1>t, <1>p, <1>w
  <2>3. ~About(k)
    <3>1. ConnOk(c) /\ c \in deferred
        BY <1>5, <1>t, <1>p, <1>w DEF LoopInv, MapsInv, ConnsInv, TaskCompletes
    <3> QED BY <2>1, <3>1 DEF ConnOk
  <2>4. /\ OnceInv' /\ \A cb \in Callbacks : About(cb)' <=> About(cb) \/ cb = k
        /\ \A r \in Posters, cb \in Callbacks :
             Posting(r, cb)' <=> Posting(r, cb) \/ (r = w /\ cb = k)
      BY <1>5, <1>t, <1>p, <1>w, <2>1, <2>2, <2>3, AboutHand DEF LoopInv, MapsInv, TaskCompletes
  <2>5. \A cb \in Callbacks : About(cb)' <=> About(cb) \/ cb = <<"final", c>>
      BY <2>1, <2>4
  <2>6. NumbersInv' /\ ConnsInv'
      BY <1>5, <1>t, <1>p, <1>w, <2>5, MapsTask DEF LoopInv, MapsInv
  <2>7. MainInv'
      BY <2>1, <2>2, <2>4, MainHand DEF LoopInv, MapsInv
  <2> QED BY <2>4, <2>6, <2>7 DEF MapsInv
<1>6. ASSUME NEW p \in Posters, Post(p) PROVE MapsInv'
  <2>1. OnceInv' /\ \A cb \in Callbacks : About(cb)' <=> About(cb)
      BY <1>6, <1>t, <1>p, <1>w, AboutPost DEF LoopInv, MapsInv
  <2>2. UNCHANGED <<hand, owner, channels, connections, fd, deferred, accepted>>
      BY <1>6, <1>t, <1>p, <1>w DEF Post
  <2>3. NumbersInv' /\ ConnsInv'
      BY <2>1, <2>2, MapsKept DEF LoopInv, MapsInv
  <2>4. \A r \in Posters : (poster'[r] = "post") => (poster[r] = "post")
      BY <1>6, <1>t, <1>p, <1>w DEF Post
  <2>5. MainInv'
      BY <1>6, <1>t, <1>p, <1>w, <2>2, <2>4 DEF LoopInv, MapsInv, MainInv, Posting
  <2> QED BY <2>1, <2>3, <2>5 DEF MapsInv
<1>7. ASSUME NEW p \in Posters, WakeUp(p) PROVE MapsInv'
  <2>1. Line' = Line
      BY <1>7, <1>t, <1>p, <1>w DEF WakeUp, Line
  <2>2. UNCHANGED <<hand, owner, channels, connections, fd, deferred, accepted>>
      BY <1>7, <1>t, <1>p, <1>w DEF WakeUp
  <2>3. \A r \in Posters : (poster'[r] = "post") <=> (poster[r] = "post")
      BY <1>7, <1>t, <1>p, <1>w DEF WakeUp
  <2> QED BY <2>1, <2>2, <2>3, QuietStep
<1>8. CASE Stop
  <2>1. Line' = Line
      BY <1>8, <1>t, <1>p, <1>w DEF Stop, Line
  <2>2. UNCHANGED <<hand, poster, owner, channels, connections, fd, deferred, accepted>>
      BY <1>8, <1>t, <1>p, <1>w DEF Stop
  <2> QED BY <2>1, <2>2, QuietStep
<1>9. CASE EpollWait
  <2>1. Line' = Line
      BY <1>9, <1>t, <1>p, <1>w DEF EpollWait, Line
  <2>2. UNCHANGED <<hand, poster, owner, channels, connections, fd, deferred, accepted>>
      BY <1>9, <1>t, <1>p, <1>w DEF EpollWait
  <2> QED BY <2>1, <2>2, QuietStep
<1>10. CASE DispatchWakeup
  <2>1. Line' = Line
      BY <1>10, <1>t, <1>p, <1>w DEF DispatchWakeup, Line
  <2>2. UNCHANGED <<hand, poster, owner, channels, connections, fd, deferred, accepted>>
      BY <1>10, <1>t, <1>p, <1>w DEF DispatchWakeup
  <2> QED BY <2>1, <2>2, QuietStep
<1>11. CASE SwapTasks
  <2>1. Line' = Line
      BY <1>11, <1>t, <1>p, <1>w, LineSwap DEF LoopInv
  <2>2. UNCHANGED <<hand, poster, owner, channels, connections, fd, deferred, accepted>>
      BY <1>11, <1>t, <1>p, <1>w DEF SwapTasks
  <2> QED BY <2>1, <2>2, QuietStep
<1>12. CASE RunBuild
  <2>1. PICK kind : TakeCallback(kind) /\ kind = "build"
      BY <1>12, <1>t, <1>p, <1>w DEF RunBuild
  <2>2. taskQueue' = taskQueue /\ poster' = poster /\ hand' = hand
      BY <1>12, <1>t, <1>p, <1>w DEF RunBuild
  <2>3. /\ OnceInv' /\ Head(tasks) \in Callbacks /\ About(Head(tasks))
        /\ \A cb \in Callbacks :
             cb[1] # "close" => (About(cb)' <=> About(cb) /\ cb # Head(tasks))
      BY <2>1, <2>2, AboutTake DEF LoopInv, MapsInv
  <2>4. NumbersInv' /\ ConnsInv'
      BY <1>12, <1>t, <1>p, <1>w, <2>3, MapsBuild DEF LoopInv, MapsInv
  <2>5. MainInv'
      BY <2>2 DEF LoopInv, MapsInv, MainInv, Posting
  <2> QED BY <2>3, <2>4, <2>5 DEF MapsInv
<1>13. CASE RunClose
  <2>1. PICK kind : TakeCallback(kind) /\ kind = "close"
      BY <1>13, <1>t, <1>p, <1>w DEF RunClose
  <2>2. taskQueue' = taskQueue /\ poster' = poster /\ hand' = hand
      BY <1>13, <1>t, <1>p, <1>w DEF RunClose
  <2>3. /\ OnceInv' /\ Head(tasks) \in Callbacks /\ About(Head(tasks))
        /\ \A cb \in Callbacks :
             cb[1] # "close" => (About(cb)' <=> About(cb) /\ cb # Head(tasks))
      BY <2>1, <2>2, AboutTake DEF LoopInv, MapsInv
  <2>4. \A cb \in Callbacks : cb[1] # "close" => (About(cb)' <=> About(cb))
    <3>1. Head(tasks)[1] = "close"
        BY <2>1 DEF TakeCallback
    <3> QED BY <3>1, <2>3
  <2>5. \E S \in SUBSET Closable : \E D \in SUBSET S : CloseSet(S, D)
      BY <1>13, <1>t, <1>p, <1>w DEF RunClose
  <2>6. UNCHANGED <<hand, poster, fd, accepted>>
      BY <1>13, <1>t, <1>p, <1>w DEF RunClose
  <2> QED BY <2>3, <2>4, <2>5, <2>6, ClosingStep
<1>14. CASE RunFinal
  <2>1. PICK kind : TakeCallback(kind) /\ kind = "final"
      BY <1>14, <1>t, <1>p, <1>w DEF RunFinal
  <2>2. taskQueue' = taskQueue /\ poster' = poster /\ hand' = hand
      BY <1>14, <1>t, <1>p, <1>w DEF RunFinal
  <2>3. /\ OnceInv' /\ Head(tasks) \in Callbacks /\ About(Head(tasks))
        /\ \A cb \in Callbacks :
             cb[1] # "close" => (About(cb)' <=> About(cb) /\ cb # Head(tasks))
      BY <2>1, <2>2, AboutTake DEF LoopInv, MapsInv
  <2>4. NumbersInv' /\ ConnsInv'
      BY <1>14, <1>t, <1>p, <1>w, <2>3, MapsFinal DEF LoopInv, MapsInv
  <2>5. MainInv'
      BY <2>2 DEF LoopInv, MapsInv, MainInv, Posting
  <2> QED BY <2>3, <2>4, <2>5 DEF MapsInv
<1>15. CASE RunDone
  <2>1. Line' = Line
      BY <1>15, <1>t, <1>p, <1>w DEF RunDone, Line
  <2>2. UNCHANGED <<hand, poster, owner, channels, connections, fd, deferred, accepted>>
      BY <1>15, <1>t, <1>p, <1>w DEF RunDone
  <2> QED BY <2>1, <2>2, QuietStep
<1>16. CASE DispatchTimer
  <2>1. Line' = Line /\ UNCHANGED <<hand, poster, fd, accepted>>
      BY <1>16, <1>t, <1>p, <1>w DEF DispatchTimer, Line
  <2>2. \A p \in Posters, cb \in Callbacks : Posting(p, cb)' <=> Posting(p, cb)
      BY <2>1 DEF Posting
  <2>3. OnceInv' /\ \A cb \in Callbacks : About(cb)' <=> About(cb)
      BY <2>1, <2>2, AboutSame DEF LoopInv, MapsInv
  <2>4. \E S \in SUBSET Closable : \E D \in SUBSET S : CloseSet(S, D)
      BY <1>16, <1>t, <1>p, <1>w DEF DispatchTimer
  <2> QED BY <2>1, <2>3, <2>4, ClosingStep
<1>17. ASSUME NEW f \in Fds, DispatchError(f) PROVE MapsInv'
  <2>1. Line' = Line /\ UNCHANGED <<hand, poster, fd, accepted>>
      BY <1>17, <1>t, <1>p, <1>w DEF DispatchError, Line
  <2>2. \A p \in Posters, cb \in Callbacks : Posting(p, cb)' <=> Posting(p, cb)
      BY <2>1 DEF Posting
  <2>3. OnceInv' /\ \A cb \in Callbacks : About(cb)' <=> About(cb)
      BY <2>1, <2>2, AboutSame DEF LoopInv, MapsInv
  <2>4. \E S \in SUBSET Closable : \E D \in SUBSET S : CloseSet(S, D)
      BY <1>17, <1>t, <1>p, <1>w DEF DispatchError
  <2> QED BY <2>1, <2>3, <2>4, ClosingStep
<1>18. CASE EndOfBatch
  <2>1. Line' = Line
      BY <1>18, <1>t, <1>p, <1>w DEF EndOfBatch, Line
  <2>2. UNCHANGED <<hand, poster, owner, channels, connections, fd, deferred, accepted>>
      BY <1>18, <1>t, <1>p, <1>w DEF EndOfBatch
  <2> QED BY <2>1, <2>2, QuietStep
<1>19. CASE Idle
  <2>1. Line' = Line
      BY <1>19, <1>t, <1>p, <1>w DEF Idle, vars, Line
  <2>2. UNCHANGED <<hand, poster, owner, channels, connections, fd, deferred, accepted>>
      BY <1>19, <1>t, <1>p, <1>w DEF Idle, vars
  <2> QED BY <2>1, <2>2, QuietStep
<1>20. CASE UNCHANGED vars
  <2>1. Line' = Line
      BY <1>20, <1>t, <1>p, <1>w DEF vars, Line
  <2>2. UNCHANGED <<hand, poster, owner, channels, connections, fd, deferred, accepted>>
      BY <1>20, <1>t, <1>p, <1>w DEF vars
  <2> QED BY <2>1, <2>2, QuietStep
<1> QED
    BY <1>1, <1>2, <1>3, <1>4, <1>5, <1>6, <1>7, <1>8, <1>9, <1>10, <1>11,
       <1>12, <1>13, <1>14, <1>15, <1>16, <1>17, <1>18, <1>19, <1>20
    DEF Next, LoopStep, PosterStep

\* Before the first step nothing is about and the maps are empty.
LEMMA LoopInit ==
  ASSUME Init
  PROVE  LoopInv
<1>a. MaxConn \in Nat /\ MaxClose \in Nat /\ 1 \in Conns /\ 0 \in 0..MaxConn
    BY LoopAssumption DEF Conns
<1>1. TypeOK
  <2>1. <<"close", 1>> \in Callbacks
      BY <1>a DEF Callbacks
  <2>2. hand \in [Posters -> Callbacks] /\ poster \in [Posters -> {"idle", "post", "wake"}]
      BY <2>1 DEF Init
  <2>3. fd \in [Conns -> Fds]
      BY DEF Init
  <2>4. /\ owner \in [Fds -> 0..MaxConn] /\ channels \in [Fds -> 0..MaxConn]
        /\ connections \in [Fds -> 0..MaxConn]
      BY <1>a DEF Init, NoConn
  <2>5. taskQueue \in Seq(Callbacks) /\ tasks \in Seq(Callbacks) /\ ran \in Seq(Callbacks)
      BY DEF Init
  <2>6. /\ failed \subseteq Conns /\ deferred \subseteq Conns /\ wrongly \subseteq Conns
        /\ signalled \in BOOLEAN /\ expired \in BOOLEAN /\ stop \in BOOLEAN
        /\ place \in {"wait", "dispatch", "swap", "run", "exited"} /\ batch \subseteq Event
      BY DEF Init
  <2>7. accepted \in 0..MaxConn /\ closes \in 0..MaxClose
      BY <1>a DEF Init
  <2> QED BY <2>2, <2>3, <2>4, <2>5, <2>6, <2>7 DEF TypeOK
<1>2. NoLostWakeup /\ SwapInv
    BY DEF Init, NoLostWakeup, SwapInv
<1>3. Line = <<>> /\ Len(Line) = 0
  <2>1. <<>> \o <<>> = <<>>
      OBVIOUS
  <2> QED BY <2>1 DEF Init, Line
<1>4. \A cb : ~Queued(cb)
    BY <1>3 DEF Queued
<1>5. \A p \in Posters, cb \in Callbacks : ~Posting(p, cb)
    BY DEF Init, Posting
<1>6. \A c \in Conns : <<"build", c>> \in Callbacks /\ <<"final", c>> \in Callbacks
    BY DEF Callbacks
<1>7. \A cb \in Callbacks : ~About(cb)
    BY <1>4, <1>5 DEF About
<1>8. OnceInv
    BY <1>3, <1>5 DEF OnceInv
<1>9. NumbersInv
    BY DEF Init, NumbersInv, NumberOk
<1>10. ConnsInv
    BY <1>6, <1>7 DEF Init, ConnsInv, ConnOk
<1>11. MainInv
    BY <1>5, <1>6 DEF MainInv, Posters
<1> QED BY <1>1, <1>2, <1>8, <1>9, <1>10, <1>11 DEF LoopInv, MapsInv

-----------------------------------------------------------------------------
(* The theorems *)

\* The invariant of one event loop, whatever the number of descriptors, workers,
\* connections and closes.
THEOREM LoopInvariance == Spec => []LoopInv
<1>1. LoopInv /\ [Next]_vars => LoopInv'
  <2>1. ASSUME LoopInv, [Next]_vars PROVE LoopInv'
    <3>1. TypeOK'
        BY <2>1, TypeStep
    <3>2. SwapInv'
        BY <2>1, SwapStep
    <3>3. NoLostWakeup'
        BY <2>1, WakeStep
    <3>4. MapsInv'
        BY <2>1, MapsStep
    <3> QED BY <3>1, <3>2, <3>3, <3>4 DEF LoopInv
  <2> QED BY <2>1
<1> QED BY <1>1, LoopInit, PTL DEF Spec

\* runInLoop() and loop(): a loop that is about to sleep, or asleep, with a callback
\* in its queue will be woken, because the eventfd is read before the queue is taken.
THEOREM NoLostWakeupHolds == Spec => []NoLostWakeup
<1>1. LoopInv => NoLostWakeup
    BY DEF LoopInv
<1> QED BY <1>1, LoopInvariance, PTL

\* removeConnection(): the maps never point at another connection's socket, although
\* the kernel gives a closed number to the next connection at once, and an open
\* socket is never left out of them.
THEOREM MapsMatchHolds == Spec => []MapsMatchSockets
<1>1. ASSUME LoopInv PROVE MapsMatchSockets
  <2>1. TypeOK /\ NumbersInv /\ MainInv
      BY <1>1 DEF LoopInv, MapsInv
  <2>2. ASSUME NEW f \in Fds, owner[f] # NoConn, connections[f] = NoConn
        PROVE  LET cb == <<"build", owner[f]>> IN
                 \/ \E i \in 1..Len(tasks \o taskQueue) : (tasks \o taskQueue)[i] = cb
                 \/ poster["main"] = "post" /\ hand["main"] = cb
    <3>1. owner[f] \in Conns
        BY <2>1, <2>2, LoopAssumption DEF TypeOK, NoConn, Conns
    <3>2. About(<<"build", owner[f]>>)
        BY <2>1, <2>2 DEF NumbersInv, NumberOk
    <3>3. ASSUME NEW p \in Posters, Posting(p, <<"build", owner[f]>>) PROVE p = "main"
        BY <2>1, <3>1, <3>3 DEF MainInv, Posters
    <3>4. Queued(<<"build", owner[f]>>) \/ Posting("main", <<"build", owner[f]>>)
        BY <3>2, <3>3 DEF About
    <3> QED BY <3>4 DEF Queued, Line, Posting
  <2>3. NoLeak
      BY <2>2 DEF NoLeak
  <2>4. \A f \in Fds : /\ channels[f] # NoConn => channels[f] = owner[f]
                       /\ connections[f] # NoConn => connections[f] = owner[f]
                       /\ channels[f] # NoConn => connections[f] = channels[f]
      BY <2>1 DEF NumbersInv, NumberOk
  <2> QED BY <2>1, <2>3, <2>4 DEF MapsMatchSockets
<1> QED BY <1>1, LoopInvariance, PTL

\* A step of the loop is a step of the queue it implements, or none: posting appends,
\* running takes the head, leaving halts, and everything else is invisible.
LEMMA ExecutorStep ==
  ASSUME LoopInv, [Next]_vars
  PROVE  [Exec!Next]_(Exec!evars)
<1> USE DEF kernelVars, mapVars, threadVars
<1>0. TypeOK /\ SwapInv
    BY DEF LoopInv
<1>l. Line = tasks \o taskQueue /\ Line' = tasks' \o taskQueue'
    BY DEF Line
<1>q. ASSUME Line' = Line, ran' = ran, (place' = "exited") = (place = "exited")
      PROVE  [Exec!Next]_(Exec!evars)
    BY <1>q, <1>l DEF Exec!evars
<1>r. ASSUME NEW k, TakeCallback(k), taskQueue' = taskQueue, place' = place
      PROVE  [Exec!Next]_(Exec!evars)
  <2>1. Line # <<>> /\ Head(Line) = Head(tasks) /\ Line' = Tail(Line)
      BY <1>r, <1>0, LineTake
  <2>2. ran' = Append(ran, Head(Line)) /\ place # "exited"
      BY <1>r, <2>1 DEF TakeCallback
  <2>3. Exec!Run
      BY <1>l, <1>r, <2>1, <2>2 DEF Exec!Run
  <2> QED BY <2>3 DEF Exec!Next
<1>1. ASSUME NEW c \in Conns, SocketFails(c) PROVE [Exec!Next]_(Exec!evars)
    BY <1>1, <1>q, <1>l DEF SocketFails
<1>2. CASE TimerExpires
    BY <1>2, <1>q, <1>l DEF TimerExpires
<1>3. ASSUME NEW f \in Fds, Accept(f) PROVE [Exec!Next]_(Exec!evars)
    BY <1>3, <1>q, <1>l DEF Accept
<1>4. ASSUME NEW w \in Workers, NEW c \in Conns, CloseFromOutside(w, c)
      PROVE [Exec!Next]_(Exec!evars)
    BY <1>4, <1>q, <1>l DEF CloseFromOutside
<1>5. ASSUME NEW w \in Workers, NEW c \in Conns, TaskCompletes(w, c)
      PROVE [Exec!Next]_(Exec!evars)
    BY <1>5, <1>q, <1>l DEF TaskCompletes
<1>6. ASSUME NEW p \in Posters, Post(p) PROVE [Exec!Next]_(Exec!evars)
  <2>1. hand[p] \in Callbacks /\ Line' = Append(Line, hand[p])
      BY <1>6, <1>0, LinePost
  <2>2. ran' = ran /\ place' = place
      BY <1>6 DEF Post
  <2>3. Exec!Post
      BY <2>1, <2>2, <1>l DEF Exec!Post
  <2> QED BY <2>3 DEF Exec!Next
<1>7. ASSUME NEW p \in Posters, WakeUp(p) PROVE [Exec!Next]_(Exec!evars)
    BY <1>7, <1>q, <1>l DEF WakeUp
<1>8. CASE Stop
    BY <1>8, <1>q, <1>l DEF Stop
<1>9. CASE EpollWait
    BY <1>9, <1>q, <1>l DEF EpollWait
<1>10. CASE DispatchWakeup
    BY <1>10, <1>q, <1>l DEF DispatchWakeup
<1>11. CASE SwapTasks
  <2>1. Line' = Line
      BY <1>11, <1>0, LineSwap
  <2> QED BY <2>1, <1>11, <1>q DEF SwapTasks
<1>12. CASE RunBuild
    BY <1>12, <1>r DEF RunBuild
<1>13. CASE RunClose
    BY <1>13, <1>r DEF RunClose
<1>14. CASE RunFinal
    BY <1>14, <1>r DEF RunFinal
<1>15. CASE RunDone
    BY <1>15, <1>q, <1>l DEF RunDone
<1>16. CASE DispatchTimer
    BY <1>16, <1>q, <1>l DEF DispatchTimer
<1>17. ASSUME NEW f \in Fds, DispatchError(f) PROVE [Exec!Next]_(Exec!evars)
    BY <1>17, <1>q, <1>l DEF DispatchError
<1>18. CASE EndOfBatch
  <2>1. Line' = Line /\ ran' = ran /\ place = "dispatch"
      BY <1>18, <1>l DEF EndOfBatch
  <2>2. CASE stop
    <3>1. place' = "exited"
        BY <1>18, <2>2 DEF EndOfBatch
    <3>2. Exec!Halt
        BY <2>1, <3>1, <1>l DEF Exec!Halt
    <3> QED BY <3>2 DEF Exec!Next
  <2>3. CASE ~stop
    <3>1. place' = "wait"
        BY <1>18, <2>3 DEF EndOfBatch
    <3> QED BY <2>1, <3>1, <1>q
  <2> QED BY <2>2, <2>3
<1>19. CASE Idle
    BY <1>19, <1>q, <1>l DEF Idle, vars
<1>20. CASE UNCHANGED vars
    BY <1>20, <1>q, <1>l DEF vars
<1> QED
    BY <1>1, <1>2, <1>3, <1>4, <1>5, <1>6, <1>7, <1>8, <1>9, <1>10, <1>11,
       <1>12, <1>13, <1>14, <1>15, <1>16, <1>17, <1>18, <1>19, <1>20
    DEF Next, LoopStep, PosterStep

\* The eventfd protocol implements the callback queue: what threads post runs once,
\* in the order of posting, although the loop drains a batch while others post.
THEOREM ExecutorRefined == Spec => ExecutorSpec
<1>1. Init => Exec!Init
  <2>1. <<>> \o <<>> = <<>>
      OBVIOUS
  <2> QED BY <2>1 DEF Init, Exec!Init
<1>2. LoopInv /\ [Next]_vars => [Exec!Next]_(Exec!evars)
    BY ExecutorStep
<1> QED BY <1>1, <1>2, LoopInvariance, PTL DEF Spec, ExecutorSpec, Exec!Spec
=============================================================================
