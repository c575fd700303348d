--------------------------- MODULE FramingProofs ----------------------------
(***************************************************************************)
(* Proofs about Framing and HttpFraming: requests are cut out of the       *)
(* stream as they were written, for every set of requests, every limit on  *)
(* them and every size of the buffer and of the block that readv() may use *)
(* besides it.                                                             *)
(*                                                                         *)
(* First Buffer: each of its operations is described by what can be read   *)
(* afterwards, for elements of any kind.  Then the bytes of a frame, then  *)
(* the invariant: the stream consists of the frames written, and the       *)
(* buffer holds what lies between the frames delivered and what readv()    *)
(* has returned.  Then the same for HTTP, where parse() may also be in the *)
(* middle of a request.                                                    *)
(***************************************************************************)
EXTENDS Framing, HttpFraming, SequenceTheorems, WellFoundedInduction, TLAPS

-----------------------------------------------------------------------------
(* Induction, and the loop that enlarges a buffer *)

\* The order that the induction below follows.
Less == {ss \in Nat \X Nat : ss[1] < ss[2]}

\* It is well founded.
LEMMA LessWF == IsWellFoundedOn(Less, Nat)
BY NatLessThanWellFounded DEF Less, OpToRel

\* Induction over the naturals, for a set in place of a predicate.
LEMMA Induction ==
  ASSUME NEW I \in SUBSET Nat, 0 \in I, \A n \in I : n + 1 \in I
  PROVE  I = Nat
<1> SUFFICES ASSUME Nat \ I # {} PROVE FALSE
    OBVIOUS
<1>1. PICK x \in Nat \ I : \A y \in Nat \ I : ~ (<<y, x>> \in Less)
  <2>1. Nat \ I \in SUBSET Nat
      OBVIOUS
  <2> QED BY <2>1, LessWF, WFMin
<1>2. x # 0 /\ x - 1 \in Nat
    BY <1>1
<1>3. x - 1 \in I
  <2>1. <<x - 1, x>> \in Less
      BY <1>1, <1>2 DEF Less
  <2> QED BY <1>1, <1>2, <2>1
<1>4. (x - 1) + 1 = x
    BY <1>1
<1> QED BY <1>1, <1>3, <1>4

\* One turn of the loop in enableWrite(): half as much again.
Larger(n) == (3 * n) \div 2

\* It makes progress from 2 on, which a buffer of one element would not.
LEMMA LargerIs ==
  ASSUME NEW n \in Nat
  PROVE  Larger(n) \in Nat /\ Larger(n) >= n /\ (n >= 2 => Larger(n) >= n + 1)
BY DEF Larger

\* g is the function that the loop computes.
Grows(g, wr, len) ==
  g = [n \in Nat |-> IF n - wr >= len THEN n ELSE g[Larger(n)]]

\* The loop that enlarges a buffer is defined for every size.
LEMMA GrowsExists ==
  ASSUME NEW wr \in Nat, NEW len \in Nat
  PROVE  \E g \in [Nat -> Nat] : Grows(g, wr, len)
<1> DEFINE K == wr + len
<1> DEFINE P(g, d) ==
      \A n \in Nat : n + d >= K => g[n] = IF n - wr >= len THEN n ELSE g[Larger(n)]
<1> DEFINE I == {d \in Nat : \E g \in [Nat -> Nat] : P(g, d)}
<1>1. 0 \in I
  <2> DEFINE id == [n \in Nat |-> n]
  <2>1. id \in [Nat -> Nat] /\ P(id, 0)
      OBVIOUS
  <2> QED BY <2>1
<1>2. ASSUME NEW d \in I PROVE d + 1 \in I
  <2>1. PICK g \in [Nat -> Nat] : P(g, d)
      OBVIOUS
  <2>2. CASE d >= K
    <3>1. P(g, d + 1)
        BY <2>1, <2>2
    <3> QED BY <3>1
  <2>3. CASE d < K
    <3> DEFINE m == K - d - 1
    <3>1. m \in Nat /\ m - wr < len /\ K \in Nat /\ d \in Nat
        BY <2>3
    <3> DEFINE h == [g EXCEPT ![m] = g[Larger(m)]]
    <3>2. h \in [Nat -> Nat] /\ h[m] = g[Larger(m)] /\ \A n \in Nat : n # m => h[n] = g[n]
        BY <3>1, LargerIs
    <3> HIDE DEF h
    <3>3. ASSUME NEW n \in Nat, n + (d + 1) >= K
          PROVE  h[n] = IF n - wr >= len THEN n ELSE h[Larger(n)]
      <4>1. CASE n = m
        <5>1. h[Larger(m)] = g[Larger(m)]
          <6>1. CASE Larger(m) = m
              BY <3>2, <6>1
          <6>2. CASE Larger(m) # m
              BY <3>1, <3>2, <6>2, LargerIs
          <6> QED BY <6>1, <6>2
        <5>2. ~ (n - wr >= len)
            BY <3>1, <4>1
        <5> HIDE DEF m
        <5> QED BY <3>2, <4>1, <5>1, <5>2
      <4>2. CASE n # m
        <5>1. n + d >= K /\ n > m
            BY <3>1, <3>3, <4>2
        <5>2. g[n] = IF n - wr >= len THEN n ELSE g[Larger(n)]
            BY <2>1, <5>1
        <5>3. Larger(n) \in Nat /\ Larger(n) # m
            BY <3>1, <5>1, LargerIs
        <5> HIDE DEF m
        <5> QED BY <3>2, <4>2, <5>2, <5>3
      <4> QED BY <4>1, <4>2
    <3>4. P(h, d + 1)
        BY <3>3
    <3>5. d + 1 \in Nat
        BY <3>1
    <3> HIDE DEF P
    <3> QED BY <3>2, <3>4, <3>5
  <2> QED BY <2>2, <2>3
<1>3. K \in I
  <2>1. I = Nat
    <3>1. I \in SUBSET Nat
        OBVIOUS
    <3> HIDE DEF I
    <3> QED BY <1>1, <1>2, <3>1, Induction
  <2>2. K \in Nat
      OBVIOUS
  <2> HIDE DEF I, K
  <2> QED BY <2>1, <2>2
<1>4. PICK g \in [Nat -> Nat] : P(g, K)
    BY <1>3
<1>5. \A n \in Nat : g[n] = IF n - wr >= len THEN n ELSE g[Larger(n)]
    BY <1>4
<1>6. Grows(g, wr, len)
    BY <1>5 DEF Grows
<1> QED BY <1>6

\* The size found is enough, and not smaller than the one before.
LEMMA GrownEnough ==
  ASSUME NEW wr \in Nat, NEW len \in Nat, NEW size \in Nat, size >= 2
  PROVE  /\ Grown(size, wr, len) \in Nat /\ Grown(size, wr, len) >= size
         /\ Grown(size, wr, len) - wr >= len
<1> DEFINE g == CHOOSE g : Grows(g, wr, len)
<1>1. Grown(size, wr, len) = g[size]
    BY DEF Grown, Grows, Larger
<1>2. \A n \in Nat : g[n] = IF n - wr >= len THEN n ELSE g[Larger(n)]
  <2>1. Grows(g, wr, len)
      BY GrowsExists
  <2> HIDE DEF g
  <2> QED BY <2>1 DEF Grows
<1> HIDE DEF g
<1> DEFINE K == wr + len
<1> DEFINE Q(n) == g[n] \in Nat /\ g[n] >= n /\ g[n] - wr >= len
<1> DEFINE I == {d \in Nat : \A n \in Nat : n >= 2 /\ n + d >= K => Q(n)}
<1>3. 0 \in I
    BY <1>2
<1>4. ASSUME NEW d \in I PROVE d + 1 \in I
  <2>1. ASSUME NEW n \in Nat, n >= 2, n + (d + 1) >= K PROVE Q(n)
    <3>1. CASE n + d >= K
        BY <2>1, <3>1
    <3>2. CASE n + d < K
      <4>1. g[n] = g[Larger(n)]
          BY <1>2, <3>2
      <4>2. Larger(n) \in Nat /\ Larger(n) >= n + 1
          BY <2>1, LargerIs
      <4>3. Larger(n) >= 2 /\ Larger(n) + d >= K
          BY <2>1, <4>2
      <4>4. Q(Larger(n))
          BY <4>2, <4>3
      <4> QED BY <4>1, <4>2, <4>4
    <3> QED BY <3>1, <3>2
  <2> QED BY <2>1
<1>5. K \in I
  <2>1. I = Nat
    <3>1. I \in SUBSET Nat
        OBVIOUS
    <3> HIDE DEF I
    <3> QED BY <1>3, <1>4, <3>1, Induction
  <2>2. K \in Nat
      OBVIOUS
  <2> HIDE DEF I, K
  <2> QED BY <2>1, <2>2
<1>6. Q(size)
    BY <1>5
<1> QED BY <1>1, <1>6

-----------------------------------------------------------------------------
(* Buffer *)

\* The buffers over elements of S that the code can have: the positions are in
\* order, within the array, and the array is not so small that it cannot grow.
Buffers(S) ==
  {b \in [data : Seq(S), rd : Nat, wr : Nat] :
     b.rd <= b.wr /\ b.wr <= Len(b.data) /\ Len(b.data) >= 2}

\* The i-th element that can be read.
At(b, i) == b.data[b.rd + i]

\* Two buffers from which the same can be read.
Same(b, c) == Readable(c) = Readable(b) /\ \A i \in 1..Readable(b) : At(c, i) = At(b, i)

\* The parts of a buffer.
LEMMA BufferIs ==
  ASSUME NEW S, NEW b \in Buffers(S)
  PROVE  /\ b = [data |-> b.data, rd |-> b.rd, wr |-> b.wr]
         /\ b.data \in Seq(S) /\ Len(b.data) \in Nat /\ b.rd \in Nat /\ b.wr \in Nat
         /\ b.rd <= b.wr /\ b.wr <= Len(b.data) /\ Len(b.data) >= 2
         /\ Readable(b) \in Nat /\ Writable(b) \in Nat
         /\ \A i \in 1..Len(b.data) : b.data[i] \in S
BY DEF Buffers, Readable, Writable

\* A record of the right parts is a buffer.
LEMMA BufferMade ==
  ASSUME NEW S, NEW n \in Nat, n >= 2, NEW data \in [1..n -> S], NEW rd \in Nat, NEW wr \in Nat,
         rd <= wr, wr <= n,
         NEW b, b = [data |-> data, rd |-> rd, wr |-> wr]
  PROVE  b \in Buffers(S) /\ Len(b.data) = n
<1>1. data \in Seq(S) /\ Len(data) = n
    OBVIOUS
<1> QED BY <1>1 DEF Buffers

\* A new buffer has nothing to read.
LEMMA NewBufferIs ==
  ASSUME NEW S, NEW size \in Nat, size >= 2, NEW blank \in S
  PROVE  NewBuffer(size, blank) \in Buffers(S) /\ Readable(NewBuffer(size, blank)) = 0
<1> DEFINE data == [i \in 1..size |-> blank]
<1>1. data \in [1..size -> S]
    OBVIOUS
<1>2. NewBuffer(size, blank) = [data |-> data, rd |-> 0, wr |-> 0]
    BY DEF NewBuffer
<1>3. Readable(NewBuffer(size, blank)) = 0
    BY <1>2 DEF Readable
<1> HIDE DEF data
<1> QED BY <1>1, <1>2, <1>3, BufferMade

\* Moving the readable part to the front keeps it.
LEMMA CompactKeeps ==
  ASSUME NEW S, NEW b \in Buffers(S)
  PROVE  /\ Compact(b) \in Buffers(S) /\ Same(b, Compact(b))
         /\ Writable(Compact(b)) = Writable(b) + b.rd
<1> DEFINE r == Readable(b)
           n == Len(b.data)
           data == [i \in 1..n |-> IF i <= r THEN b.data[b.rd + i] ELSE b.data[i]]
           c == Compact(b)
<1>0. /\ n \in Nat /\ n >= 2 /\ b.rd \in Nat /\ b.wr \in Nat /\ b.rd <= b.wr /\ b.wr <= n
      /\ r \in Nat /\ r <= n /\ r = b.wr - b.rd /\ \A i \in 1..n : b.data[i] \in S
    BY BufferIs DEF Readable
<1>1. c = [data |-> data, rd |-> 0, wr |-> r]
    BY DEF Compact
<1>2. data \in [1..n -> S]
  <2>1. \A i \in 1..n : i <= r => b.rd + i \in 1..n
      BY <1>0
  <2> QED BY <1>0, <2>1
<1>3. c \in Buffers(S) /\ Len(c.data) = n
  <2> HIDE DEF data, c, n, r
  <2> QED BY <1>0, <1>1, <1>2, BufferMade
<1>4. Readable(c) = r /\ Writable(c) = n - r
    BY <1>0, <1>1, <1>3 DEF Readable, Writable
<1>5. ASSUME NEW i \in 1..r PROVE At(c, i) = At(b, i)
  <2>1. i \in 1..n /\ 0 + i = i
      BY <1>0
  <2>2. c.data[i] = b.data[b.rd + i] /\ c.rd = 0
      BY <1>1, <2>1
  <2> QED BY <2>1, <2>2 DEF At
<1>6. Same(b, c)
    BY <1>4, <1>5 DEF Same
<1>7. Writable(b) = n - b.wr
    BY DEF Writable
<1>8. Writable(c) = Writable(b) + b.rd
  <2> HIDE DEF c, n, r
  <2> QED BY <1>0, <1>4, <1>7
<1> QED BY <1>3, <1>6, <1>8

\* A larger array keeps what it holds.
LEMMA ResizeKeeps ==
  ASSUME NEW S, NEW b \in Buffers(S), NEW blank \in S, NEW size \in Nat, size >= Len(b.data)
  PROVE  /\ Resize(b, size, blank) \in Buffers(S) /\ Same(b, Resize(b, size, blank))
         /\ Writable(Resize(b, size, blank)) = size - b.wr
<1> DEFINE n == Len(b.data)
           data == [i \in 1..size |-> IF i <= n THEN b.data[i] ELSE blank]
           c == Resize(b, size, blank)
<1>0. /\ n \in Nat /\ n >= 2 /\ b.rd \in Nat /\ b.wr \in Nat /\ b.rd <= b.wr /\ b.wr <= n
      /\ \A i \in 1..n : b.data[i] \in S
    BY BufferIs
<1>1. c = [data |-> data, rd |-> b.rd, wr |-> b.wr]
  <2>1. b = [data |-> b.data, rd |-> b.rd, wr |-> b.wr]
      BY BufferIs
  <2> QED BY <2>1 DEF Resize
<1>2. data \in [1..size -> S]
    BY <1>0
<1>3. c \in Buffers(S) /\ Len(c.data) = size
  <2>1. size >= 2 /\ b.wr <= size
      BY <1>0
  <2> HIDE DEF data, c, n
  <2> QED BY <1>0, <1>1, <1>2, <2>1, BufferMade
<1>4. Readable(c) = Readable(b) /\ Writable(c) = size - b.wr
    BY <1>0, <1>1, <1>3 DEF Readable, Writable
<1>5. ASSUME NEW i \in 1..Readable(b) PROVE At(c, i) = At(b, i)
  <2>1. b.rd + i \in 1..n /\ b.rd + i \in 1..size
      BY <1>0 DEF Readable
  <2>2. c.data[b.rd + i] = b.data[b.rd + i] /\ c.rd = b.rd
      BY <1>1, <2>1
  <2> QED BY <2>2 DEF At
<1> QED BY <1>3, <1>4, <1>5 DEF Same

\* enableWrite() makes room and loses nothing.
LEMMA EnableWriteKeeps ==
  ASSUME NEW S, NEW b \in Buffers(S), NEW blank \in S, NEW len \in Nat
  PROVE  /\ EnableWrite(b, len, blank) \in Buffers(S) /\ Same(b, EnableWrite(b, len, blank))
         /\ Writable(EnableWrite(b, len, blank)) >= len
<1>0. /\ Len(b.data) \in Nat /\ Len(b.data) >= 2 /\ b.wr \in Nat /\ b.rd \in Nat
      /\ Writable(b) \in Nat
    BY BufferIs
<1>1. CASE Writable(b) >= len
    BY <1>1 DEF EnableWrite, Same
<1>2. CASE ~ (Writable(b) >= len) /\ Writable(b) + b.rd >= len
    BY <1>0, <1>2, CompactKeeps DEF EnableWrite
<1>3. CASE ~ (Writable(b) >= len) /\ ~ (Writable(b) + b.rd >= len)
  <2> DEFINE size == Grown(Len(b.data), b.wr, len)
  <2>1. size \in Nat /\ size >= Len(b.data) /\ size - b.wr >= len
      BY <1>0, GrownEnough
  <2>2. EnableWrite(b, len, blank) = Resize(b, size, blank)
      BY <1>3 DEF EnableWrite
  <2> HIDE DEF size
  <2> QED BY <2>1, <2>2, ResizeKeeps
<1> QED BY <1>1, <1>2, <1>3

\* c reads as b does, and then as the sequence bytes.
Appended(b, bytes, c) ==
  /\ Readable(c) = Readable(b) + Len(bytes)
  /\ \A i \in 1..Readable(b) : At(c, i) = At(b, i)
  /\ \A i \in 1..Len(bytes) : At(c, Readable(b) + i) = bytes[i]

\* What fits is written behind the readable part.
LEMMA WriteAppends ==
  ASSUME NEW S, NEW b \in Buffers(S), NEW bytes \in Seq(S), Len(bytes) <= Writable(b)
  PROVE  /\ Write(b, bytes) \in Buffers(S) /\ Appended(b, bytes, Write(b, bytes))
         /\ Writable(Write(b, bytes)) = Writable(b) - Len(bytes)
<1> DEFINE n == Len(b.data)
           m == Len(bytes)
           data == [i \in 1..n |-> IF i > b.wr /\ i <= b.wr + m
                                   THEN bytes[i - b.wr] ELSE b.data[i]]
           c == Write(b, bytes)
<1>0. /\ n \in Nat /\ n >= 2 /\ b.rd \in Nat /\ b.wr \in Nat /\ b.rd <= b.wr
      /\ m \in Nat /\ b.wr + m <= n /\ \A i \in 1..n : b.data[i] \in S
      /\ \A i \in 1..m : bytes[i] \in S
    BY BufferIs DEF Writable
<1>1. c = [data |-> data, rd |-> b.rd, wr |-> b.wr + m]
  <2>1. b = [data |-> b.data, rd |-> b.rd, wr |-> b.wr]
      BY BufferIs
  <2>2. c = [b EXCEPT !.data = data, !.wr = b.wr + m]
      BY <2>1 DEF Write
  <2> HIDE DEF c, data, m
  <2> QED BY <2>1, <2>2
<1>2. data \in [1..n -> S]
  <2>1. \A i \in 1..n : i > b.wr /\ i <= b.wr + m => i - b.wr \in 1..m
      BY <1>0
  <2> QED BY <1>0, <2>1
<1>3. c \in Buffers(S) /\ Len(c.data) = n
  <2>1. b.wr + m \in Nat /\ b.rd <= b.wr + m
      BY <1>0
  <2> HIDE DEF data, c, n, m
  <2> QED BY <1>0, <1>1, <1>2, <2>1, BufferMade
<1>4. Readable(c) = Readable(b) + m /\ Writable(c) = Writable(b) - m
    BY <1>0, <1>1, <1>3 DEF Readable, Writable
<1>5. ASSUME NEW i \in 1..Readable(b) PROVE At(c, i) = At(b, i)
  <2>1. b.rd + i \in 1..n /\ ~ (b.rd + i > b.wr)
      BY <1>0 DEF Readable
  <2>2. c.data[b.rd + i] = b.data[b.rd + i] /\ c.rd = b.rd
      BY <1>1, <2>1
  <2> QED BY <2>2 DEF At
<1>6. ASSUME NEW i \in 1..m PROVE At(c, Readable(b) + i) = bytes[i]
  <2>1. /\ b.rd + (Readable(b) + i) = b.wr + i
        /\ b.wr + i \in 1..n /\ b.wr + i > b.wr /\ b.wr + i <= b.wr + m
        /\ (b.wr + i) - b.wr = i
      BY <1>0 DEF Readable
  <2>2. c.data[b.wr + i] = bytes[i] /\ c.rd = b.rd
      BY <1>1, <2>1
  <2> QED BY <2>1, <2>2 DEF At
<1> QED BY <1>3, <1>4, <1>5, <1>6 DEF Appended

\* bufferAppend() makes room for what it writes.
LEMMA BufferAppendAppends ==
  ASSUME NEW S, NEW b \in Buffers(S), NEW blank \in S, NEW bytes \in Seq(S)
  PROVE  /\ BufferAppend(b, bytes, blank) \in Buffers(S)
         /\ Appended(b, bytes, BufferAppend(b, bytes, blank))
<1> DEFINE d == EnableWrite(b, Len(bytes), blank)
           c == Write(d, bytes)
<1>1. d \in Buffers(S) /\ Same(b, d) /\ Writable(d) >= Len(bytes) /\ Writable(d) \in Nat
  <2>1. Len(bytes) \in Nat
      OBVIOUS
  <2>2. d \in Buffers(S) /\ Same(b, d) /\ Writable(d) >= Len(bytes)
      BY <2>1, EnableWriteKeeps
  <2> HIDE DEF d
  <2> QED BY <2>2, BufferIs
<1> HIDE DEF d
<1>2. c \in Buffers(S) /\ Appended(d, bytes, c)
    BY <1>1, WriteAppends
<1>3. Readable(b) \in Nat
    BY BufferIs
<1>4. Appended(b, bytes, c)
    BY <1>1, <1>2, <1>3 DEF Appended, Same
<1> QED BY <1>2, <1>4 DEF BufferAppend, d

\* Reading moves past what was read; an empty buffer starts again.
LEMMA MoveReadPtrDrops ==
  ASSUME NEW S, NEW b \in Buffers(S), NEW len \in Nat, len <= Readable(b)
  PROVE  /\ MoveReadPtr(b, len) \in Buffers(S)
         /\ Readable(MoveReadPtr(b, len)) = Readable(b) - len
         /\ \A i \in 1..(Readable(b) - len) : At(MoveReadPtr(b, len), i) = At(b, len + i)
<1>0. /\ b = [data |-> b.data, rd |-> b.rd, wr |-> b.wr] /\ b.data \in Seq(S)
      /\ Len(b.data) \in Nat /\ Len(b.data) >= 2 /\ b.rd \in Nat /\ b.wr \in Nat
      /\ b.rd <= b.wr /\ b.wr <= Len(b.data) /\ b.rd + len <= b.wr
    BY BufferIs DEF Readable
<1>1. CASE b.rd + len = b.wr
  <2>1. MoveReadPtr(b, len) = [data |-> b.data, rd |-> 0, wr |-> 0]
      BY <1>0, <1>1 DEF MoveReadPtr
  <2>2. MoveReadPtr(b, len) \in Buffers(S)
      BY <1>0, <2>1 DEF Buffers
  <2> QED BY <1>0, <1>1, <2>1, <2>2 DEF Readable
<1>2. CASE b.rd + len # b.wr
  <2>1. MoveReadPtr(b, len) = [data |-> b.data, rd |-> b.rd + len, wr |-> b.wr]
      BY <1>0, <1>2 DEF MoveReadPtr
  <2>2. MoveReadPtr(b, len) \in Buffers(S)
      BY <1>0, <2>1 DEF Buffers
  <2>3. \A i \in 1..(Readable(b) - len) : (b.rd + len) + i = b.rd + (len + i)
      BY <1>0
  <2> QED BY <1>0, <2>1, <2>2, <2>3 DEF Readable, At
<1> QED BY <1>1, <1>2

\* A full buffer makes room for the next readv().
LEMMA MakeRoomKeeps ==
  ASSUME NEW S, NEW b \in Buffers(S), NEW blank \in S, NEW extra \in Nat
  PROVE  /\ MakeRoom(b, extra, blank) \in Buffers(S) /\ Same(b, MakeRoom(b, extra, blank))
         /\ Writable(MakeRoom(b, extra, blank)) \in Nat
<1>1. MakeRoom(b, extra, blank) \in Buffers(S) /\ Same(b, MakeRoom(b, extra, blank))
    BY EnableWriteKeeps DEF MakeRoom, Same
<1> QED BY <1>1, BufferIs

\* One readv() appends what it returns, also what went to the extra block.
LEMMA ReadIntoAppends ==
  ASSUME NEW S, NEW b \in Buffers(S), NEW blank \in S, NEW bytes \in Seq(S)
  PROVE  /\ ReadInto(b, bytes, blank) \in Buffers(S)
         /\ Appended(b, bytes, ReadInto(b, bytes, blank))
<1> DEFINE w == Writable(b)
           m == Len(bytes)
<1>0. w \in Nat /\ m \in Nat /\ Readable(b) \in Nat
    BY BufferIs
<1>1. CASE m <= w
    BY <1>1, WriteAppends DEF ReadInto
<1>2. CASE m > w
  <2> DEFINE front == SubSeq(bytes, 1, w)
             rest == SubSeq(bytes, w + 1, m)
             d == Write(b, front)
             c == BufferAppend(d, rest, blank)
  <2>1. /\ front \in Seq(S) /\ Len(front) = w
        /\ \A i \in 1..w : front[i] = bytes[i]
    <3>1. \A i \in 1..w : bytes[i] \in S
        BY <1>0, <1>2
    <3>2. /\ front \in Seq(S) /\ Len(front) = IF 1 <= w THEN w - 1 + 1 ELSE 0
          /\ \A i \in 1..(w - 1 + 1) : front[i] = bytes[1 + i - 1]
        BY <1>0, <3>1, SubSeqProperties
    <3>3. w - 1 + 1 = w /\ \A i \in 1..w : 1 + i - 1 = i
        BY <1>0
    <3> HIDE DEF front
    <3> QED BY <1>0, <3>2, <3>3
  <2>2. /\ rest \in Seq(S) /\ Len(rest) = m - w
        /\ \A i \in 1..(m - w) : rest[i] = bytes[w + i]
    <3>1. \A i \in (w + 1)..m : bytes[i] \in S
        BY <1>0, <1>2
    <3>2. /\ rest \in Seq(S) /\ Len(rest) = IF w + 1 <= m THEN m - (w + 1) + 1 ELSE 0
          /\ \A i \in 1..(m - (w + 1) + 1) : rest[i] = bytes[(w + 1) + i - 1]
        BY <1>0, <3>1, SubSeqProperties
    <3>3. m - (w + 1) + 1 = m - w /\ \A i \in 1..(m - w) : (w + 1) + i - 1 = w + i
        BY <1>0
    <3> HIDE DEF rest
    <3> QED BY <1>0, <1>2, <3>2, <3>3
  <2> HIDE DEF front, rest
  <2>3. d \in Buffers(S) /\ Appended(b, front, d)
      BY <1>0, <2>1, WriteAppends
  <2> HIDE DEF d
  <2>4. c \in Buffers(S) /\ Appended(d, rest, c)
      BY <2>2, <2>3, BufferAppendAppends
  <2>5. ReadInto(b, bytes, blank) = c
      BY <1>0, <1>2 DEF ReadInto, front, rest, d
  <2> HIDE DEF c
  <2>6. Appended(b, bytes, c)
    <3>1. Readable(d) = Readable(b) + w /\ Readable(c) = Readable(b) + m
        BY <1>0, <2>1, <2>2, <2>3, <2>4 DEF Appended
    <3>2. \A i \in 1..Readable(d) : At(c, i) = At(d, i)
        BY <2>4 DEF Appended
    <3>3. ASSUME NEW i \in 1..Readable(b) PROVE At(c, i) = At(b, i)
      <4>1. i \in 1..Readable(d)
          BY <1>0, <3>1
      <4> QED BY <2>3, <3>2, <4>1 DEF Appended
    <3>4. ASSUME NEW i \in 1..m PROVE At(c, Readable(b) + i) = bytes[i]
      <4>1. CASE i <= w
        <5>1. Readable(b) + i \in 1..Readable(d) /\ i \in 1..w
            BY <1>0, <3>1, <4>1
        <5> QED BY <2>1, <2>3, <3>2, <5>1 DEF Appended
      <4>2. CASE i > w
        <5>1. /\ i - w \in 1..(m - w) /\ w + (i - w) = i
              /\ Readable(d) + (i - w) = Readable(b) + i
            BY <1>0, <3>1, <4>2
        <5>2. At(c, Readable(d) + (i - w)) = rest[i - w]
            BY <2>2, <2>4, <5>1 DEF Appended
        <5> QED BY <2>2, <5>1, <5>2
      <4> QED BY <1>0, <4>1, <4>2
    <3> QED BY <3>1, <3>3, <3>4 DEF Appended
  <2> QED BY <2>4, <2>5, <2>6
<1> QED BY <1>0, <1>1, <1>2

\* The places behind a up to z, as SubSeq counts them.
LEMMA Between ==
  ASSUME NEW a \in Nat, NEW z \in Nat, a <= z
  PROVE  /\ z - (a + 1) + 1 = z - a
         /\ (IF a + 1 <= z THEN z - (a + 1) + 1 ELSE 0) = z - a
         /\ \A i \in 1..(z - a) : (a + 1) + i - 1 = a + i
OBVIOUS

\* What can be read, as a sequence.
LEMMA PeekIs ==
  ASSUME NEW S, NEW b \in Buffers(S)
  PROVE  /\ Peek(b) \in Seq(S) /\ Len(Peek(b)) = Readable(b)
         /\ \A i \in 1..Readable(b) : Peek(b)[i] = At(b, i)
<1>0. /\ b.rd \in Nat /\ b.wr \in Nat /\ b.rd <= b.wr /\ b.wr <= Len(b.data)
      /\ Len(b.data) \in Nat /\ \A i \in 1..Len(b.data) : b.data[i] \in S
    BY BufferIs
<1>1. \A i \in (b.rd + 1)..b.wr : b.data[i] \in S
    BY <1>0
<1>2. /\ Peek(b) \in Seq(S)
      /\ Len(Peek(b)) = IF b.rd + 1 <= b.wr THEN b.wr - (b.rd + 1) + 1 ELSE 0
      /\ \A i \in 1..(b.wr - (b.rd + 1) + 1) : Peek(b)[i] = b.data[(b.rd + 1) + i - 1]
  <2>1. b.rd + 1 \in Int /\ b.wr \in Int
      BY <1>0
  <2> QED BY <1>1, <2>1, SubSeqProperties DEF Peek
<1>3. /\ b.wr - (b.rd + 1) + 1 = b.wr - b.rd
      /\ (IF b.rd + 1 <= b.wr THEN b.wr - (b.rd + 1) + 1 ELSE 0) = b.wr - b.rd
      /\ \A i \in 1..(b.wr - b.rd) : (b.rd + 1) + i - 1 = b.rd + i
    BY <1>0, Between
<1>4. Readable(b) = b.wr - b.rd
    BY DEF Readable
<1> QED BY <1>2, <1>3, <1>4 DEF At

-----------------------------------------------------------------------------
(* Frames and their bytes *)

\* The assumption on the constants, by its parts.
LEMMA FramingConstants ==
  /\ InitSize \in Nat /\ InitSize >= 2 /\ Extra \in Nat /\ MaxBody \in Nat /\ MaxFrames \in Nat
  /\ \A f \in Frames :
       /\ Is32(f.length) /\ Is16(f.type) /\ Is32(f.id) /\ f.payload \in Seq(Byte)
       /\ f.length = 6 + Len(f.payload) \/ f.length \notin 6..MaxBody
BY FramingAssumption

\* The numbers of a header are naturals.
LEMMA HeaderNat ==
  ASSUME NEW f \in Frames
  PROVE  f.length \in Nat /\ f.type \in Nat /\ f.id \in Nat /\ f.payload \in Seq(Byte)
BY FramingConstants, SMT DEF Is32, Is16

\* ntohl() undoes htonl().
LEMMA HostNet32 ==
  ASSUME NEW n, Is32(n)
  PROVE  Net32(n) \in Seq(Byte) /\ Len(Net32(n)) = 4 /\ Host32(Net32(n), 0) = n
<1> DEFINE a == Net32(n)
<1>0. n \in Nat /\ n \div 16777216 < 256
    BY SMT DEF Is32
<1>1. /\ n \div 16777216 \in Byte /\ (n \div 65536) % 256 \in Byte
      /\ (n \div 256) % 256 \in Byte /\ n % 256 \in Byte
    BY <1>0, SMT DEF Byte
<1>2. 16777216 * (n \div 16777216) + 65536 * ((n \div 65536) % 256)
        + 256 * ((n \div 256) % 256) + (n % 256) = n
    BY <1>0, SMT
<1>3. /\ a[1] = n \div 16777216 /\ a[2] = (n \div 65536) % 256
      /\ a[3] = (n \div 256) % 256 /\ a[4] = n % 256 /\ Len(a) = 4
    BY SMT DEF Net32
<1>4. a \in Seq(Byte)
    BY <1>1, SMT DEF Net32
<1>5. 0 + 1 = 1 /\ 0 + 2 = 2 /\ 0 + 3 = 3 /\ 0 + 4 = 4
    OBVIOUS
<1>6. Host32(a, 0) = 16777216 * a[1] + 65536 * a[2] + 256 * a[3] + a[4]
  <2> HIDE DEF a
  <2> QED BY <1>5, SMT DEF Host32
<1>7. Host32(a, 0) = n
  <2> HIDE DEF a
  <2> QED BY <1>2, <1>3, <1>6, SMT
<1> QED BY <1>3, <1>4, <1>7, SMT

\* ntohs() undoes htons().
LEMMA HostNet16 ==
  ASSUME NEW n, Is16(n)
  PROVE  Net16(n) \in Seq(Byte) /\ Len(Net16(n)) = 2 /\ Host16(Net16(n), 0) = n
<1> DEFINE t == Net16(n)
<1>1. n \div 256 \in Byte /\ n % 256 \in Byte /\ 256 * (n \div 256) + (n % 256) = n
    BY SMT DEF Is16, Byte
<1>2. t[1] = n \div 256 /\ t[2] = n % 256 /\ Len(t) = 2 /\ t \in Seq(Byte)
    BY <1>1, SMT DEF Net16
<1>3. Host16(t, 0) = 256 * t[1] + t[2]
  <2> HIDE DEF t
  <2> QED BY SMT DEF Host16
<1> QED BY <1>1, <1>2, <1>3, SMT

\* Both depend on their four, or two, bytes only.
LEMMA HostOf ==
  ASSUME NEW p, NEW i \in Nat, NEW q, NEW k \in Nat
  PROVE  /\ (\A j \in 1..4 : p[i + j] = q[k + j]) => Host32(p, i) = Host32(q, k)
         /\ (\A j \in 1..2 : p[i + j] = q[k + j]) => Host16(p, i) = Host16(q, k)
<1>1. 1 \in 1..4 /\ 2 \in 1..4 /\ 3 \in 1..4 /\ 4 \in 1..4 /\ 1 \in 1..2 /\ 2 \in 1..2
    OBVIOUS
<1>2. ASSUME \A j \in 1..4 : p[i + j] = q[k + j] PROVE Host32(p, i) = Host32(q, k)
  <2>1. /\ p[i + 1] = q[k + 1] /\ p[i + 2] = q[k + 2] /\ p[i + 3] = q[k + 3]
        /\ p[i + 4] = q[k + 4]
      BY <1>1, <1>2, SMT
  <2> QED BY <2>1, SMT DEF Host32
<1>3. ASSUME \A j \in 1..2 : p[i + j] = q[k + j] PROVE Host16(p, i) = Host16(q, k)
  <2>1. p[i + 1] = q[k + 1] /\ p[i + 2] = q[k + 2]
      BY <1>1, <1>3, SMT
  <2> QED BY <2>1, SMT DEF Host16
<1> QED BY <1>2, <1>3, SMT

\* The elements of two sequences joined.
LEMMA Joined ==
  ASSUME NEW S, NEW s \in Seq(S), NEW t \in Seq(S)
  PROVE  /\ s \o t \in Seq(S) /\ Len(s \o t) = Len(s) + Len(t)
         /\ Len(s) \in Nat /\ Len(t) \in Nat
         /\ \A j \in 1..Len(s) : (s \o t)[j] = s[j]
         /\ \A j \in 1..Len(t) : (s \o t)[Len(s) + j] = t[j]
<1>1. /\ s \o t \in Seq(S) /\ Len(s \o t) = Len(s) + Len(t)
      /\ Len(s) \in Nat /\ Len(t) \in Nat
      /\ \A i \in 1..(Len(s) + Len(t)) :
           (s \o t)[i] = IF i <= Len(s) THEN s[i] ELSE t[i - Len(s)]
    BY ConcatProperties
<1>2. \A j \in 1..Len(s) : j \in 1..(Len(s) + Len(t))
    BY <1>1
<1>3. \A j \in 1..Len(t) : /\ Len(s) + j \in 1..(Len(s) + Len(t))
                           /\ ~ (Len(s) + j <= Len(s)) /\ (Len(s) + j) - Len(s) = j
    BY <1>1
<1> QED BY <1>1, <1>2, <1>3

\* The bytes of a frame, one by one.
LEMMA EncodeIs ==
  ASSUME NEW f \in Frames
  PROVE  LET e == EncodeMessage(f) IN
         /\ e \in Seq(Byte) /\ Len(e) = 10 + Len(f.payload) /\ Len(f.payload) \in Nat
         /\ Host32(e, 0) = f.length /\ Host16(e, 4) = f.type /\ Host32(e, 6) = f.id
         /\ \A j \in 1..Len(f.payload) : e[10 + j] = f.payload[j]
<1> DEFINE a == Net32(f.length)
           t == Net16(f.type)
           u == Net32(f.id)
           p == f.payload
           e == EncodeMessage(f)
<1>0. Is32(f.length) /\ Is16(f.type) /\ Is32(f.id) /\ p \in Seq(Byte)
    BY FramingConstants
<1>1. a \in Seq(Byte) /\ Len(a) = 4 /\ Host32(a, 0) = f.length
    BY <1>0, HostNet32
<1>2. t \in Seq(Byte) /\ Len(t) = 2 /\ Host16(t, 0) = f.type
    BY <1>0, HostNet16
<1>3. u \in Seq(Byte) /\ Len(u) = 4 /\ Host32(u, 0) = f.id
    BY <1>0, HostNet32
<1> DEFINE b == a \o t
           c == b \o u
<1>4. e = c \o p
    BY DEF EncodeMessage
<1> HIDE DEF a, t, u, p, e
<1>5. /\ b \in Seq(Byte) /\ Len(b) = 6
      /\ \A j \in 1..4 : b[j] = a[j]
      /\ \A j \in 1..2 : b[4 + j] = t[j]
  <2>1. /\ b \in Seq(Byte) /\ Len(b) = Len(a) + Len(t)
        /\ \A j \in 1..Len(a) : b[j] = a[j]
        /\ \A j \in 1..Len(t) : b[Len(a) + j] = t[j]
    <3>1. a \in Seq(Byte) /\ t \in Seq(Byte)
        BY <1>1, <1>2
    <3> QED BY <3>1, Joined
  <2> HIDE DEF b
  <2> QED BY <1>1, <1>2, <2>1
<1> HIDE DEF b
<1>6. /\ c \in Seq(Byte) /\ Len(c) = 10
      /\ \A j \in 1..6 : c[j] = b[j]
      /\ \A j \in 1..4 : c[6 + j] = u[j]
  <2>1. /\ c \in Seq(Byte) /\ Len(c) = Len(b) + Len(u)
        /\ \A j \in 1..Len(b) : c[j] = b[j]
        /\ \A j \in 1..Len(u) : c[Len(b) + j] = u[j]
    <3>1. b \in Seq(Byte) /\ u \in Seq(Byte)
        BY <1>3, <1>5
    <3> QED BY <3>1, Joined
  <2> HIDE DEF c
  <2> QED BY <1>3, <1>5, <2>1
<1> HIDE DEF c
<1>7. /\ e \in Seq(Byte) /\ Len(e) = 10 + Len(p) /\ Len(p) \in Nat
      /\ \A j \in 1..10 : e[j] = c[j]
      /\ \A j \in 1..Len(p) : e[10 + j] = p[j]
  <2>1. /\ e \in Seq(Byte) /\ Len(e) = Len(c) + Len(p) /\ Len(p) \in Nat
        /\ \A j \in 1..Len(c) : e[j] = c[j]
        /\ \A j \in 1..Len(p) : e[Len(c) + j] = p[j]
    <3>1. c \in Seq(Byte) /\ p \in Seq(Byte)
        BY <1>0, <1>6
    <3> QED BY <3>1, Joined, <1>4
  <2> QED BY <1>6, <2>1
<1>8. /\ \A j \in 1..4 : e[0 + j] = a[0 + j]
      /\ \A j \in 1..2 : e[4 + j] = t[0 + j]
      /\ \A j \in 1..4 : e[6 + j] = u[0 + j]
  <2>1. ASSUME NEW j \in 1..4 PROVE e[0 + j] = a[0 + j] /\ e[6 + j] = u[0 + j]
    <3>1. j \in 1..10 /\ j \in 1..6 /\ 6 + j \in 1..10 /\ 0 + j = j
        OBVIOUS
    <3> QED BY <1>5, <1>6, <1>7, <3>1
  <2>2. ASSUME NEW j \in 1..2 PROVE e[4 + j] = t[0 + j]
    <3>1. 4 + j \in 1..10 /\ 4 + j \in 1..6 /\ 0 + j = j
        OBVIOUS
    <3> QED BY <1>5, <1>6, <1>7, <3>1
  <2> QED BY <2>1, <2>2
<1>9. Host32(e, 0) = f.length
    BY <1>1, <1>8, HostOf
<1>10. Host16(e, 4) = f.type
    BY <1>2, <1>8, HostOf
<1>11. Host32(e, 6) = f.id
    BY <1>3, <1>8, HostOf
<1> QED BY <1>7, <1>9, <1>10, <1>11 DEF e, p

-----------------------------------------------------------------------------
(* The inductive invariant *)

\* A stream st is made of the frames sc: they follow each other, each stands
\* where es says, and only the last may be there in part.
StreamOf(sc, es, st) ==
  /\ sc \in Seq(Frames) /\ st \in Seq(Byte) /\ es \in Seq(Nat) /\ Len(es) = Len(sc)
  /\ \A k \in 1..Len(sc) : End(es, k) = End(es, k - 1) + Len(EncodeMessage(sc[k]))
  /\ \A k, m \in 0..Len(sc) : k < m => End(es, k) + 10 <= End(es, m)
  /\ \A k \in 1..Len(sc) : \A j \in 1..Len(EncodeMessage(sc[k])) :
       End(es, k - 1) + j <= Len(st) => st[End(es, k - 1) + j] = EncodeMessage(sc[k])[j]
  /\ Len(st) <= End(es, Len(sc))
  /\ \A k \in 0..Len(sc) : k < Len(sc) => End(es, k) <= Len(st)

\* Until the sender has stopped its last frame is there whole.
StreamInv ==
  /\ StreamOf(script, ends, stream) /\ Len(script) <= MaxFrames /\ fin \in BOOLEAN
  /\ ~fin => Len(stream) = End(ends, Len(script))

\* The reader has delivered the first frames, all of them good, and its buffer
\* holds the bytes from there to what readv() returned last.
Base == End(ends, Len(delivered))

\* The state of the reader, relative to Base.
ReaderInv ==
  /\ pos \in 0..Len(stream) /\ buf \in Buffers(Byte)
  /\ eof \in BOOLEAN /\ connected \in BOOLEAN /\ phase \in {"wait", "read", "parse"}
  /\ delivered \in Seq([type : Nat, id : Nat, payload : Seq(Byte)])
  /\ Len(delivered) <= Len(script) /\ Base <= pos
  /\ \A i \in 1..Len(delivered) : delivered[i] = Message(script[i]) /\ ~Bad(script[i])
  /\ phase # "wait" => connected
  /\ phase = "read" => ~eof
  /\ (connected /\ (~eof \/ phase # "wait")) =>
       /\ Readable(buf) = pos - Base
       /\ \A i \in 1..(pos - Base) : At(buf, i) = stream[Base + i]

\* After a call of read() the next frame is not there whole, or it is bad; it is
\* bad once the connection is closed.
WaitInv ==
  /\ (phase = "wait" /\ Len(delivered) < Len(script)) =>
       ends[Len(delivered) + 1] > pos \/ Bad(script[Len(delivered) + 1])
  /\ ~connected => Len(delivered) < Len(script) /\ Bad(script[Len(delivered) + 1])

\* The inductive invariant.
FramingInv == StreamInv /\ ReaderInv /\ WaitInv

\* It holds before the first frame is written.
LEMMA InitFraming == FramingInit => FramingInv
<1> SUFFICES ASSUME FramingInit PROVE FramingInv
    OBVIOUS
<1>0. 0 \in Byte /\ InitSize \in Nat /\ InitSize >= 2 /\ MaxFrames \in Nat
    BY FramingConstants DEF Byte
<1>1. buf \in Buffers(Byte) /\ Readable(buf) = 0
    BY <1>0, NewBufferIs DEF FramingInit
<1>2. /\ <<>> \in Seq(Frames) /\ <<>> \in Seq(Byte) /\ <<>> \in Seq(Nat) /\ Len(<<>>) = 0
      /\ <<>> \in Seq([type : Nat, id : Nat, payload : Seq(Byte)])
      /\ script = <<>> /\ stream = <<>> /\ ends = <<>> /\ delivered = <<>>
    BY DEF FramingInit
<1>3. StreamInv
  <2>1. 1..0 = {} /\ 0..0 = {0} /\ fin = FALSE
      BY DEF FramingInit
  <2>2. /\ script \in Seq(Frames) /\ stream \in Seq(Byte) /\ ends \in Seq(Nat)
        /\ Len(script) = 0 /\ Len(stream) = 0 /\ Len(ends) = 0
      BY <1>2
  <2>3. /\ \A k \in 1..Len(script) : FALSE
        /\ \A k, m \in 0..Len(script) : ~ (k < m)
        /\ \A k \in 0..Len(script) : ~ (k < Len(script))
      BY <2>1, <2>2
  <2>4. End(ends, Len(script)) = 0
      BY <2>2 DEF End
  <2>5. fin \in BOOLEAN
      BY <2>1
  <2>6. 0 <= MaxFrames /\ 0 <= 0
      BY <1>0
  <2>7. StreamOf(script, ends, stream)
      BY <2>2, <2>3, <2>4, <2>6 DEF StreamOf
  <2> QED BY <2>2, <2>4, <2>5, <2>6, <2>7 DEF StreamInv
<1>4. ReaderInv
  <2>1. /\ Len(delivered) = 0 /\ Len(script) = 0 /\ Len(stream) = 0 /\ pos = 0 /\ Base = 0
        /\ delivered \in Seq([type : Nat, id : Nat, payload : Seq(Byte)])
      BY <1>2 DEF FramingInit, Base, End
  <2>2. 1..0 = {} /\ 0 - 0 = 0 /\ 0 \in 0..0
      OBVIOUS
  <2>3. /\ pos \in 0..Len(stream) /\ Len(delivered) <= Len(script) /\ Base <= pos
        /\ Readable(buf) = pos - Base
      BY <1>1, <2>1, <2>2
  <2>6. /\ eof \in BOOLEAN /\ connected \in BOOLEAN
        /\ phase \in {"wait", "read", "parse"} /\ phase = "wait"
      BY DEF FramingInit
  <2>4. \A i \in 1..(pos - Base) : At(buf, i) = stream[Base + i]
      BY <2>1, <2>2
  <2>5. \A i \in 1..Len(delivered) : delivered[i] = Message(script[i]) /\ ~Bad(script[i])
      BY <2>1, <2>2
  <2> QED BY <1>1, <2>1, <2>3, <2>4, <2>5, <2>6 DEF ReaderInv
<1>5. WaitInv
    BY <1>2 DEF FramingInit, WaitInv
<1> QED BY <1>3, <1>4, <1>5 DEF FramingInv

-----------------------------------------------------------------------------
(* The sender *)

\* A position up to the last frame is a natural number.
LEMMA EndNat ==
  ASSUME NEW es \in Seq(Nat), NEW k \in 0..Len(es)
  PROVE  End(es, k) \in Nat
<1>1. CASE k = 0
    BY <1>1 DEF End
<1>2. CASE k # 0
  <2>1. k \in 1..Len(es)
      BY <1>2
  <2> QED BY <1>2, <2>1 DEF End
<1> QED BY <1>1, <1>2

\* Appending a position keeps the earlier ones.
LEMMA EndAppend ==
  ASSUME NEW es \in Seq(Nat), NEW x \in Nat
  PROVE  /\ \A k \in 0..Len(es) : End(Append(es, x), k) = End(es, k)
         /\ End(Append(es, x), Len(es) + 1) = x
<1>1. /\ \A i \in 1..Len(es) : Append(es, x)[i] = es[i]
      /\ Append(es, x)[Len(es) + 1] = x /\ Len(es) \in Nat
    BY AppendProperties
<1>2. \A k \in 0..Len(es) : k # 0 => k \in 1..Len(es)
    BY <1>1
<1>3. Len(es) + 1 # 0
    BY <1>1
<1> HIDE DEF End
<1>4. \A k \in 0..Len(es) : End(Append(es, x), k) = End(es, k)
    BY <1>1, <1>2 DEF End
<1>5. End(Append(es, x), Len(es) + 1) = x
    BY <1>1, <1>3 DEF End
<1> QED BY <1>4, <1>5

\* What is below a bound is below a larger one.
LEMMA LessThanMore ==
  ASSUME NEW a \in Nat, NEW b \in Nat, NEW c \in Nat, a <= b
  PROVE  a <= b + c /\ (c >= 10 => a + 10 <= b + c)
OBVIOUS

\* A frame more, or the first n bytes of it, keep the stream in order.
LEMMA StreamGrows ==
  ASSUME StreamOf(script, ends, stream), Len(stream) = End(ends, Len(script)),
         NEW f \in Frames, NEW n \in 1..Len(EncodeMessage(f)),
         script' = Append(script, f),
         ends' = Append(ends, Len(stream) + Len(EncodeMessage(f))),
         stream' \in Seq(Byte), Len(stream') = Len(stream) + n,
         \A j \in 1..Len(stream) : stream'[j] = stream[j],
         \A j \in 1..n : stream'[Len(stream) + j] = EncodeMessage(f)[j]
  PROVE  /\ StreamOf(script', ends', stream') /\ Len(script') = Len(script) + 1
         /\ \A i \in 1..Len(script) : script'[i] = script[i]
         /\ \A k \in 0..Len(script) : End(ends', k) = End(ends, k)
         /\ End(ends', Len(script) + 1) = Len(stream) + Len(EncodeMessage(f))
<1> DEFINE e == EncodeMessage(f)
           L == Len(script)
           N == Len(stream)
           x == N + Len(e)
<1>0. /\ script \in Seq(Frames) /\ stream \in Seq(Byte) /\ ends \in Seq(Nat) /\ Len(ends) = L
      /\ L \in Nat /\ N \in Nat
    BY DEF StreamOf
<1>1. e \in Seq(Byte) /\ Len(e) \in Nat /\ Len(e) >= 10 /\ x \in Nat /\ n \in Nat /\ n <= Len(e)
  <2>1. e \in Seq(Byte) /\ Len(e) = 10 + Len(f.payload) /\ Len(f.payload) \in Nat
      BY EncodeIs
  <2>2. n \in 1..Len(e)
      OBVIOUS
  <2> HIDE DEF e
  <2>3. Len(e) \in Nat /\ Len(e) >= 10
      BY <2>1
  <2>4. n \in Nat /\ n <= Len(e)
      BY <2>2, <2>3
  <2>5. x \in Nat
      BY <1>0, <2>3
  <2> QED BY <2>1, <2>3, <2>4, <2>5
<1> HIDE DEF e
<1>2. /\ script' \in Seq(Frames) /\ Len(script') = L + 1 /\ script'[L + 1] = f
      /\ \A i \in 1..L : script'[i] = script[i]
    BY <1>0, AppendProperties
<1>3. /\ ends' \in Seq(Nat) /\ Len(ends') = L + 1 /\ End(ends', L + 1) = x
      /\ \A k \in 0..L : End(ends', k) = End(ends, k)
    BY <1>0, <1>1, AppendProperties, EndAppend DEF e
<1>5. /\ stream' \in Seq(Byte) /\ Len(stream') = N + n
      /\ \A j \in 1..N : stream'[j] = stream[j]
      /\ \A j \in 1..n : stream'[N + j] = e[j]
    BY DEF e
<1>6. \A k \in 0..L : End(ends, k) \in Nat
    BY <1>0, EndNat
<1>7. \A k \in 0..(L + 1) : k \in 0..L \/ k = L + 1
  <2> HIDE DEF L
  <2> QED BY <1>0
<1>8. \A k \in 1..(L + 1) : \/ k \in 1..L /\ k - 1 \in 0..L /\ k \in 0..L
                            \/ k = L + 1 /\ k - 1 = L
  <2> HIDE DEF L
  <2> QED BY <1>0
<1>9. End(ends, L) = N /\ L \in 0..L
  <2>1. L \in 0..L
      BY <1>0
  <2> QED BY <2>1
<1>10. \A k \in 1..(L + 1) : End(ends', k) = End(ends', k - 1) + Len(EncodeMessage(script'[k]))
  <2> TAKE k \in 1..(L + 1)
  <2>1. CASE k \in 1..L /\ k - 1 \in 0..L /\ k \in 0..L
      BY <1>2, <1>3, <2>1 DEF StreamOf
  <2>2. CASE k = L + 1 /\ k - 1 = L
      BY <1>2, <1>3, <1>9, <2>2 DEF e
  <2> QED BY <1>8, <2>1, <2>2
<1>11. \A k, m \in 0..(L + 1) : k < m => End(ends', k) + 10 <= End(ends', m)
  <2> SUFFICES ASSUME NEW k \in 0..(L + 1), NEW m \in 0..(L + 1), k < m
               PROVE  End(ends', k) + 10 <= End(ends', m)
      OBVIOUS
  <2>1. k \in 0..L
      BY <1>0
  <2>2. CASE m \in 0..L
      BY <1>3, <2>1, <2>2 DEF StreamOf
  <2>3. CASE m = L + 1
    <3>1. End(ends, k) <= N
      <4>1. CASE k = L
          BY <1>0, <1>9, <4>1
      <4>2. CASE k < L
          BY <2>1, <4>2 DEF StreamOf
      <4> QED BY <1>0, <2>1, <4>1, <4>2
    <3>2. End(ends', m) = N + Len(e) /\ End(ends', k) = End(ends, k) /\ End(ends, k) \in Nat
        BY <1>3, <1>6, <2>1, <2>3
    <3>3. N \in Nat /\ Len(e) \in Nat /\ Len(e) >= 10
        BY <1>0, <1>1
    <3> HIDE DEF N
    <3>4. End(ends, k) + 10 <= N + Len(e)
        BY <3>1, <3>2, <3>3, LessThanMore
    <3> QED BY <3>2, <3>4
  <2> QED BY <1>7, <2>2, <2>3
<1>12. \A k \in 1..(L + 1) : \A j \in 1..Len(EncodeMessage(script'[k])) :
         End(ends', k - 1) + j <= N + n =>
           stream'[End(ends', k - 1) + j] = EncodeMessage(script'[k])[j]
  <2> SUFFICES ASSUME NEW k \in 1..(L + 1), NEW j \in 1..Len(EncodeMessage(script'[k])),
                      End(ends', k - 1) + j <= N + n
               PROVE  stream'[End(ends', k - 1) + j] = EncodeMessage(script'[k])[j]
      OBVIOUS
  <2>1. CASE k \in 1..L /\ k - 1 \in 0..L /\ k \in 0..L
    <3>1. /\ script'[k] = script[k] /\ End(ends', k - 1) = End(ends, k - 1)
          /\ End(ends, k - 1) \in Nat
        BY <1>2, <1>3, <1>6, <2>1
    <3>2. End(ends, k) = End(ends, k - 1) + Len(EncodeMessage(script[k])) /\ End(ends, k) <= N
      <4>1. CASE k = L
          BY <1>9, <2>1, <4>1 DEF StreamOf
      <4>2. CASE k < L
          BY <2>1, <4>2 DEF StreamOf
      <4> QED BY <1>0, <2>1, <4>1, <4>2
    <3>3. Len(EncodeMessage(script[k])) \in Nat
      <4>1. script[k] \in Frames
          BY <1>0, <2>1
      <4>2. EncodeMessage(script[k]) \in Seq(Byte)
          BY <4>1, EncodeIs
      <4> QED BY <4>2
    <3>4. End(ends, k - 1) + j <= N /\ End(ends, k - 1) + j \in 1..N
      <4>1. j \in 1..Len(EncodeMessage(script[k]))
          BY <3>1
      <4>2. j \in Nat /\ j >= 1 /\ j <= Len(EncodeMessage(script[k]))
          BY <3>3, <4>1
      <4>3. End(ends, k - 1) + j \in Nat /\ End(ends, k - 1) + j <= End(ends, k)
          BY <3>1, <3>2, <3>3, <4>2
      <4>4. End(ends, k) \in Nat
          BY <1>6, <2>1
      <4>5. N \in Nat /\ End(ends, k) <= N
          BY <1>0, <3>2
      <4> HIDE DEF N
      <4>6. End(ends, k - 1) + j <= N
          BY <4>3, <4>4, <4>5
      <4>7. End(ends, k - 1) + j >= 1
          BY <3>1, <4>2
      <4> QED BY <4>3, <4>5, <4>6, <4>7
    <3>5. stream[End(ends, k - 1) + j] = EncodeMessage(script[k])[j]
        BY <2>1, <3>1, <3>4 DEF StreamOf
    <3> QED BY <1>5, <3>1, <3>4, <3>5
  <2>2. CASE k = L + 1 /\ k - 1 = L
    <3>1. script'[k] = f /\ End(ends', k - 1) = N
        BY <1>2, <1>3, <1>9, <2>2
    <3>2. j \in 1..n
        BY <1>0, <1>1, <3>1
    <3> QED BY <1>5, <3>1, <3>2 DEF e
  <2> QED BY <1>8, <2>1, <2>2
<1>13. N + n <= End(ends', L + 1)
    BY <1>0, <1>1, <1>3
<1>14. \A k \in 0..(L + 1) : k < L + 1 => End(ends', k) <= N + n
  <2> SUFFICES ASSUME NEW k \in 0..(L + 1), k < L + 1 PROVE End(ends', k) <= N + n
      OBVIOUS
  <2>1. k \in 0..L
      BY <1>0
  <2>2. End(ends, k) <= N
    <3>1. CASE k = L
        BY <1>0, <1>9, <3>1
    <3>2. CASE k < L
        BY <2>1, <3>2 DEF StreamOf
    <3> QED BY <1>0, <2>1, <3>1, <3>2
  <2>3. End(ends', k) = End(ends, k) /\ End(ends, k) \in Nat
      BY <1>3, <1>6, <2>1
  <2>4. N \in Nat /\ n \in Nat
      BY <1>0, <1>1
  <2> HIDE DEF N
  <2> QED BY <2>2, <2>3, <2>4, LessThanMore
<1>15. StreamOf(script', ends', stream')
  <2>1. Len(ends') = Len(script') /\ Len(script') = L + 1 /\ Len(stream') = N + n
      BY <1>2, <1>3, <1>5
  <2> HIDE DEF L, N
  <2> QED BY <1>2, <1>3, <1>5, <1>10, <1>11, <1>12, <1>13, <1>14, <2>1 DEF StreamOf
<1> QED BY <1>2, <1>3, <1>5, <1>15 DEF e

\* The first n of the bytes of a frame behind a stream.
LEMMA PartWritten ==
  ASSUME NEW st \in Seq(Byte), NEW f \in Frames, NEW n \in 1..Len(EncodeMessage(f))
  PROVE  LET st2 == st \o SubSeq(EncodeMessage(f), 1, n) IN
         /\ st2 \in Seq(Byte) /\ Len(st2) = Len(st) + n
         /\ \A j \in 1..Len(st) : st2[j] = st[j]
         /\ \A j \in 1..n : st2[Len(st) + j] = EncodeMessage(f)[j]
<1> DEFINE e == EncodeMessage(f)
           part == SubSeq(e, 1, n)
           st2 == st \o part
<1>1. e \in Seq(Byte)
    BY EncodeIs
<1>2. Len(e) \in Nat /\ n \in Nat /\ n <= Len(e) /\ 1 <= n
  <2>1. n \in 1..Len(e)
      OBVIOUS
  <2> HIDE DEF e
  <2> QED BY <1>1, <2>1
<1> HIDE DEF e
<1>4. /\ part \in Seq(Byte) /\ Len(part) = n /\ \A j \in 1..n : part[j] = e[j]
  <2>1. \A i \in 1..n : e[i] \in Byte
      BY <1>1, <1>2
  <2>2. /\ part \in Seq(Byte) /\ Len(part) = IF 1 <= n THEN n - 1 + 1 ELSE 0
        /\ \A j \in 1..(n - 1 + 1) : part[j] = e[1 + j - 1]
      BY <1>2, <2>1, SubSeqProperties
  <2>3. n - 1 + 1 = n /\ 1 <= n /\ \A j \in 1..n : 1 + j - 1 = j
      BY <1>2
  <2> HIDE DEF part
  <2> QED BY <2>2, <2>3
<1> HIDE DEF part
<1>5. /\ st2 \in Seq(Byte) /\ Len(st2) = Len(st) + Len(part)
      /\ \A j \in 1..Len(st) : st2[j] = st[j]
      /\ \A j \in 1..Len(part) : st2[Len(st) + j] = part[j]
  <2>1. part \in Seq(Byte)
      BY <1>4
  <2> QED BY <2>1, Joined
<1> HIDE DEF st2
<1>6. /\ st2 \in Seq(Byte) /\ Len(st2) = Len(st) + n
      /\ \A j \in 1..Len(st) : st2[j] = st[j]
      /\ \A j \in 1..n : st2[Len(st) + j] = e[j]
    BY <1>4, <1>5
<1> QED BY <1>6 DEF st2, part, e

\* A frame, or a part of one, is written: the reader is not disturbed.
LEMMA WrittenStep ==
  ASSUME FramingInv, ~fin, Len(script) < MaxFrames,
         NEW f \in Frames, NEW n \in 1..Len(EncodeMessage(f)),
         script' = Append(script, f),
         ends' = Append(ends, Len(stream) + Len(EncodeMessage(f))),
         stream' \in Seq(Byte), Len(stream') = Len(stream) + n,
         \A j \in 1..Len(stream) : stream'[j] = stream[j],
         \A j \in 1..n : stream'[Len(stream) + j] = EncodeMessage(f)[j],
         fin' \in BOOLEAN, ~fin' => n = Len(EncodeMessage(f)),
         UNCHANGED <<pos, buf, eof, connected, phase, delivered>>
  PROVE  FramingInv'
<1> DEFINE d == Len(delivered)
<1>0. /\ StreamOf(script, ends, stream) /\ Len(stream) = End(ends, Len(script))
      /\ script \in Seq(Frames) /\ stream \in Seq(Byte) /\ ends \in Seq(Nat)
      /\ Len(script) \in Nat /\ Len(stream) \in Nat /\ Len(ends) = Len(script)
    BY DEF FramingInv, StreamInv, StreamOf
<1>1. /\ stream' \in Seq(Byte) /\ Len(stream') = Len(stream) + n
      /\ \A j \in 1..Len(stream) : stream'[j] = stream[j]
      /\ \A j \in 1..n : stream'[Len(stream) + j] = EncodeMessage(f)[j]
    OBVIOUS
<1>2. /\ StreamOf(script', ends', stream') /\ Len(script') = Len(script) + 1
      /\ \A i \in 1..Len(script) : script'[i] = script[i]
      /\ \A k \in 0..Len(script) : End(ends', k) = End(ends, k)
      /\ End(ends', Len(script) + 1) = Len(stream) + Len(EncodeMessage(f))
    BY <1>0, <1>1, StreamGrows
<1>3. /\ d \in Nat /\ d <= Len(script) /\ d \in 0..Len(script)
      /\ pos \in Nat /\ pos <= Len(stream)
      /\ delivered' = delivered /\ pos' = pos /\ phase' = phase /\ buf' = buf
      /\ connected' = connected /\ eof' = eof /\ n \in Nat /\ n >= 1
    BY <1>0 DEF FramingInv, ReaderInv
<1>4. Base' = Base
    BY <1>2, <1>3 DEF Base
<1>5. StreamInv'
  <2>1. Len(script') <= MaxFrames
      BY <1>0, <1>2, FramingConstants
  <2>2. ~fin' => Len(stream') = End(ends', Len(script'))
      BY <1>1, <1>2
  <2> QED BY <1>2, <2>1, <2>2 DEF StreamInv
<1>6. ReaderInv'
  <2>1. pos' \in 0..Len(stream')
      BY <1>0, <1>1, <1>3
  <2>2. \A i \in 1..d : delivered[i] = Message(script'[i]) /\ ~Bad(script'[i])
    <3> TAKE i \in 1..d
    <3>1. i \in 1..Len(script)
        BY <1>0, <1>3
    <3> QED BY <1>2, <3>1 DEF FramingInv, ReaderInv
  <2>3. Base \in Nat
      BY <1>0, <1>3, EndNat DEF Base
  <2>4. \A i \in 1..(pos - Base) : Base + i \in 1..Len(stream)
      BY <1>0, <1>3, <2>3
  <2>5. d <= Len(script')
      BY <1>0, <1>2, <1>3
  <2>6. (connected /\ (~eof \/ phase # "wait")) =>
          /\ Readable(buf) = pos - Base
          /\ \A i \in 1..(pos - Base) : At(buf, i) = stream'[Base + i]
      BY <1>1, <2>4 DEF FramingInv, ReaderInv
  <2>7. /\ buf \in Buffers(Byte) /\ eof \in BOOLEAN /\ connected \in BOOLEAN
        /\ phase \in {"wait", "read", "parse"}
        /\ delivered \in Seq([type : Nat, id : Nat, payload : Seq(Byte)]) /\ Base <= pos
        /\ phase # "wait" => connected
        /\ phase = "read" => ~eof
      BY DEF FramingInv, ReaderInv
  <2>8. /\ buf' \in Buffers(Byte) /\ eof' \in BOOLEAN /\ connected' \in BOOLEAN
        /\ phase' \in {"wait", "read", "parse"}
        /\ delivered' \in Seq([type : Nat, id : Nat, payload : Seq(Byte)]) /\ Base' <= pos'
        /\ Len(delivered') <= Len(script')
        /\ phase' # "wait" => connected'
        /\ phase' = "read" => ~eof'
      BY <1>3, <1>4, <2>5, <2>7
  <2>9. (connected' /\ (~eof' \/ phase' # "wait")) =>
          /\ Readable(buf') = pos' - Base'
          /\ \A i \in 1..(pos' - Base') : At(buf', i) = stream'[Base' + i]
      BY <1>3, <1>4, <2>6
  <2>10. \A i \in 1..Len(delivered') : delivered'[i] = Message(script'[i]) /\ ~Bad(script'[i])
      BY <1>3, <2>2
  <2> QED BY <2>1, <2>8, <2>9, <2>10 DEF ReaderInv, Bad, Message, Readable, At
<1>7. WaitInv'
  <2>1. CASE d < Len(script)
    <3>1. /\ d + 1 \in 1..Len(script) /\ d + 1 \in 0..Len(script) /\ d + 1 # 0
          /\ d < Len(script')
        BY <1>0, <1>2, <1>3, <2>1
    <3>2. script'[d + 1] = script[d + 1] /\ ends'[d + 1] = ends[d + 1]
        BY <1>2, <3>1 DEF End
    <3>3. /\ phase = "wait" => ends[d + 1] > pos \/ Bad(script[d + 1])
          /\ ~connected => Bad(script[d + 1])
        BY <2>1 DEF FramingInv, WaitInv
    <3>4. (phase' = "wait" /\ Len(delivered') < Len(script')) =>
            ends'[Len(delivered') + 1] > pos' \/ Bad(script'[Len(delivered') + 1])
        BY <1>3, <3>2, <3>3
    <3>5. ~connected' => Len(delivered') < Len(script') /\ Bad(script'[Len(delivered') + 1])
        BY <1>3, <3>1, <3>2, <3>3
    <3> QED BY <3>4, <3>5 DEF WaitInv, Bad
  <2>2. CASE d = Len(script)
    <3>1. connected
        BY <1>0, <2>2 DEF FramingInv, WaitInv
    <3>2. ends'[d + 1] = Len(stream) + Len(EncodeMessage(f)) /\ d + 1 # 0
        BY <1>0, <1>2, <2>2 DEF End
    <3>3. Len(EncodeMessage(f)) \in Nat /\ Len(EncodeMessage(f)) >= 1
      <4>1. /\ Len(EncodeMessage(f)) = 10 + Len(f.payload) /\ Len(f.payload) \in Nat
          BY EncodeIs
      <4> QED BY <4>1
    <3>4. ends'[d + 1] > pos
        BY <1>0, <1>3, <3>2, <3>3
    <3> QED BY <1>3, <3>1, <3>4 DEF WaitInv
  <2> QED BY <1>0, <1>3, <2>1, <2>2
<1> QED BY <1>5, <1>6, <1>7 DEF FramingInv

\* Each step of the sender keeps the invariant.
LEMMA SenderStep ==
  ASSUME FramingInv,
         \/ \E f \in Frames :
              SendFrame(f) \/ \E n \in 1..(9 + Len(f.payload)) : SendPart(f, n)
         \/ SendFin
  PROVE  FramingInv'
<1>1. ASSUME NEW f \in Frames, SendFrame(f) PROVE FramingInv'
  <2> DEFINE e == EncodeMessage(f)
  <2>1. e \in Seq(Byte) /\ Len(e) = 10 + Len(f.payload) /\ Len(f.payload) \in Nat
      BY EncodeIs
  <2>2. stream \in Seq(Byte) /\ fin \in BOOLEAN
      BY DEF FramingInv, StreamInv, StreamOf
  <2>3. SubSeq(e, 1, Len(e)) = e /\ Len(e) \in 1..Len(e)
    <3> HIDE DEF e
    <3> QED BY <2>1
  <2>4. Len(stream') = Len(stream) + Len(e) /\ stream' = stream \o SubSeq(e, 1, Len(e))
    <3>1. stream' = stream \o e
        BY <1>1 DEF SendFrame
    <3> HIDE DEF e
    <3>2. Len(stream \o e) = Len(stream) + Len(e)
        BY <2>1, <2>2, Joined
    <3> QED BY <2>3, <3>1, <3>2
  <2>5. ends' = Append(ends, Len(stream) + Len(e))
      BY <1>1, <2>4 DEF SendFrame
  <2>6. /\ stream' \in Seq(Byte) /\ Len(stream') = Len(stream) + Len(e)
        /\ \A j \in 1..Len(stream) : stream'[j] = stream[j]
        /\ \A j \in 1..Len(e) : stream'[Len(stream) + j] = e[j]
      BY <2>2, <2>3, <2>4, PartWritten
  <2> QED BY <1>1, <2>2, <2>3, <2>5, <2>6, WrittenStep DEF SendFrame
<1>2. ASSUME NEW f \in Frames, NEW n \in 1..(9 + Len(f.payload)), SendPart(f, n)
      PROVE  FramingInv'
  <2>1. Len(EncodeMessage(f)) = 10 + Len(f.payload) /\ Len(f.payload) \in Nat
      BY EncodeIs
  <2>2. n \in 1..Len(EncodeMessage(f))
      BY <2>1
  <2>3. stream \in Seq(Byte)
      BY DEF FramingInv, StreamInv, StreamOf
  <2>4. stream' = stream \o SubSeq(EncodeMessage(f), 1, n)
      BY <1>2 DEF SendPart
  <2>5. /\ stream' \in Seq(Byte) /\ Len(stream') = Len(stream) + n
        /\ \A j \in 1..Len(stream) : stream'[j] = stream[j]
        /\ \A j \in 1..n : stream'[Len(stream) + j] = EncodeMessage(f)[j]
      BY <2>2, <2>3, <2>4, PartWritten
  <2> QED BY <1>2, <2>2, <2>5, WrittenStep DEF SendPart
<1>3. CASE SendFin
  <2>1. /\ script' = script /\ ends' = ends /\ stream' = stream /\ fin' = TRUE /\ pos' = pos
        /\ buf' = buf /\ eof' = eof /\ connected' = connected /\ phase' = phase
        /\ delivered' = delivered
      BY <1>3 DEF SendFin
  <2>2. StreamInv'
      BY <2>1 DEF FramingInv, StreamInv
  <2>3. Base' = Base
      BY <2>1 DEF Base
  <2>4. ReaderInv' /\ WaitInv'
      BY <2>1, <2>3 DEF FramingInv, ReaderInv, WaitInv
  <2> QED BY <2>2, <2>4 DEF FramingInv
<1> QED BY <1>1, <1>2, <1>3

-----------------------------------------------------------------------------
(* The reader *)

\* What the reader's part of the invariant says of each variable.
LEMMA ReaderFacts ==
  ASSUME FramingInv
  PROVE  /\ pos \in Nat /\ pos <= Len(stream) /\ Len(stream) \in Nat
         /\ stream \in Seq(Byte) /\ script \in Seq(Frames) /\ Len(script) \in Nat
         /\ Len(delivered) \in Nat /\ Len(delivered) \in 0..Len(script)
         /\ delivered \in Seq([type : Nat, id : Nat, payload : Seq(Byte)])
         /\ Base \in Nat /\ Base <= pos /\ buf \in Buffers(Byte) /\ Readable(buf) \in Nat
         /\ \A i \in 1..(pos - Base) : Base + i \in 1..Len(stream)
<1>1. /\ stream \in Seq(Byte) /\ script \in Seq(Frames) /\ ends \in Seq(Nat)
      /\ Len(ends) = Len(script)
    BY DEF FramingInv, StreamInv, StreamOf
<1>2. /\ pos \in 0..Len(stream) /\ Len(delivered) <= Len(script)
      /\ delivered \in Seq([type : Nat, id : Nat, payload : Seq(Byte)])
      /\ Base <= pos /\ buf \in Buffers(Byte)
    BY DEF FramingInv, ReaderInv
<1>3. /\ Len(stream) \in Nat /\ Len(script) \in Nat /\ Len(delivered) \in Nat /\ pos \in Nat
      /\ pos <= Len(stream) /\ Len(delivered) \in 0..Len(script)
    BY <1>1, <1>2
<1>4. Base \in Nat
    BY <1>1, <1>3, EndNat DEF Base
<1>5. Readable(buf) \in Nat
    BY <1>2, BufferIs
<1>6. \A i \in 1..(pos - Base) : Base + i \in 1..Len(stream)
    BY <1>2, <1>3, <1>4
<1> QED BY <1>1, <1>2, <1>3, <1>4, <1>5, <1>6

\* A step of read() that delivers nothing and leaves in the buffer what was read.
LEMMA HeldStep ==
  ASSUME FramingInv, UNCHANGED <<script, ends, stream, fin, delivered>>,
         pos' \in Nat, pos <= pos', pos' <= Len(stream), buf' \in Buffers(Byte),
         eof' \in BOOLEAN, connected' = connected, connected,
         phase' \in {"read", "parse"}, phase' = "read" => ~eof',
         Readable(buf') = pos' - Base,
         \A i \in 1..(pos' - Base) : At(buf', i) = stream[Base + i]
  PROVE  FramingInv'
<1>0. /\ script' = script /\ ends' = ends /\ stream' = stream /\ fin' = fin
      /\ delivered' = delivered
    OBVIOUS
<1>1. StreamInv'
    BY <1>0 DEF FramingInv, StreamInv
<1>2. Base' = Base
    BY <1>0 DEF Base
<1>3. Base \in Nat /\ Base <= pos /\ pos \in Nat /\ Len(stream) \in Nat
    BY ReaderFacts
<1>4. pos' \in 0..Len(stream') /\ Base' <= pos'
    BY <1>0, <1>2, <1>3
<1>5. ReaderInv'
  <2>1. /\ delivered' \in Seq([type : Nat, id : Nat, payload : Seq(Byte)])
        /\ Len(delivered') <= Len(script')
        /\ \A i \in 1..Len(delivered') : delivered'[i] = Message(script'[i]) /\ ~Bad(script'[i])
      BY <1>0 DEF FramingInv, ReaderInv
  <2>2. connected' \in BOOLEAN /\ phase' \in {"wait", "read", "parse"}
      BY DEF FramingInv, ReaderInv
  <2>3. /\ Readable(buf') = pos' - Base'
        /\ \A i \in 1..(pos' - Base') : At(buf', i) = stream'[Base' + i]
      BY <1>0, <1>2
  <2> QED BY <1>4, <2>1, <2>2, <2>3 DEF ReaderInv, Bad, Message, Readable, At
<1>6. WaitInv'
    BY DEF WaitInv
<1> QED BY <1>1, <1>5, <1>6 DEF FramingInv

\* read() is called.
LEMMA PollStep == FramingInv /\ Poll => FramingInv'
<1> SUFFICES ASSUME FramingInv, Poll PROVE FramingInv'
    OBVIOUS
<1>0. /\ script' = script /\ ends' = ends /\ stream' = stream /\ fin' = fin
      /\ delivered' = delivered /\ pos' = pos /\ buf' = buf /\ eof' = eof
      /\ connected' = connected /\ connected /\ ~eof /\ phase' = "read"
    BY DEF Poll, sender
<1>1. /\ Readable(buf) = pos - Base /\ \A i \in 1..(pos - Base) : At(buf, i) = stream[Base + i]
      /\ eof \in BOOLEAN
    BY <1>0 DEF FramingInv, ReaderInv
<1>2. pos \in Nat /\ pos <= Len(stream) /\ buf \in Buffers(Byte) /\ pos <= pos
    BY ReaderFacts
<1> QED BY <1>0, <1>1, <1>2, HeldStep

\* The buffer makes room and is parsed, at the end of the stream or before it.
LEMMA ReadEndsStep == FramingInv /\ (ReadEof \/ ReadAgain) => FramingInv'
<1> SUFFICES ASSUME FramingInv, ReadEof \/ ReadAgain PROVE FramingInv'
    OBVIOUS
<1>0. /\ script' = script /\ ends' = ends /\ stream' = stream /\ fin' = fin
      /\ delivered' = delivered /\ pos' = pos /\ buf' = MakeRoom(buf, Extra, 0)
      /\ eof' \in {eof, TRUE} /\ connected' = connected /\ phase = "read" /\ phase' = "parse"
    BY DEF ReadEof, ReadAgain, sender
<1>1. /\ connected /\ ~eof /\ eof \in BOOLEAN
      /\ Readable(buf) = pos - Base /\ \A i \in 1..(pos - Base) : At(buf, i) = stream[Base + i]
    BY <1>0 DEF FramingInv, ReaderInv
<1>2. /\ pos \in Nat /\ pos <= Len(stream) /\ buf \in Buffers(Byte) /\ pos <= pos
    BY ReaderFacts
<1>3. 0 \in Byte /\ Extra \in Nat
    BY FramingConstants DEF Byte
<1>4. buf' \in Buffers(Byte) /\ Same(buf, buf')
    BY <1>0, <1>2, <1>3, MakeRoomKeeps
<1>5. /\ Readable(buf') = pos - Base
      /\ \A i \in 1..(pos - Base) : At(buf', i) = stream[Base + i]
    BY <1>1, <1>4 DEF Same
<1>6. eof' \in BOOLEAN
    BY <1>0, <1>1
<1> QED BY <1>0, <1>1, <1>2, <1>4, <1>5, <1>6, HeldStep

\* What readv() returned is behind what the buffer held.
LEMMA ReadSomeStep == FramingInv /\ ReadSome => FramingInv'
<1> SUFFICES ASSUME FramingInv, ReadSome PROVE FramingInv'
    OBVIOUS
<1> DEFINE rb == MakeRoom(buf, Extra, 0)
<1>0. /\ script' = script /\ ends' = ends /\ stream' = stream /\ fin' = fin
      /\ delivered' = delivered /\ eof' = eof
      /\ connected' = connected /\ phase = "read" /\ phase' = phase
    BY DEF ReadSome, sender
<1>1. /\ connected /\ ~eof /\ eof \in BOOLEAN
      /\ Readable(buf) = pos - Base /\ \A i \in 1..(pos - Base) : At(buf, i) = stream[Base + i]
    BY <1>0 DEF FramingInv, ReaderInv
<1>2. /\ pos \in Nat /\ pos <= Len(stream) /\ buf \in Buffers(Byte) /\ Base \in Nat
      /\ Base <= pos /\ stream \in Seq(Byte) /\ Len(stream) \in Nat
    BY ReaderFacts
<1>3. 0 \in Byte /\ Extra \in Nat
    BY FramingConstants DEF Byte
<1>4. rb \in Buffers(Byte) /\ Same(buf, rb) /\ Writable(rb) \in Nat
    BY <1>2, <1>3, MakeRoomKeeps
<1>5. PICK n \in 1..(Writable(rb) + Extra) :
        /\ pos + n <= Len(stream) /\ pos' = pos + n
        /\ buf' = ReadInto(rb, SubSeq(stream, pos + 1, pos + n), 0)
    BY DEF ReadSome
<1> HIDE DEF rb
<1> DEFINE bytes == SubSeq(stream, pos + 1, pos + n)
<1>6. n \in Nat /\ n >= 1
    BY <1>3, <1>4
<1>7. bytes \in Seq(Byte) /\ Len(bytes) = n /\ \A i \in 1..n : bytes[i] = stream[pos + i]
  <2>1. \A i \in (pos + 1)..(pos + n) : stream[i] \in Byte
      BY <1>2, <1>5, <1>6
  <2>2. pos + 1 \in Int /\ pos + n \in Int
      BY <1>2, <1>6
  <2>3. /\ bytes \in Seq(Byte)
        /\ Len(bytes) = IF pos + 1 <= pos + n THEN (pos + n) - (pos + 1) + 1 ELSE 0
        /\ \A i \in 1..((pos + n) - (pos + 1) + 1) : bytes[i] = stream[(pos + 1) + i - 1]
      BY <2>1, <2>2, SubSeqProperties
  <2>4. /\ (pos + n) - (pos + 1) + 1 = n /\ pos + 1 <= pos + n
        /\ \A i \in 1..n : (pos + 1) + i - 1 = pos + i
      BY <1>2, <1>6
  <2> HIDE DEF bytes
  <2> QED BY <2>3, <2>4
<1>8. buf' = ReadInto(rb, bytes, 0)
    BY <1>5
<1> HIDE DEF bytes
<1>9. buf' \in Buffers(Byte) /\ Appended(rb, bytes, buf')
    BY <1>3, <1>4, <1>7, <1>8, ReadIntoAppends
<1>10. Readable(rb) = pos - Base /\ Readable(buf') = pos' - Base
    BY <1>1, <1>2, <1>4, <1>5, <1>6, <1>7, <1>9 DEF Same, Appended
<1>11. ASSUME NEW i \in 1..(pos' - Base) PROVE At(buf', i) = stream[Base + i]
  <2>1. CASE i <= pos - Base
    <3>1. i \in 1..(pos - Base) /\ i \in 1..Readable(rb) /\ i \in 1..Readable(buf)
        BY <1>1, <1>2, <1>10, <2>1
    <3> QED BY <1>1, <1>4, <1>9, <3>1 DEF Same, Appended
  <2>2. CASE i > pos - Base
    <3> DEFINE j == i - (pos - Base)
    <3>1. j \in 1..n /\ j \in 1..Len(bytes) /\ Readable(rb) + j = i /\ pos + j = Base + i
        BY <1>2, <1>5, <1>6, <1>7, <1>10, <2>2
    <3> HIDE DEF j
    <3>2. At(buf', Readable(rb) + j) = bytes[j]
        BY <1>9, <3>1 DEF Appended
    <3> QED BY <1>7, <3>1, <3>2
  <2> QED BY <1>2, <2>1, <2>2
<1>12. pos' \in Nat /\ pos <= pos' /\ pos' <= Len(stream)
    BY <1>2, <1>5, <1>6
<1> QED BY <1>0, <1>1, <1>9, <1>10, <1>11, <1>12, HeldStep

\* Where the frame that comes after the delivered ones stands.
LEMMA NextFrame ==
  ASSUME FramingInv, Len(delivered) < Len(script)
  PROVE  LET f == script[Len(delivered) + 1] IN
         /\ f \in Frames /\ ends[Len(delivered) + 1] = Base + Len(EncodeMessage(f))
         /\ End(ends, Len(delivered) + 1) = ends[Len(delivered) + 1]
         /\ \A j \in 1..Len(EncodeMessage(f)) :
              Base + j <= Len(stream) => stream[Base + j] = EncodeMessage(f)[j]
<1> DEFINE d == Len(delivered)
           f == script[d + 1]
<1>0. /\ script \in Seq(Frames) /\ d \in Nat /\ Len(script) \in Nat
      /\ d + 1 \in 1..Len(script) /\ d + 1 # 0 /\ (d + 1) - 1 = d
    BY ReaderFacts
<1>1. f \in Frames
    BY <1>0
<1>2. End(ends, d + 1) = ends[d + 1]
    BY <1>0 DEF End
<1>3. StreamOf(script, ends, stream)
    BY DEF FramingInv, StreamInv
<1>4. /\ End(ends, d + 1) = End(ends, (d + 1) - 1) + Len(EncodeMessage(script[d + 1]))
      /\ \A j \in 1..Len(EncodeMessage(script[d + 1])) :
           End(ends, (d + 1) - 1) + j <= Len(stream) =>
             stream[End(ends, (d + 1) - 1) + j] = EncodeMessage(script[d + 1])[j]
  <2> HIDE DEF d
  <2> QED BY <1>0, <1>3 DEF StreamOf
<1> QED BY <1>0, <1>1, <1>2, <1>4 DEF Base

\* There is a next frame as soon as one of its bytes was read.
LEMMA MoreRead ==
  ASSUME FramingInv, pos > Base
  PROVE  Len(delivered) < Len(script)
<1>1. /\ pos \in Nat /\ pos <= Len(stream) /\ Len(stream) \in Nat /\ Base \in Nat
      /\ Len(delivered) \in 0..Len(script) /\ Len(script) \in Nat
    BY ReaderFacts
<1>2. Len(stream) <= End(ends, Len(script))
    BY DEF FramingInv, StreamInv, StreamOf
<1>3. End(ends, Len(script)) \in Nat
  <2>1. ends \in Seq(Nat) /\ Len(script) \in 0..Len(ends)
      BY <1>1 DEF FramingInv, StreamInv, StreamOf
  <2> QED BY <2>1, EndNat
<1>4. Base # End(ends, Len(script))
    BY <1>1, <1>2, <1>3
<1>5. Len(delivered) # Len(script)
    BY <1>4 DEF Base
<1> QED BY <1>1, <1>5

\* While parse() runs, the buffer starts with the bytes of the next frame.
LEMMA FrontBytes ==
  ASSUME FramingInv, phase = "parse", Len(delivered) < Len(script)
  PROVE  LET e == EncodeMessage(script[Len(delivered) + 1]) IN
         /\ Readable(buf) = pos - Base
         /\ \A j \in 1..Len(e) : j <= Readable(buf) => Peek(buf)[j] = e[j]
<1> DEFINE e == EncodeMessage(script[Len(delivered) + 1])
<1>0. connected /\ phase # "wait"
    BY DEF FramingInv, ReaderInv
<1>1. Readable(buf) = pos - Base /\ \A i \in 1..(pos - Base) : At(buf, i) = stream[Base + i]
    BY <1>0 DEF FramingInv, ReaderInv
<1>2. /\ pos \in Nat /\ pos <= Len(stream) /\ Len(stream) \in Nat /\ Base \in Nat
      /\ buf \in Buffers(Byte) /\ Readable(buf) \in Nat
    BY ReaderFacts
<1>3. \A i \in 1..Readable(buf) : Peek(buf)[i] = At(buf, i)
    BY <1>2, PeekIs
<1>4. \A j \in 1..Len(e) : Base + j <= Len(stream) => stream[Base + j] = e[j]
    BY NextFrame
<1>5. Len(e) \in Nat
  <2>1. script[Len(delivered) + 1] \in Frames
      BY NextFrame
  <2>2. e \in Seq(Byte)
      BY <2>1, EncodeIs
  <2> HIDE DEF e
  <2> QED BY <2>2
<1> HIDE DEF e
<1>6. ASSUME NEW j \in 1..Len(e), j <= Readable(buf) PROVE Peek(buf)[j] = e[j]
  <2>1. j \in 1..Readable(buf) /\ j \in 1..(pos - Base) /\ Base + j <= Len(stream)
      BY <1>1, <1>2, <1>5, <1>6
  <2> QED BY <1>1, <1>3, <1>4, <2>1
<1> QED BY <1>1, <1>6 DEF e

\* The length that parse() reads is that of the next frame.
LEMMA FrontLength ==
  ASSUME FramingInv, phase = "parse", HasLength
  PROVE  /\ Len(delivered) < Len(script) /\ script[Len(delivered) + 1] \in Frames
         /\ BodyLen = script[Len(delivered) + 1].length
<1> DEFINE f == script[Len(delivered) + 1]
           e == EncodeMessage(f)
<1>0. Readable(buf) >= 4 /\ Readable(buf) \in Nat
    BY ReaderFacts DEF HasLength
<1>1. Len(delivered) < Len(script)
  <2>1. connected /\ phase # "wait"
      BY DEF FramingInv, ReaderInv
  <2>2. Readable(buf) = pos - Base
      BY <2>1 DEF FramingInv, ReaderInv
  <2>3. pos \in Nat /\ Base \in Nat
      BY ReaderFacts
  <2>4. pos > Base
      BY <1>0, <2>2, <2>3
  <2> QED BY <2>4, MoreRead
<1>2. f \in Frames
    BY <1>1, NextFrame
<1>3. \A j \in 1..Len(e) : j <= Readable(buf) => Peek(buf)[j] = e[j]
    BY <1>1, FrontBytes
<1>4. Len(e) = 10 + Len(f.payload) /\ Len(f.payload) \in Nat /\ Host32(e, 0) = f.length
    BY <1>2, EncodeIs
<1> HIDE DEF e
<1>5. \A j \in 1..4 : Peek(buf)[0 + j] = e[0 + j]
  <2> TAKE j \in 1..4
  <2>1. j \in 1..Len(e) /\ j <= Readable(buf) /\ 0 + j = j
      BY <1>0, <1>4
  <2> QED BY <1>3, <2>1
<1>6. Host32(Peek(buf), 0) = Host32(e, 0)
    BY <1>5, HostOf
<1> QED BY <1>1, <1>2, <1>4, <1>6 DEF BodyLen

\* A frame that fits is complete when its last byte was read, and is then taken
\* as it was sent.
LEMMA FrontIs ==
  ASSUME FramingInv, phase = "parse", HasLength, ~LengthError
  PROVE  LET f == script[Len(delivered) + 1] IN
         /\ f.length = 6 + Len(f.payload) /\ f.length \in 6..MaxBody
         /\ ends[Len(delivered) + 1] = Base + (4 + BodyLen) /\ 4 + BodyLen \in Nat
         /\ Readable(buf) = pos - Base
         /\ Complete <=> ends[Len(delivered) + 1] <= pos
         /\ Complete => FrontMessage = Message(f)
<1> DEFINE f == script[Len(delivered) + 1]
           e == EncodeMessage(f)
           P == Peek(buf)
           y == f.payload
<1>0. Len(delivered) < Len(script) /\ f \in Frames /\ BodyLen = f.length
    BY FrontLength
<1>1. f.length \in Nat /\ y \in Seq(Byte) /\ MaxBody \in Nat
    BY <1>0, HeaderNat, FramingConstants
<1>2. f.length \in 6..MaxBody
    BY <1>0, <1>1 DEF LengthError
<1>3. f.length = 6 + Len(y) /\ Len(y) \in Nat
    BY <1>0, <1>1, <1>2, FramingConstants
<1>4. /\ Len(e) = 10 + Len(y) /\ Host16(e, 4) = f.type /\ Host32(e, 6) = f.id
      /\ \A j \in 1..Len(y) : e[10 + j] = y[j]
    BY <1>0, EncodeIs
<1>5. /\ Readable(buf) = pos - Base
      /\ \A j \in 1..Len(e) : j <= Readable(buf) => P[j] = e[j]
    BY <1>0, FrontBytes
<1>6. ends[Len(delivered) + 1] = Base + Len(e)
    BY <1>0, NextFrame
<1>7. pos \in Nat /\ Base \in Nat /\ buf \in Buffers(Byte)
    BY ReaderFacts
<1>8. P \in Seq(Byte) /\ Len(P) = Readable(buf)
    BY <1>7, PeekIs
<1> HIDE DEF e, P
<1>9. 4 + BodyLen = Len(e) /\ 4 + BodyLen \in Nat
    BY <1>0, <1>1, <1>3, <1>4
<1>10. Complete <=> ends[Len(delivered) + 1] <= pos
    BY <1>5, <1>6, <1>7, <1>9 DEF Complete
<1>11. ASSUME Complete PROVE FrontMessage = Message(f)
  <2>1. Readable(buf) >= Len(e) /\ Readable(buf) \in Nat /\ Len(e) \in Nat
      BY <1>5, <1>7, <1>8, <1>9, <1>11 DEF Complete
  <2>2. \A j \in 1..Len(e) : P[j] = e[j]
      BY <1>5, <2>1
  <2>3. /\ \A j \in 1..2 : P[4 + j] = e[4 + j]
        /\ \A j \in 1..4 : P[6 + j] = e[6 + j]
    <3>1. \A j \in 1..2 : 4 + j \in 1..Len(e)
        BY <1>3, <1>4
    <3>2. \A j \in 1..4 : 6 + j \in 1..Len(e)
        BY <1>3, <1>4
    <3> QED BY <2>2, <3>1, <3>2
  <2>4. Host16(P, 4) = f.type
      BY <1>4, <2>3, HostOf
  <2>5. Host32(P, 6) = f.id
      BY <1>4, <2>3, HostOf
  <2> DEFINE s == SubSeq(P, 11, 4 + BodyLen)
  <2>6. s = y
    <3>1. \A i \in 11..(4 + BodyLen) : P[i] \in Byte
        BY <1>8, <1>9, <2>1
    <3>2. /\ s \in Seq(Byte)
          /\ Len(s) = IF 11 <= 4 + BodyLen THEN (4 + BodyLen) - 11 + 1 ELSE 0
          /\ \A i \in 1..((4 + BodyLen) - 11 + 1) : s[i] = P[11 + i - 1]
      <4>1. 11 \in Int /\ 4 + BodyLen \in Int
          BY <1>9
      <4> QED BY <3>1, <4>1, SubSeqProperties
    <3> HIDE DEF s
    <3>3. /\ (4 + BodyLen) - 11 + 1 = Len(y)
          /\ (IF 11 <= 4 + BodyLen THEN (4 + BodyLen) - 11 + 1 ELSE 0) = Len(y)
          /\ \A i \in 1..Len(y) : 11 + i - 1 = 10 + i /\ 10 + i \in 1..Len(e)
        BY <1>0, <1>3, <1>4
    <3>4. Len(s) = Len(y) /\ \A i \in 1..Len(y) : s[i] = y[i]
        BY <1>4, <2>2, <3>2, <3>3
    <3> HIDE DEF y
    <3> QED BY <1>1, <3>2, <3>4, SeqEqual
  <2> HIDE DEF s
  <2>7. FrontMessage = [type |-> Host16(P, 4), id |-> Host32(P, 6), payload |-> s]
      BY DEF FrontMessage, P, s
  <2> QED BY <2>4, <2>5, <2>6, <2>7 DEF Message
<1> QED BY <1>2, <1>3, <1>5, <1>6, <1>9, <1>10, <1>11

\* parse() delivers the next frame and the buffer goes on behind it.
LEMMA ParseOkStep == FramingInv /\ ParseOk => FramingInv'
<1> SUFFICES ASSUME FramingInv, ParseOk PROVE FramingInv'
    OBVIOUS
<1> DEFINE d == Len(delivered)
           f == script[d + 1]
           len == 4 + BodyLen
<1>0. /\ script' = script /\ ends' = ends /\ stream' = stream /\ fin' = fin
      /\ pos' = pos /\ eof' = eof /\ connected' = connected /\ phase = "parse" /\ phase' = phase
      /\ buf' = MoveReadPtr(buf, len) /\ delivered' = Append(delivered, FrontMessage)
      /\ HasLength /\ ~LengthError /\ Complete /\ FrontMessage.type \in ValidTypes
    BY DEF ParseOk, sender
<1>1. d < Len(script) /\ f \in Frames
    BY <1>0, FrontLength
<1>2. /\ f.length \in 6..MaxBody /\ ends[d + 1] = Base + len /\ len \in Nat
      /\ Readable(buf) = pos - Base /\ ends[d + 1] <= pos /\ FrontMessage = Message(f)
    BY <1>0, FrontIs
<1>3. ~Bad(f)
    BY <1>0, <1>2 DEF Bad, Message
<1>4. End(ends, d + 1) = ends[d + 1]
    BY <1>1, NextFrame
<1>5. /\ pos \in Nat /\ pos <= Len(stream) /\ Len(stream) \in Nat /\ Base \in Nat
      /\ buf \in Buffers(Byte) /\ Readable(buf) \in Nat /\ d \in Nat /\ Len(script) \in Nat
      /\ delivered \in Seq([type : Nat, id : Nat, payload : Seq(Byte)])
    BY ReaderFacts
<1>6. Message(f) \in [type : Nat, id : Nat, payload : Seq(Byte)]
    BY <1>1, HeaderNat DEF Message
<1>7. /\ delivered' \in Seq([type : Nat, id : Nat, payload : Seq(Byte)])
      /\ Len(delivered') = d + 1 /\ delivered'[d + 1] = Message(f)
      /\ \A i \in 1..d : delivered'[i] = delivered[i]
  <2>1. delivered' = Append(delivered, Message(f))
      BY <1>0, <1>2
  <2> HIDE DEF f
  <2> QED BY <1>5, <1>6, <2>1, AppendProperties
<1>8. Base' = Base + len
    BY <1>0, <1>2, <1>4, <1>7 DEF Base
<1> HIDE DEF len
<1>9. /\ buf' \in Buffers(Byte) /\ Readable(buf') = Readable(buf) - len
      /\ \A i \in 1..(Readable(buf) - len) : At(buf', i) = At(buf, len + i)
  <2>1. len <= Readable(buf)
      BY <1>2, <1>5
  <2> QED BY <1>0, <1>2, <1>5, <2>1, MoveReadPtrDrops
<1>10. StreamInv'
    BY <1>0 DEF FramingInv, StreamInv
<1>11. /\ connected /\ eof \in BOOLEAN
       /\ \A i \in 1..(pos - Base) : At(buf, i) = stream[Base + i]
       /\ \A i \in 1..d : delivered[i] = Message(script[i]) /\ ~Bad(script[i])
    BY <1>0 DEF FramingInv, ReaderInv
<1>12. Readable(buf') = pos' - Base'
    BY <1>0, <1>2, <1>5, <1>8, <1>9
<1>13. \A i \in 1..(pos' - Base') : At(buf', i) = stream'[Base' + i]
  <2> TAKE i \in 1..(pos' - Base')
  <2>1. /\ i \in 1..(Readable(buf) - len) /\ len + i \in 1..(pos - Base)
        /\ Base + (len + i) = (Base + len) + i
      BY <1>0, <1>2, <1>5, <1>8
  <2> QED BY <1>0, <1>8, <1>9, <1>11, <2>1
<1>14. \A i \in 1..Len(delivered') : delivered'[i] = Message(script'[i]) /\ ~Bad(script'[i])
  <2> TAKE i \in 1..Len(delivered')
  <2>1. i \in 1..d \/ i = d + 1
      BY <1>5, <1>7
  <2> QED BY <1>0, <1>3, <1>7, <1>11, <2>1
<1>15. /\ pos' \in 0..Len(stream') /\ Len(delivered') <= Len(script') /\ Base' <= pos'
    BY <1>0, <1>1, <1>2, <1>5, <1>7, <1>8
<1>16. ReaderInv'
  <2>1. /\ eof' \in BOOLEAN /\ connected' \in BOOLEAN /\ phase' \in {"wait", "read", "parse"}
        /\ phase' # "wait" => connected'
        /\ phase' = "read" => ~eof'
      BY <1>0, <1>11
  <2> QED BY <1>7, <1>9, <1>12, <1>13, <1>14, <1>15, <2>1
          DEF ReaderInv, Bad, Message, Readable, At
<1>17. WaitInv'
    BY <1>0, <1>11 DEF WaitInv
<1> QED BY <1>10, <1>16, <1>17 DEF FramingInv

\* A step of parse() that delivers nothing and ends the call of read(): what is
\* in the buffer is kept if there may be more to come.
LEMMA EndsStep ==
  ASSUME FramingInv, UNCHANGED <<script, ends, stream, fin, pos, eof, delivered>>,
         phase = "parse", phase' = "wait", buf' \in Buffers(Byte), connected' \in BOOLEAN,
         connected' /\ ~eof => buf' = buf,
         Len(delivered) < Len(script) =>
           ends[Len(delivered) + 1] > pos \/ Bad(script[Len(delivered) + 1]),
         ~connected' => Len(delivered) < Len(script) /\ Bad(script[Len(delivered) + 1])
  PROVE  FramingInv'
<1>0. /\ script' = script /\ ends' = ends /\ stream' = stream /\ fin' = fin
      /\ delivered' = delivered /\ pos' = pos /\ eof' = eof
    OBVIOUS
<1>1. StreamInv'
    BY <1>0 DEF FramingInv, StreamInv
<1>2. Base' = Base
    BY <1>0 DEF Base
<1>3. ReaderInv'
  <2>1. /\ pos' \in 0..Len(stream') /\ eof' \in BOOLEAN
        /\ delivered' \in Seq([type : Nat, id : Nat, payload : Seq(Byte)])
        /\ Len(delivered') <= Len(script') /\ Base' <= pos'
        /\ \A i \in 1..Len(delivered') : delivered'[i] = Message(script'[i]) /\ ~Bad(script'[i])
      BY <1>0, <1>2 DEF FramingInv, ReaderInv
  <2>2. ASSUME connected', ~eof'
        PROVE  /\ Readable(buf') = pos' - Base'
               /\ \A i \in 1..(pos' - Base') : At(buf', i) = stream'[Base' + i]
    <3>1. buf' = buf
        BY <1>0, <2>2
    <3>2. connected /\ phase # "wait"
        BY DEF FramingInv, ReaderInv
    <3>3. Readable(buf) = pos - Base /\ \A i \in 1..(pos - Base) : At(buf, i) = stream[Base + i]
        BY <3>2 DEF FramingInv, ReaderInv
    <3> QED BY <1>0, <1>2, <3>1, <3>3
  <2> QED BY <2>1, <2>2 DEF ReaderInv, Bad, Message, Readable, At
<1>4. WaitInv'
    BY <1>0 DEF WaitInv, Bad
<1> QED BY <1>1, <1>3, <1>4 DEF FramingInv

\* parse() closes the connection for a bad frame only.
LEMMA ParseErrorStep == FramingInv /\ ParseError => FramingInv'
<1> SUFFICES ASSUME FramingInv, ParseError PROVE FramingInv'
    OBVIOUS
<1> DEFINE d == Len(delivered)
           f == script[d + 1]
           len == 4 + BodyLen
<1>0. /\ script' = script /\ ends' = ends /\ stream' = stream /\ fin' = fin
      /\ pos' = pos /\ eof' = eof /\ phase = "parse" /\ phase' = "wait" /\ HasLength
      /\ delivered' = delivered /\ connected' = FALSE
    BY DEF ParseError, sender
<1>1. d < Len(script) /\ f \in Frames /\ BodyLen = f.length
    BY <1>0, FrontLength
<1>2. buf \in Buffers(Byte) /\ f.length \in Nat /\ MaxBody \in Nat /\ Readable(buf) \in Nat
    BY <1>1, ReaderFacts, HeaderNat, FramingConstants
<1>3. Bad(f) /\ buf' \in Buffers(Byte)
  <2>1. CASE LengthError /\ UNCHANGED buf
    <3>1. f.length \notin 6..MaxBody
        BY <1>1, <1>2, <2>1 DEF LengthError
    <3> QED BY <1>2, <2>1, <3>1 DEF Bad
  <2>2. CASE /\ ~LengthError /\ Complete /\ FrontMessage.type \notin ValidTypes
             /\ buf' = MoveReadPtr(buf, len)
    <3>1. len \in Nat /\ FrontMessage = Message(f)
        BY <1>0, <2>2, FrontIs
    <3>2. Bad(f)
        BY <2>2, <3>1 DEF Bad, Message
    <3>3. len <= Readable(buf)
        BY <1>2, <2>2, <3>1 DEF Complete
    <3> HIDE DEF len
    <3> QED BY <1>2, <2>2, <3>1, <3>2, <3>3, MoveReadPtrDrops
  <2> QED BY <2>1, <2>2 DEF ParseError
<1>4. connected' \in BOOLEAN /\ ~connected'
    BY <1>0
<1> QED BY <1>0, <1>1, <1>3, <1>4, EndsStep

\* parse() waits for the rest of a frame only while a part of it is missing.
LEMMA ParseMoreStep == FramingInv /\ ParseMore => FramingInv'
<1> SUFFICES ASSUME FramingInv, ParseMore PROVE FramingInv'
    OBVIOUS
<1> DEFINE d == Len(delivered)
<1>0. /\ script' = script /\ ends' = ends /\ stream' = stream /\ fin' = fin
      /\ pos' = pos /\ eof' = eof /\ phase = "parse" /\ phase' = "wait"
      /\ delivered' = delivered /\ connected' = connected
      /\ ~HasLength \/ (HasLength /\ ~LengthError /\ ~Complete)
    BY DEF ParseMore, sender
<1>1. buf \in Buffers(Byte) /\ Readable(buf) \in Nat /\ pos \in Nat /\ Base \in Nat
    BY ReaderFacts
<1>2. connected /\ phase # "wait" /\ eof \in BOOLEAN
    BY <1>0 DEF FramingInv, ReaderInv
<1>3. buf' \in Buffers(Byte) /\ (~eof => buf' = buf)
  <2>1. CASE eof /\ Readable(buf) > 0
    <3>1. buf' = MoveReadPtr(buf, Readable(buf)) /\ Readable(buf) <= Readable(buf)
        BY <1>1, <2>1 DEF ParseMore
    <3>2. buf' \in Buffers(Byte)
        BY <1>1, <3>1, MoveReadPtrDrops
    <3> QED BY <2>1, <3>2
  <2>2. CASE ~ (eof /\ Readable(buf) > 0)
      BY <1>1, <2>2 DEF ParseMore
  <2> QED BY <2>1, <2>2
<1>4. ASSUME d < Len(script) PROVE ends[d + 1] > pos
  <2> DEFINE f == script[d + 1]
  <2>1. /\ f \in Frames /\ ends[d + 1] = Base + Len(EncodeMessage(f))
      BY <1>4, NextFrame
  <2>2. Len(EncodeMessage(f)) = 10 + Len(f.payload) /\ Len(f.payload) \in Nat
      BY <2>1, EncodeIs
  <2>3. Readable(buf) = pos - Base
      BY <1>0, <1>4, FrontBytes
  <2>4. CASE ~HasLength
    <3>1. ~ (Readable(buf) >= 4)
        BY <2>4 DEF HasLength
    <3> HIDE DEF f
    <3> QED BY <1>1, <2>1, <2>2, <2>3, <3>1
  <2>5. CASE HasLength /\ ~LengthError /\ ~Complete
    <3>1. ~ (ends[d + 1] <= pos)
        BY <1>0, <2>5, FrontIs
    <3>2. ends[d + 1] \in Nat
      <4> HIDE DEF f
      <4> QED BY <1>1, <2>1, <2>2
    <3> QED BY <1>1, <3>1, <3>2
  <2> QED BY <1>0, <2>4, <2>5
<1>5. connected' \in BOOLEAN /\ connected'
    BY <1>0, <1>2
<1> QED BY <1>0, <1>3, <1>4, <1>5, EndsStep

\* Every step keeps the invariant.
LEMMA FramingStep == FramingInv /\ [FramingNext]_framingVars => FramingInv'
<1> SUFFICES ASSUME FramingInv, [FramingNext]_framingVars PROVE FramingInv'
    OBVIOUS
<1>1. CASE UNCHANGED framingVars
  <2>1. /\ script' = script /\ ends' = ends /\ stream' = stream /\ fin' = fin /\ pos' = pos
        /\ buf' = buf /\ eof' = eof /\ connected' = connected /\ phase' = phase
        /\ delivered' = delivered
      BY <1>1 DEF framingVars, sender
  <2>2. Base' = Base
      BY <2>1 DEF Base
  <2>3. StreamInv' /\ ReaderInv' /\ WaitInv'
      BY <2>1, <2>2 DEF FramingInv, StreamInv, ReaderInv, WaitInv
  <2> QED BY <2>3 DEF FramingInv
<1>2. CASE \/ \E f \in Frames :
                SendFrame(f) \/ \E n \in 1..(9 + Len(f.payload)) : SendPart(f, n)
           \/ SendFin
    BY <1>2, SenderStep
<1>3. CASE Poll
    BY <1>3, PollStep
<1>4. CASE ReadSome
    BY <1>4, ReadSomeStep
<1>5. CASE ReadEof \/ ReadAgain
    BY <1>5, ReadEndsStep
<1>6. CASE ParseOk
    BY <1>6, ParseOkStep
<1>7. CASE ParseError
    BY <1>7, ParseErrorStep
<1>8. CASE ParseMore
    BY <1>8, ParseMoreStep
<1>9. CASE Finished
    BY <1>1, <1>9 DEF Finished
<1> QED BY <1>1, <1>2, <1>3, <1>4, <1>5, <1>6, <1>7, <1>8, <1>9 DEF FramingNext

\* The invariant holds of every behaviour of the stream and its reader.
THEOREM FramingInvariance == FramingSpec => []FramingInv
BY InitFraming, FramingStep, PTL DEF FramingSpec

\* The delivered frames are those that have arrived whole with no bad one before.
LEMMA WholeFrames ==
  ASSUME FramingInv, phase = "wait"
  PROVE  1..Len(delivered) =
           {k \in 1..Len(script) : ends[k] <= pos /\ \A i \in 1..k : ~Bad(script[i])}
<1> DEFINE d == Len(delivered)
           InFull == {k \in 1..Len(script) : ends[k] <= pos /\ \A i \in 1..k : ~Bad(script[i])}
<1>0. /\ d \in Nat /\ Len(script) \in Nat /\ d <= Len(script) /\ pos \in Nat /\ Base \in Nat
      /\ Base <= pos /\ ends \in Seq(Nat) /\ Len(ends) = Len(script)
  <2>1. ends \in Seq(Nat) /\ Len(ends) = Len(script)
      BY DEF FramingInv, StreamInv, StreamOf
  <2> QED BY <2>1, ReaderFacts
<1>1. \A k, m \in 0..Len(script) : k < m => End(ends, k) + 10 <= End(ends, m)
    BY DEF FramingInv, StreamInv, StreamOf
<1>2. \A k \in 1..Len(script) : End(ends, k) = ends[k] /\ ends[k] \in Nat
  <2> TAKE k \in 1..Len(script)
  <2>1. k # 0
      BY <1>0
  <2> QED BY <1>0, <2>1 DEF End
<1>3. ASSUME NEW k \in 1..d PROVE k \in InFull
  <2>1. k \in 1..Len(script) /\ k \in 0..Len(script) /\ d \in 0..Len(script)
      BY <1>0
  <2>2. ends[k] <= pos
    <3>1. CASE k = d
      <4>1. ends[k] = Base
          BY <1>2, <2>1, <3>1 DEF Base
      <4> QED BY <1>0, <4>1
    <3>2. CASE k < d
      <4>1. ends[k] + 10 <= Base
          BY <1>1, <1>2, <2>1, <3>2 DEF Base
      <4> QED BY <1>0, <1>2, <2>1, <4>1
    <3> QED BY <1>0, <3>1, <3>2
  <2>3. ASSUME NEW i \in 1..k PROVE ~Bad(script[i])
    <3>1. i \in 1..d
        BY <1>0
    <3> QED BY <3>1 DEF FramingInv, ReaderInv
  <2> QED BY <2>1, <2>2, <2>3
<1>4. ASSUME NEW k \in InFull PROVE k \in 1..d
  <2>1. k \in 1..Len(script) /\ k \in 0..Len(script) /\ ends[k] <= pos
      BY <1>0
  <2>2. \A i \in 1..k : ~Bad(script[i])
      OBVIOUS
  <2>3. SUFFICES ASSUME k > d PROVE FALSE
      BY <1>0, <2>1
  <2>4. /\ d < Len(script) /\ d + 1 \in 1..k /\ d + 1 \in 1..Len(script)
        /\ d + 1 \in 0..Len(script)
      BY <1>0, <2>1, <2>3
  <2>5. ends[d + 1] > pos
    <3>1. ~Bad(script[d + 1])
        BY <2>2, <2>4
    <3> QED BY <2>4, <3>1 DEF FramingInv, WaitInv
  <2>6. ends[d + 1] <= ends[k]
    <3>1. CASE k = d + 1
        BY <1>2, <2>1, <3>1
    <3>2. CASE k > d + 1
      <4>1. ends[d + 1] + 10 <= ends[k]
          BY <1>1, <1>2, <2>1, <2>4, <3>2
      <4> QED BY <1>2, <2>1, <2>4, <4>1
    <3> QED BY <1>0, <2>1, <2>3, <3>1, <3>2
  <2> QED BY <1>0, <1>2, <2>1, <2>4, <2>5, <2>6
<1> HIDE DEF InFull
<1>5. 1..d = InFull
    BY <1>3, <1>4
<1> QED BY <1>5 DEF InFull

\* The buffer holds the bytes between what was delivered and what was read.
LEMMA HeldBytes ==
  ASSUME FramingInv, connected, ~eof
  PROVE  Peek(buf) = SubSeq(stream, Base + 1, pos)
<1> DEFINE s == SubSeq(stream, Base + 1, pos)
           P == Peek(buf)
<1>0. /\ pos \in Nat /\ pos <= Len(stream) /\ Len(stream) \in Nat /\ Base \in Nat /\ Base <= pos
      /\ buf \in Buffers(Byte) /\ Readable(buf) \in Nat /\ stream \in Seq(Byte)
    BY ReaderFacts
<1>1. Readable(buf) = pos - Base /\ \A i \in 1..(pos - Base) : At(buf, i) = stream[Base + i]
    BY DEF FramingInv, ReaderInv
<1>2. P \in Seq(Byte) /\ Len(P) = Readable(buf) /\ \A i \in 1..Readable(buf) : P[i] = At(buf, i)
    BY <1>0, PeekIs
<1>3. \A i \in (Base + 1)..pos : stream[i] \in Byte
    BY <1>0
<1>4. /\ s \in Seq(Byte)
      /\ Len(s) = IF Base + 1 <= pos THEN pos - (Base + 1) + 1 ELSE 0
      /\ \A i \in 1..(pos - (Base + 1) + 1) : s[i] = stream[(Base + 1) + i - 1]
  <2>1. Base + 1 \in Int /\ pos \in Int
      BY <1>0
  <2> QED BY <1>3, <2>1, SubSeqProperties
<1> HIDE DEF s, P
<1>5. /\ pos - (Base + 1) + 1 = pos - Base
      /\ (IF Base + 1 <= pos THEN pos - (Base + 1) + 1 ELSE 0) = pos - Base
      /\ \A i \in 1..(pos - Base) : (Base + 1) + i - 1 = Base + i
    BY <1>0
<1>6. Len(P) = Len(s) /\ \A i \in 1..Len(P) : P[i] = s[i]
    BY <1>1, <1>2, <1>4, <1>5
<1>7. P = s
    BY <1>2, <1>4, <1>6, SeqEqual
<1> QED BY <1>7 DEF P, s

\* However the stream is cut into readv() calls, read() delivers exactly the frames
\* that have arrived whole, up to the first malformed one: for every size of the
\* buffer, every limit on a frame and every set of frames a sender may write.
THEOREM FramesDeliveredHolds == FramingSpec => []FramesDelivered
<1>1. FramingInv => FramesDelivered
  <2> SUFFICES ASSUME FramingInv PROVE FramesDelivered
      OBVIOUS
  <2>1. FramingTypeOK
    <3>1. buf.rd <= buf.wr /\ buf.wr <= Len(buf.data)
        BY ReaderFacts, BufferIs
    <3> QED BY <3>1 DEF FramingInv, StreamInv, StreamOf, ReaderInv, FramingTypeOK
  <2>2. \A i \in 1..Len(delivered) : i <= Len(script) /\ delivered[i] = Message(script[i])
    <3> TAKE i \in 1..Len(delivered)
    <3>1. i <= Len(script)
        BY ReaderFacts
    <3> QED BY <3>1 DEF FramingInv, ReaderInv
  <2>3. phase = "wait" =>
          1..Len(delivered) =
            {k \in 1..Len(script) : ends[k] <= pos /\ \A i \in 1..k : ~Bad(script[i])}
      BY WholeFrames
  <2>4. (connected /\ ~eof) => Peek(buf) = SubSeq(stream, End(ends, Len(delivered)) + 1, pos)
      BY HeldBytes DEF Base
  <2>5. ~connected => \E i \in 1..Len(script) : Bad(script[i])
    <3>1. ASSUME ~connected PROVE \E i \in 1..Len(script) : Bad(script[i])
      <4>1. Len(delivered) < Len(script) /\ Bad(script[Len(delivered) + 1])
          BY <3>1 DEF FramingInv, WaitInv
      <4>2. Len(delivered) + 1 \in 1..Len(script)
          BY <4>1, ReaderFacts
      <4> QED BY <4>1, <4>2
    <3> QED BY <3>1
  <2> QED BY <2>1, <2>2, <2>3, <2>4, <2>5 DEF FramesDelivered
<1> QED BY <1>1, FramingInvariance, PTL

-----------------------------------------------------------------------------
(* HTTP requests and their tokens *)

\* The assumption on the constants, by its parts.
LEMMA HttpConstants ==
  /\ HttpSize \in Nat /\ HttpSize >= 2 /\ HttpExtra \in Nat /\ HttpMax \in Nat
  /\ MaxRequests \in Nat /\ CR \notin HttpTexts
  /\ \A r \in HttpRequests :
       /\ r.line \in HttpTexts /\ r.fields \in Seq(HttpTexts) /\ r.body \in Seq(Token)
       /\ LengthAfter(r.fields, Len(r.fields), NoLength) => r.body = <<>>
       /\ \A n \in 0..HttpMax :
            LengthAfter(r.fields, Len(r.fields), <<"Content-Length", n>>) => Len(r.body) = n
BY HttpAssumption

\* The ends of lines and the blank are tokens, and so are texts.
LEMMA Tokens == Blank \in Token /\ CR \in Token /\ LF \in Token /\ HttpTexts \subseteq Token
BY DEF Token

\* Where the k-th line stands in a header.
LEMMA LinePlaces ==
  ASSUME NEW k \in Nat, k >= 1
  PROVE  /\ ((3 * k - 2) + 2) \div 3 = k /\ ((3 * k - 2) + 2) % 3 = 0
         /\ ((3 * k - 1) + 2) \div 3 = k /\ ((3 * k - 1) + 2) % 3 = 1
         /\ ((3 * k) + 2) \div 3 = k /\ ((3 * k) + 2) % 3 = 2
OBVIOUS

\* A place in a header belongs to one of its lines.
LEMMA PlaceLine ==
  ASSUME NEW n \in Nat, NEW i \in 1..(3 * n)
  PROVE  (i + 2) \div 3 \in 1..n /\ (i + 2) % 3 \in {0, 1, 2}
OBVIOUS

\* The tokens of the lines of a header.
LEMMA HeaderTokensAre ==
  ASSUME NEW lines \in Seq(HttpTexts)
  PROVE  LET h == HeaderTokens(lines) IN
         /\ h \in Seq(Token) /\ Len(h) = 3 * Len(lines)
         /\ \A k \in 1..Len(lines) :
              h[3 * k - 2] = lines[k] /\ h[3 * k - 1] = CR /\ h[3 * k] = LF
<1> DEFINE n == Len(lines)
           h == HeaderTokens(lines)
<1>0. n \in Nat /\ 3 * n \in Nat
    OBVIOUS
<1>1. \A t : Line(t)[0 + 1] = t /\ Line(t)[1 + 1] = CR /\ Line(t)[2 + 1] = LF
    BY DEF Line
<1>2. \A k \in 1..n : lines[k] \in HttpTexts
    OBVIOUS
<1>3. h = [i \in 1..(3 * n) |-> Line(lines[(i + 2) \div 3])[((i + 2) % 3) + 1]]
    BY DEF HeaderTokens
<1>4. h \in [1..(3 * n) -> Token]
  <2>1. ASSUME NEW i \in 1..(3 * n)
        PROVE  Line(lines[(i + 2) \div 3])[((i + 2) % 3) + 1] \in Token
    <3>1. (i + 2) \div 3 \in 1..n /\ (i + 2) % 3 \in {0, 1, 2}
        BY <1>0, PlaceLine
    <3> DEFINE t == lines[(i + 2) \div 3]
    <3>2. t \in Token
        BY <1>2, <3>1, Tokens
    <3> HIDE DEF t
    <3>3. Line(t)[0 + 1] \in Token /\ Line(t)[1 + 1] \in Token /\ Line(t)[2 + 1] \in Token
        BY <1>1, <3>2, Tokens
    <3>4. Line(t)[((i + 2) % 3) + 1] \in Token
        BY <3>1, <3>3
    <3> QED BY <3>4 DEF t
  <2> QED BY <1>3, <2>1
<1>5. h \in Seq(Token) /\ Len(h) = 3 * n
  <2> HIDE DEF h, n
  <2> QED BY <1>0, <1>4
<1>6. ASSUME NEW k \in 1..n PROVE h[3 * k - 2] = lines[k] /\ h[3 * k - 1] = CR /\ h[3 * k] = LF
  <2>0. k \in Nat /\ k >= 1
      BY <1>0
  <2>1. 3 * k - 2 \in 1..(3 * n) /\ 3 * k - 1 \in 1..(3 * n) /\ 3 * k \in 1..(3 * n)
    <3>1. k <= n
        BY <1>0
    <3> HIDE DEF n
    <3> QED BY <1>0, <2>0, <3>1
  <2>2. /\ h[3 * k - 2] = Line(lines[k])[0 + 1]
        /\ h[3 * k - 1] = Line(lines[k])[1 + 1]
        /\ h[3 * k] = Line(lines[k])[2 + 1]
    <3>1. /\ ((3 * k - 2) + 2) \div 3 = k /\ ((3 * k - 2) + 2) % 3 = 0
          /\ ((3 * k - 1) + 2) \div 3 = k /\ ((3 * k - 1) + 2) % 3 = 1
          /\ ((3 * k) + 2) \div 3 = k /\ ((3 * k) + 2) % 3 = 2
        BY <2>0, LinePlaces
    <3>2. h[3 * k - 2] =
            Line(lines[((3 * k - 2) + 2) \div 3])[(((3 * k - 2) + 2) % 3) + 1]
        BY <1>3, <2>1
    <3>3. h[3 * k - 1] =
            Line(lines[((3 * k - 1) + 2) \div 3])[(((3 * k - 1) + 2) % 3) + 1]
        BY <1>3, <2>1
    <3>4. h[3 * k] = Line(lines[((3 * k) + 2) \div 3])[(((3 * k) + 2) % 3) + 1]
        BY <1>3, <2>1
    <3> HIDE DEF h
    <3> QED BY <3>1, <3>2, <3>3, <3>4
  <2> QED BY <1>1, <2>2
<1> QED BY <1>5, <1>6

\* The tokens of a request, one by one.
LEMMA EncodeRequestIs ==
  ASSUME NEW r \in HttpRequests
  PROVE  LET e == EncodeRequest(r)
             n == Len(r.fields)
         IN  /\ e \in Seq(Token) /\ n \in Nat /\ Len(r.body) \in Nat
             /\ Len(e) = 3 * n + 5 + Len(r.body)
             /\ e[1] = r.line /\ e[2] = CR /\ e[3] = LF
             /\ \A k \in 1..n :
                  e[3 * k + 1] = r.fields[k] /\ e[3 * k + 2] = CR /\ e[3 * k + 3] = LF
             /\ e[3 * n + 4] = CR /\ e[3 * n + 5] = LF
             /\ \A j \in 1..Len(r.body) : e[(3 * n + 5) + j] = r.body[j]
<1> DEFINE fs == r.fields
           n == Len(fs)
           one == <<r.line>>
           ls == one \o fs
           h == HeaderTokens(ls)
           z == <<CR, LF>>
           hz == h \o z
           e == EncodeRequest(r)
<1>0. r.line \in HttpTexts /\ fs \in Seq(HttpTexts) /\ r.body \in Seq(Token)
    BY HttpConstants
<1>1. n \in Nat /\ Len(r.body) \in Nat
    BY <1>0
<1>2. one \in Seq(HttpTexts) /\ Len(one) = 1 /\ one[1] = r.line
    BY <1>0
<1>3. z \in Seq(Token) /\ Len(z) = 2 /\ z[1] = CR /\ z[2] = LF
    BY Tokens
<1>4. e = hz \o r.body
    BY DEF EncodeRequest, Lines
<1> HIDE DEF one, z, e, fs
<1>5. /\ ls \in Seq(HttpTexts) /\ Len(ls) = 1 + n
      /\ \A j \in 1..1 : ls[j] = one[j]
      /\ \A j \in 1..n : ls[1 + j] = fs[j]
  <2>1. /\ ls \in Seq(HttpTexts) /\ Len(ls) = Len(one) + Len(fs)
        /\ \A j \in 1..Len(one) : ls[j] = one[j]
        /\ \A j \in 1..Len(fs) : ls[Len(one) + j] = fs[j]
    <3>1. one \in Seq(HttpTexts) /\ fs \in Seq(HttpTexts)
        BY <1>0, <1>2
    <3> QED BY <3>1, Joined
  <2> HIDE DEF ls
  <2> QED BY <1>2, <2>1
<1> HIDE DEF ls
<1>6. /\ h \in Seq(Token) /\ Len(h) = 3 * Len(ls)
      /\ \A k \in 1..Len(ls) : h[3 * k - 2] = ls[k] /\ h[3 * k - 1] = CR /\ h[3 * k] = LF
    BY <1>5, HeaderTokensAre
<1> HIDE DEF h
<1>7. /\ hz \in Seq(Token) /\ Len(hz) = Len(h) + 2
      /\ \A j \in 1..Len(h) : hz[j] = h[j]
      /\ hz[Len(h) + 1] = CR /\ hz[Len(h) + 2] = LF
  <2>1. /\ hz \in Seq(Token) /\ Len(hz) = Len(h) + Len(z)
        /\ \A j \in 1..Len(h) : hz[j] = h[j]
        /\ \A j \in 1..Len(z) : hz[Len(h) + j] = z[j]
    <3>1. h \in Seq(Token) /\ z \in Seq(Token)
        BY <1>3, <1>6
    <3> QED BY <3>1, Joined
  <2> HIDE DEF hz
  <2>2. 1 \in 1..Len(z) /\ 2 \in 1..Len(z)
      BY <1>3
  <2> QED BY <1>3, <2>1, <2>2
<1> HIDE DEF hz
<1>8. /\ e \in Seq(Token) /\ Len(e) = Len(hz) + Len(r.body)
      /\ \A j \in 1..Len(hz) : e[j] = hz[j]
      /\ \A j \in 1..Len(r.body) : e[Len(hz) + j] = r.body[j]
  <2>1. hz \in Seq(Token) /\ r.body \in Seq(Token)
      BY <1>0, <1>7
  <2> QED BY <1>4, <2>1, Joined
<1>9. Len(h) = 3 * n + 3 /\ Len(hz) = 3 * n + 5
    BY <1>1, <1>5, <1>6, <1>7
<1>10. \A j \in 1..(3 * n + 3) : e[j] = h[j]
  <2> TAKE j \in 1..(3 * n + 3)
  <2>1. j \in 1..Len(h) /\ j \in 1..Len(hz)
      BY <1>1, <1>9
  <2> QED BY <1>7, <1>8, <2>1
<1>11. e[3 * n + 4] = CR /\ e[3 * n + 5] = LF
  <2>1. /\ 3 * n + 4 \in 1..Len(hz) /\ 3 * n + 5 \in 1..Len(hz)
        /\ Len(h) + 1 = 3 * n + 4 /\ Len(h) + 2 = 3 * n + 5
      BY <1>1, <1>9
  <2> QED BY <1>7, <1>8, <2>1
<1>12. e[1] = r.line /\ e[2] = CR /\ e[3] = LF
  <2>1. 1 \in 1..Len(ls) /\ 3 * 1 - 2 = 1 /\ 3 * 1 - 1 = 2 /\ 3 * 1 = 3
      BY <1>1, <1>5
  <2>2. h[1] = ls[1] /\ h[2] = CR /\ h[3] = LF
      BY <1>6, <2>1
  <2>3. 1 \in 1..(3 * n + 3) /\ 2 \in 1..(3 * n + 3) /\ 3 \in 1..(3 * n + 3) /\ 1 \in 1..1
      BY <1>1
  <2> QED BY <1>2, <1>5, <1>10, <2>2, <2>3
<1>13. ASSUME NEW k \in 1..n
       PROVE  e[3 * k + 1] = fs[k] /\ e[3 * k + 2] = CR /\ e[3 * k + 3] = LF
  <2>1. /\ 1 + k \in 1..Len(ls) /\ 3 * (1 + k) - 2 = 3 * k + 1 /\ 3 * (1 + k) - 1 = 3 * k + 2
        /\ 3 * (1 + k) = 3 * k + 3
      BY <1>1, <1>5
  <2>2. h[3 * k + 1] = ls[1 + k] /\ h[3 * k + 2] = CR /\ h[3 * k + 3] = LF
      BY <1>6, <2>1
  <2>3. /\ 3 * k + 1 \in 1..(3 * n + 3) /\ 3 * k + 2 \in 1..(3 * n + 3)
        /\ 3 * k + 3 \in 1..(3 * n + 3)
      BY <1>1
  <2> QED BY <1>5, <1>10, <2>2, <2>3
<1>14. /\ Len(e) = 3 * n + 5 + Len(r.body)
       /\ \A j \in 1..Len(r.body) : e[(3 * n + 5) + j] = r.body[j]
    BY <1>8, <1>9
<1> QED BY <1>1, <1>8, <1>11, <1>12, <1>13, <1>14 DEF e, fs

-----------------------------------------------------------------------------
(* The inductive invariant of the HTTP parser *)

\* A stream st is made of the requests rs: they follow each other, and each ends
\* where es says.
HttpStreamOf(rs, es, st) ==
  /\ rs \in Seq(HttpRequests) /\ st \in Seq(Token) /\ es \in Seq(Nat) /\ Len(es) = Len(rs)
  /\ \A k \in 1..Len(rs) : End(es, k) = End(es, k - 1) + Len(EncodeRequest(rs[k]))
  /\ \A k, m \in 0..Len(rs) : k < m => End(es, k) < End(es, m)
  /\ \A k \in 1..Len(rs) : \A j \in 1..Len(EncodeRequest(rs[k])) :
       st[End(es, k - 1) + j] = EncodeRequest(rs[k])[j]
  /\ Len(st) = End(es, Len(rs))

\* How far parse() has come in the stream, and where the requests delivered end.
Parsed == (httpPos - Readable(httpBuf)) + consumed
HttpBase == End(httpEnds, Len(answered))

\* The reader holds what lies between what was consumed and what readv() returned.
HttpReaderInv ==
  /\ httpPos \in 0..Len(httpStream) /\ httpBuf \in Buffers(Token)
  /\ Readable(httpBuf) <= httpPos
  /\ \A i \in 1..Readable(httpBuf) :
       At(httpBuf, i) = httpStream[(httpPos - Readable(httpBuf)) + i]
  /\ httpPlace \in {"wait", "read", "parse", "loop"} /\ consumed \in 0..Readable(httpBuf)
  /\ pstate \in {"REQUEST_LINE", "HEADERS", "BODY", "DONE"}
  /\ httpPlace # "loop" => consumed = 0 /\ pstate # "DONE"
  /\ length \in LengthFields \cup {NoLength} /\ method \in Methods \cup {<<"UNKNOWN">>}
  /\ body \in Seq(Token) /\ errors \in BOOLEAN
  /\ answered \in Seq([line : Methods \cup {<<"UNKNOWN">>}, body : Seq(Token)])

\* parse() can see the end of request k within n tokens: a request with Content-Length
\* 0 is seen to be complete only when something follows it.
Seen(k, n) == httpEnds[k] <= n /\ (ZeroBody(requests[k]) => httpEnds[k] < n)

\* Until there was an error, the first requests were delivered, and they were good.
AnsweredInv ==
  /\ Len(answered) <= Len(requests)
  /\ \A i \in 1..Len(answered) :
       /\ ~Malformed(requests[i]) /\ answered[i] = Content(requests[i])
       /\ Seen(i, httpPos)

\* The first k fields are good, and len is the length that they give.
FieldsTo(r, k, len) ==
  /\ \A i \in 1..k : r.fields[i] \in Field \cup LengthFields
  /\ LengthAfter(r.fields, k, len)

\* What parse() knows of a request r when it has consumed off tokens of it.
Placed(r, off, p, len, m, b) ==
  /\ r.line \in Methods /\ m = r.line
  /\ p = "HEADERS" =>
       b = <<>> /\ \E k \in 0..Len(r.fields) : off = 3 * k + 3 /\ FieldsTo(r, k, len)
  /\ p = "BODY" =>
       off = 3 * Len(r.fields) + 5 /\ FieldsTo(r, Len(r.fields), len) /\ len # NoLength
  /\ p = "DONE" => off = Len(EncodeRequest(r)) /\ ~Malformed(r) /\ b = r.body

\* Until there was an error, parse() is at the request after those delivered.
PlaceInv ==
  /\ pstate = "REQUEST_LINE" => Parsed = HttpBase /\ length = NoLength /\ body = <<>>
  /\ pstate # "REQUEST_LINE" =>
       /\ Len(answered) < Len(requests)
       /\ Placed(requests[Len(answered) + 1], Parsed - HttpBase, pstate, length, method, body)
  /\ pstate = "DONE" /\ ZeroBody(requests[Len(answered) + 1]) => Parsed < httpPos

\* After a call of read() the next request is not seen to be whole, or it is malformed.
HttpWaitInv ==
  Len(answered) < Len(requests) =>
    ~Seen(Len(answered) + 1, httpPos) \/ Malformed(requests[Len(answered) + 1])

\* After an error: the requests before a malformed one were delivered, and some of
\* that one was read.
ErrorInv ==
  \E n \in 0..(Len(requests) - 1) :
    /\ Malformed(requests[n + 1]) /\ n <= Len(answered) /\ End(httpEnds, n) < httpPos
    /\ \A i \in 1..n : ~Malformed(requests[i]) /\ answered[i] = Content(requests[i])

\* The inductive invariant.
HttpInv ==
  /\ HttpStreamOf(requests, httpEnds, httpStream) /\ HttpReaderInv
  /\ ~errors => AnsweredInv /\ PlaceInv
  /\ ~errors /\ httpPlace = "wait" => HttpWaitInv
  /\ errors => ErrorInv

\* It holds before the first request is written.
LEMMA InitHttp == HttpInit => HttpInv
<1> SUFFICES ASSUME HttpInit PROVE HttpInv
    OBVIOUS
<1>1. httpBuf \in Buffers(Token) /\ Readable(httpBuf) = 0
    BY HttpConstants, Tokens, NewBufferIs DEF HttpInit
<1>2. /\ requests = <<>> /\ httpStream = <<>> /\ httpEnds = <<>> /\ answered = <<>>
      /\ httpPos = 0 /\ httpPlace = "wait" /\ consumed = 0 /\ pstate = "REQUEST_LINE"
      /\ length = NoLength /\ method = <<"UNKNOWN">> /\ body = <<>> /\ errors = FALSE
    BY DEF HttpInit
<1>3. /\ requests \in Seq(HttpRequests) /\ httpStream \in Seq(Token) /\ httpEnds \in Seq(Nat)
      /\ answered \in Seq([line : Methods \cup {<<"UNKNOWN">>}, body : Seq(Token)])
      /\ body \in Seq(Token)
      /\ Len(requests) = 0 /\ Len(httpStream) = 0 /\ Len(httpEnds) = 0 /\ Len(answered) = 0
    BY <1>2
<1>4. 1..0 = {} /\ 0..0 = {0} /\ 0 - 0 = 0 /\ 0 + 0 = 0 /\ 0 <= 0 /\ ~ (0 < 0)
    OBVIOUS
<1>5. End(httpEnds, 0) = 0
    BY DEF End
<1>6. HttpStreamOf(requests, httpEnds, httpStream)
  <2>1. /\ \A k \in 1..Len(requests) : FALSE
        /\ \A k, m \in 0..Len(requests) : ~ (k < m)
      BY <1>3, <1>4
  <2> QED BY <1>3, <1>5, <2>1 DEF HttpStreamOf
<1>7. HttpReaderInv
  <2>1. httpPos \in 0..Len(httpStream) /\ Readable(httpBuf) <= httpPos
        /\ consumed \in 0..Readable(httpBuf)
      BY <1>1, <1>2, <1>3, <1>4
  <2>2. \A i \in 1..Readable(httpBuf) :
          At(httpBuf, i) = httpStream[(httpPos - Readable(httpBuf)) + i]
      BY <1>1, <1>4
  <2> QED BY <1>1, <1>2, <1>3, <2>1, <2>2 DEF HttpReaderInv
<1>8. AnsweredInv
    BY <1>3, <1>4 DEF AnsweredInv
<1>9. PlaceInv
  <2>1. Parsed = 0 /\ HttpBase = 0
      BY <1>1, <1>2, <1>3, <1>4, <1>5 DEF Parsed, HttpBase
  <2> QED BY <1>2, <2>1 DEF PlaceInv
<1>10. HttpWaitInv
    BY <1>3, <1>4 DEF HttpWaitInv
<1> QED BY <1>2, <1>6, <1>7, <1>8, <1>9, <1>10 DEF HttpInv

-----------------------------------------------------------------------------
(* The HTTP client *)

\* A request has at least five tokens.
LEMMA MoreThanFive ==
  ASSUME NEW n \in Nat, NEW b \in Nat
  PROVE  3 * n + 5 + b \in Nat /\ 3 * n + 5 + b >= 1
OBVIOUS

\* A request more keeps the stream in order.
LEMMA RequestsGrow ==
  ASSUME HttpStreamOf(requests, httpEnds, httpStream), NEW r \in HttpRequests,
         requests' = Append(requests, r),
         httpStream' = httpStream \o EncodeRequest(r),
         httpEnds' = Append(httpEnds, Len(httpStream'))
  PROVE  /\ HttpStreamOf(requests', httpEnds', httpStream')
         /\ Len(requests') = Len(requests) + 1 /\ Len(httpStream') > Len(httpStream)
         /\ \A i \in 1..Len(requests) : requests'[i] = requests[i]
         /\ \A j \in 1..Len(httpStream) : httpStream'[j] = httpStream[j]
         /\ \A k \in 0..Len(requests) : End(httpEnds', k) = End(httpEnds, k)
         /\ End(httpEnds', Len(requests) + 1) = Len(httpStream')
<1> DEFINE e == EncodeRequest(r)
           L == Len(requests)
           N == Len(httpStream)
           x == N + Len(e)
<1>0. /\ requests \in Seq(HttpRequests) /\ httpStream \in Seq(Token) /\ httpEnds \in Seq(Nat)
      /\ Len(httpEnds) = L /\ L \in Nat /\ N \in Nat
    BY DEF HttpStreamOf
<1>1. e \in Seq(Token) /\ Len(e) \in Nat /\ Len(e) >= 1 /\ x \in Nat /\ x > N
  <2>1. /\ e \in Seq(Token) /\ Len(r.fields) \in Nat /\ Len(r.body) \in Nat
        /\ Len(e) = 3 * Len(r.fields) + 5 + Len(r.body)
      BY EncodeRequestIs
  <2>2. Len(e) \in Nat /\ Len(e) >= 1
      BY <2>1, MoreThanFive
  <2> HIDE DEF N
  <2>3. x \in Nat /\ x > N
      BY <1>0, <2>2
  <2> QED BY <2>1, <2>2, <2>3
<1> HIDE DEF e
<1>2. /\ requests' \in Seq(HttpRequests) /\ Len(requests') = L + 1 /\ requests'[L + 1] = r
      /\ \A i \in 1..L : requests'[i] = requests[i]
    BY <1>0, AppendProperties
<1>3. /\ httpStream' \in Seq(Token) /\ Len(httpStream') = x
      /\ \A j \in 1..N : httpStream'[j] = httpStream[j]
      /\ \A j \in 1..Len(e) : httpStream'[N + j] = e[j]
    BY <1>0, <1>1, Joined DEF e
<1>4. /\ httpEnds' \in Seq(Nat) /\ Len(httpEnds') = L + 1 /\ End(httpEnds', L + 1) = x
      /\ \A k \in 0..L : End(httpEnds', k) = End(httpEnds, k)
  <2>1. httpEnds' = Append(httpEnds, x)
      BY <1>3
  <2> HIDE DEF x, L
  <2>2. httpEnds' \in Seq(Nat) /\ Len(httpEnds') = Len(httpEnds) + 1
    <3>1. x \in Nat /\ httpEnds \in Seq(Nat)
        BY <1>0, <1>1
    <3> QED BY <2>1, <3>1, AppendProperties
  <2> QED BY <1>0, <1>1, <2>1, <2>2, EndAppend
<1>5. \A k \in 0..L : End(httpEnds, k) \in Nat
    BY <1>0, EndNat
<1>6. \A k \in 0..(L + 1) : k \in 0..L \/ k = L + 1
  <2> HIDE DEF L
  <2> QED BY <1>0
<1>7. \A k \in 1..(L + 1) : \/ k \in 1..L /\ k - 1 \in 0..L /\ k \in 0..L
                            \/ k = L + 1 /\ k - 1 = L
  <2> HIDE DEF L
  <2> QED BY <1>0
<1>8. End(httpEnds, L) = N /\ L \in 0..L
  <2>1. L \in 0..L
      BY <1>0
  <2> QED BY <2>1 DEF HttpStreamOf
<1>9. \A k \in 0..L : End(httpEnds, k) <= N
  <2> TAKE k \in 0..L
  <2>1. CASE k = L
      BY <1>0, <1>8, <2>1
  <2>2. CASE k < L
    <3>1. End(httpEnds, k) < End(httpEnds, L)
        BY <1>8, <2>2 DEF HttpStreamOf
    <3>2. End(httpEnds, k) \in Nat
        BY <1>5
    <3> QED BY <1>0, <1>8, <3>1, <3>2
  <2> QED BY <1>0, <2>1, <2>2
<1>10. \A k \in 1..(L + 1) :
         End(httpEnds', k) = End(httpEnds', k - 1) + Len(EncodeRequest(requests'[k]))
  <2> TAKE k \in 1..(L + 1)
  <2>1. CASE k \in 1..L /\ k - 1 \in 0..L /\ k \in 0..L
      BY <1>2, <1>4, <2>1 DEF HttpStreamOf
  <2>2. CASE k = L + 1 /\ k - 1 = L
      BY <1>2, <1>4, <1>8, <2>2 DEF e
  <2> QED BY <1>7, <2>1, <2>2
<1>11. \A k, m \in 0..(L + 1) : k < m => End(httpEnds', k) < End(httpEnds', m)
  <2> SUFFICES ASSUME NEW k \in 0..(L + 1), NEW m \in 0..(L + 1), k < m
               PROVE  End(httpEnds', k) < End(httpEnds', m)
      OBVIOUS
  <2>1. k \in 0..L
      BY <1>0
  <2>2. CASE m \in 0..L
      BY <1>4, <2>1, <2>2 DEF HttpStreamOf
  <2>3. CASE m = L + 1
    <3>1. End(httpEnds', m) = x /\ End(httpEnds', k) = End(httpEnds, k)
        BY <1>4, <2>1, <2>3
    <3>2. End(httpEnds, k) \in Nat /\ End(httpEnds, k) <= N
        BY <1>5, <1>9, <2>1
    <3> HIDE DEF x, N
    <3> QED BY <1>0, <1>1, <3>1, <3>2
  <2> QED BY <1>6, <2>2, <2>3
<1>12. \A k \in 1..(L + 1) : \A j \in 1..Len(EncodeRequest(requests'[k])) :
         httpStream'[End(httpEnds', k - 1) + j] = EncodeRequest(requests'[k])[j]
  <2> SUFFICES ASSUME NEW k \in 1..(L + 1), NEW j \in 1..Len(EncodeRequest(requests'[k]))
               PROVE  httpStream'[End(httpEnds', k - 1) + j] = EncodeRequest(requests'[k])[j]
      OBVIOUS
  <2>1. CASE k \in 1..L /\ k - 1 \in 0..L /\ k \in 0..L
    <3> DEFINE u == EncodeRequest(requests[k])
               a == End(httpEnds, k - 1)
    <3>1. requests'[k] = requests[k] /\ End(httpEnds', k - 1) = a /\ a \in Nat
        BY <1>2, <1>4, <1>5, <2>1
    <3>2. End(httpEnds, k) = a + Len(u) /\ End(httpEnds, k) <= N /\ End(httpEnds, k) \in Nat
        BY <1>5, <1>9, <2>1 DEF HttpStreamOf
    <3>3. Len(u) \in Nat
      <4>1. requests[k] \in HttpRequests
          BY <1>0, <2>1
      <4>2. u \in Seq(Token)
          BY <4>1, EncodeRequestIs
      <4> QED BY <4>2
    <3>4. j \in 1..Len(u)
        BY <3>1
    <3>5. httpStream[a + j] = u[j]
        BY <2>1, <3>4 DEF HttpStreamOf
    <3> HIDE DEF u, a, N
    <3>6. a + j \in 1..N
        BY <1>0, <3>1, <3>2, <3>3, <3>4
    <3> QED BY <1>3, <3>1, <3>5, <3>6 DEF u
  <2>2. CASE k = L + 1 /\ k - 1 = L
    <3>1. requests'[k] = r /\ End(httpEnds', k - 1) = N
        BY <1>2, <1>4, <1>8, <2>2
    <3>2. j \in 1..Len(e)
        BY <3>1 DEF e
    <3> QED BY <1>3, <3>1, <3>2 DEF e
  <2> QED BY <1>7, <2>1, <2>2
<1>13. HttpStreamOf(requests', httpEnds', httpStream')
  <2>1. Len(httpEnds') = Len(requests') /\ Len(requests') = L + 1
      BY <1>2, <1>4
  <2>2. Len(httpStream') = End(httpEnds', L + 1)
      BY <1>3, <1>4
  <2> HIDE DEF L, N, x
  <2> QED BY <1>2, <1>3, <1>4, <1>10, <1>11, <1>12, <2>1, <2>2 DEF HttpStreamOf
<1> QED BY <1>1, <1>2, <1>3, <1>4, <1>13

\* What the invariant says of each variable.
LEMMA HttpFacts ==
  ASSUME HttpInv
  PROVE  /\ requests \in Seq(HttpRequests) /\ httpStream \in Seq(Token)
         /\ httpEnds \in Seq(Nat) /\ Len(httpEnds) = Len(requests)
         /\ Len(requests) \in Nat /\ Len(httpStream) \in Nat /\ Len(answered) \in Nat
         /\ httpPos \in Nat /\ httpPos <= Len(httpStream)
         /\ httpBuf \in Buffers(Token) /\ Readable(httpBuf) \in Nat
         /\ Readable(httpBuf) <= httpPos /\ consumed \in Nat /\ consumed <= Readable(httpBuf)
         /\ Parsed \in Nat /\ Parsed <= httpPos
         /\ \A k \in 0..Len(requests) : End(httpEnds, k) \in Nat
         /\ \A k \in 1..Len(requests) : End(httpEnds, k) = httpEnds[k] /\ httpEnds[k] \in Nat
<1>1. /\ requests \in Seq(HttpRequests) /\ httpStream \in Seq(Token)
      /\ httpEnds \in Seq(Nat) /\ Len(httpEnds) = Len(requests)
    BY DEF HttpInv, HttpStreamOf
<1>2. /\ httpPos \in 0..Len(httpStream) /\ httpBuf \in Buffers(Token)
      /\ Readable(httpBuf) <= httpPos /\ consumed \in 0..Readable(httpBuf)
      /\ answered \in Seq([line : Methods \cup {<<"UNKNOWN">>}, body : Seq(Token)])
    BY DEF HttpInv, HttpReaderInv
<1>3. Readable(httpBuf) \in Nat
    BY <1>2, BufferIs
<1>4. /\ Len(requests) \in Nat /\ Len(httpStream) \in Nat /\ Len(answered) \in Nat
      /\ httpPos \in Nat /\ httpPos <= Len(httpStream)
      /\ consumed \in Nat /\ consumed <= Readable(httpBuf)
    BY <1>1, <1>2, <1>3
<1>5. Parsed \in Nat /\ Parsed <= httpPos
    BY <1>2, <1>3, <1>4 DEF Parsed
<1>6. \A k \in 0..Len(requests) : End(httpEnds, k) \in Nat
    BY <1>1, EndNat
<1>7. \A k \in 1..Len(requests) : End(httpEnds, k) = httpEnds[k] /\ httpEnds[k] \in Nat
  <2> TAKE k \in 1..Len(requests)
  <2>1. k # 0
      BY <1>4
  <2> QED BY <1>1, <2>1 DEF End
<1> QED BY <1>1, <1>2, <1>3, <1>4, <1>5, <1>6, <1>7

\* Writing a request does not disturb the reader.
LEMMA SendRequestStep ==
  ASSUME HttpInv, NEW r \in HttpRequests, SendRequest(r)
  PROVE  HttpInv'
<1> DEFINE d == Len(answered)
<1>0. /\ httpPos' = httpPos /\ httpBuf' = httpBuf /\ httpPlace' = httpPlace
      /\ consumed' = consumed /\ pstate' = pstate /\ length' = length /\ method' = method
      /\ body' = body /\ answered' = answered /\ errors' = errors
    BY DEF SendRequest, parser
<1>1. /\ HttpStreamOf(requests', httpEnds', httpStream')
      /\ Len(requests') = Len(requests) + 1 /\ Len(httpStream') > Len(httpStream)
      /\ \A i \in 1..Len(requests) : requests'[i] = requests[i]
      /\ \A j \in 1..Len(httpStream) : httpStream'[j] = httpStream[j]
      /\ \A k \in 0..Len(requests) : End(httpEnds', k) = End(httpEnds, k)
      /\ End(httpEnds', Len(requests) + 1) = Len(httpStream')
  <2>1. HttpStreamOf(requests, httpEnds, httpStream)
      BY DEF HttpInv
  <2> QED BY <2>1, RequestsGrow DEF SendRequest
<1>2. /\ Len(requests) \in Nat /\ Len(httpStream) \in Nat /\ d \in Nat /\ httpPos \in Nat
      /\ httpPos <= Len(httpStream) /\ Readable(httpBuf) \in Nat /\ Readable(httpBuf) <= httpPos
    BY HttpFacts
<1>3. Len(httpStream') \in Nat
    BY <1>1 DEF HttpStreamOf
<1>4. \A k \in 1..Len(requests) : httpEnds'[k] = httpEnds[k]
  <2> TAKE k \in 1..Len(requests)
  <2>1. k # 0 /\ k \in 0..Len(requests)
      BY <1>2
  <2> QED BY <1>1, <2>1 DEF End
<1>5. HttpReaderInv'
  <2>1. /\ httpPos \in 0..Len(httpStream) /\ httpBuf \in Buffers(Token)
        /\ Readable(httpBuf) <= httpPos
        /\ \A i \in 1..Readable(httpBuf) :
             At(httpBuf, i) = httpStream[(httpPos - Readable(httpBuf)) + i]
      BY DEF HttpInv, HttpReaderInv
  <2>2. httpPos' \in 0..Len(httpStream')
      BY <1>0, <1>1, <1>2, <1>3
  <2>3. \A i \in 1..Readable(httpBuf) :
          At(httpBuf, i) = httpStream'[(httpPos - Readable(httpBuf)) + i]
    <3> TAKE i \in 1..Readable(httpBuf)
    <3>1. (httpPos - Readable(httpBuf)) + i \in 1..Len(httpStream)
        BY <1>2
    <3> QED BY <1>1, <2>1, <3>1
  <2>4. \A i \in 1..Readable(httpBuf') :
          At(httpBuf', i) = httpStream'[(httpPos' - Readable(httpBuf')) + i]
      BY <1>0, <2>3
  <2>5. /\ httpBuf' \in Buffers(Token) /\ Readable(httpBuf') <= httpPos'
        /\ httpPlace' \in {"wait", "read", "parse", "loop"}
        /\ consumed' \in 0..Readable(httpBuf')
        /\ pstate' \in {"REQUEST_LINE", "HEADERS", "BODY", "DONE"}
        /\ httpPlace' # "loop" => consumed' = 0 /\ pstate' # "DONE"
        /\ length' \in LengthFields \cup {NoLength}
        /\ method' \in Methods \cup {<<"UNKNOWN">>}
        /\ body' \in Seq(Token) /\ errors' \in BOOLEAN
        /\ answered' \in Seq([line : Methods \cup {<<"UNKNOWN">>}, body : Seq(Token)])
      BY <1>0 DEF HttpInv, HttpReaderInv
  <2> QED BY <2>2, <2>4, <2>5 DEF HttpReaderInv, Readable, At
<1>6. ASSUME ~errors PROVE AnsweredInv'
  <2>1. /\ d <= Len(requests)
        /\ \A i \in 1..d : /\ ~Malformed(requests[i]) /\ answered[i] = Content(requests[i])
                           /\ Seen(i, httpPos)
      BY <1>6 DEF HttpInv, AnsweredInv
  <2>2. \A i \in 1..d : requests'[i] = requests[i] /\ httpEnds'[i] = httpEnds[i]
    <3> TAKE i \in 1..d
    <3>1. i \in 1..Len(requests)
        BY <1>2, <2>1
    <3> QED BY <1>1, <1>4, <3>1
  <2>3. Len(answered') <= Len(requests')
      BY <1>0, <1>1, <1>2, <2>1
  <2>4. ASSUME NEW i \in 1..Len(answered')
        PROVE  /\ ~Malformed(requests'[i]) /\ answered'[i] = Content(requests'[i])
               /\ httpEnds'[i] <= httpPos'
               /\ ZeroBody(requests'[i]) => httpEnds'[i] < httpPos'
      BY <1>0, <2>1, <2>2 DEF Seen
  <2> QED BY <2>3, <2>4 DEF AnsweredInv, Seen, Malformed, ZeroBody, Content
<1>7. ASSUME ~errors PROVE PlaceInv'
  <2>1. d <= Len(requests) /\ d \in 0..Len(requests)
      BY <1>2, <1>6, <1>7 DEF HttpInv, AnsweredInv
  <2>2. Parsed' = Parsed /\ HttpBase' = HttpBase
      BY <1>0, <1>1, <2>1 DEF Parsed, HttpBase, Readable
  <2>3. d < Len(requests) => requests'[d + 1] = requests[d + 1] /\ d < Len(requests')
    <3> SUFFICES ASSUME d < Len(requests)
                 PROVE  requests'[d + 1] = requests[d + 1] /\ d < Len(requests')
        OBVIOUS
    <3>1. d + 1 \in 1..Len(requests) /\ d < Len(requests) + 1
        BY <1>2
    <3> QED BY <1>1, <3>1
  <2>4. PlaceInv
      BY <1>7 DEF HttpInv
  <2>5. /\ pstate' = "REQUEST_LINE" => Parsed' = HttpBase' /\ length' = NoLength /\ body' = <<>>
        /\ pstate' # "REQUEST_LINE" =>
             /\ Len(answered') < Len(requests')
             /\ Placed(requests'[Len(answered') + 1], Parsed' - HttpBase', pstate', length',
                       method', body')
        /\ pstate' = "DONE" /\ ZeroBody(requests'[Len(answered') + 1]) => Parsed' < httpPos'
      BY <1>0, <2>2, <2>3, <2>4 DEF PlaceInv
  <2> QED BY <2>5 DEF PlaceInv, Placed, FieldsTo, LengthAfter, Malformed, ZeroBody
<1>8. ASSUME ~errors, httpPlace = "wait" PROVE HttpWaitInv'
  <2>1. d <= Len(requests)
      BY <1>8 DEF HttpInv, AnsweredInv
  <2>2. CASE d < Len(requests)
    <3>1. d + 1 \in 1..Len(requests)
        BY <1>2, <2>2
    <3>2. ~Seen(d + 1, httpPos) \/ Malformed(requests[d + 1])
        BY <1>8, <2>2 DEF HttpInv, HttpWaitInv
    <3>3. requests'[d + 1] = requests[d + 1] /\ httpEnds'[d + 1] = httpEnds[d + 1]
        BY <1>1, <1>4, <3>1
    <3> QED BY <1>0, <3>2, <3>3 DEF HttpWaitInv, Seen, Malformed, ZeroBody
  <2>3. CASE d = Len(requests)
    <3>1. End(httpEnds', d + 1) = Len(httpStream') /\ d + 1 # 0
        BY <1>1, <1>2, <2>3
    <3>2. httpEnds'[d + 1] = Len(httpStream')
        BY <3>1 DEF End
    <3>3. ~ (httpEnds'[d + 1] <= httpPos')
        BY <1>0, <1>1, <1>2, <1>3, <3>2
    <3>4. (~Seen(d + 1, httpPos))'
        BY <1>0, <3>3 DEF Seen
    <3> QED BY <1>0, <3>3 DEF HttpWaitInv, Seen
  <2> QED BY <1>2, <2>1, <2>2, <2>3
<1>9. ASSUME errors PROVE ErrorInv'
  <2>1. PICK n \in 0..(Len(requests) - 1) :
          /\ Malformed(requests[n + 1]) /\ n <= d /\ End(httpEnds, n) < httpPos
          /\ \A i \in 1..n : ~Malformed(requests[i]) /\ answered[i] = Content(requests[i])
      BY <1>9 DEF HttpInv, ErrorInv
  <2>2. /\ n \in 0..(Len(requests') - 1) /\ n \in 0..Len(requests)
        /\ n + 1 \in 1..Len(requests) /\ \A i \in 1..n : i \in 1..Len(requests)
      BY <1>1, <1>2
  <2>3. /\ requests'[n + 1] = requests[n + 1] /\ End(httpEnds', n) = End(httpEnds, n)
        /\ \A i \in 1..n : requests'[i] = requests[i]
      BY <1>1, <2>2
  <2>4. /\ Malformed(requests'[n + 1]) /\ n <= Len(answered') /\ End(httpEnds', n) < httpPos'
        /\ \A i \in 1..n : ~Malformed(requests'[i]) /\ answered'[i] = Content(requests'[i])
      BY <1>0, <2>1, <2>3
  <2> QED BY <2>2, <2>4 DEF ErrorInv, Malformed, Content
<1> QED BY <1>0, <1>1, <1>5, <1>6, <1>7, <1>8, <1>9 DEF HttpInv

-----------------------------------------------------------------------------
(* Reading *)

\* A step that leaves parse() where it is in the stream: more may have been read.
LEMMA KeptStep ==
  ASSUME HttpInv, UNCHANGED <<requests, httpEnds, httpStream, answered, errors>>,
         UNCHANGED <<pstate, length, method, body>>,
         HttpReaderInv', httpPos' \in Nat, httpPos <= httpPos', Parsed' = Parsed,
         ~errors /\ httpPlace' = "wait" => HttpWaitInv'
  PROVE  HttpInv'
<1> DEFINE d == Len(answered)
<1>0. /\ requests' = requests /\ httpEnds' = httpEnds /\ httpStream' = httpStream
      /\ answered' = answered /\ errors' = errors /\ pstate' = pstate /\ length' = length
      /\ method' = method /\ body' = body
    OBVIOUS
<1>1. /\ httpPos \in Nat /\ Parsed \in Nat /\ Len(requests) \in Nat /\ d \in Nat
      /\ \A k \in 1..Len(requests) : httpEnds[k] \in Nat
      /\ \A k \in 0..Len(requests) : End(httpEnds, k) \in Nat
    BY HttpFacts
<1>2. HttpStreamOf(requests', httpEnds', httpStream')
    BY <1>0 DEF HttpInv
<1>3. ASSUME ~errors PROVE AnsweredInv'
  <2>1. /\ d <= Len(requests)
        /\ \A i \in 1..d : /\ ~Malformed(requests[i]) /\ answered[i] = Content(requests[i])
                           /\ Seen(i, httpPos)
      BY <1>3 DEF HttpInv, AnsweredInv
  <2>2. ASSUME NEW i \in 1..d
        PROVE  httpEnds[i] <= httpPos' /\ (ZeroBody(requests[i]) => httpEnds[i] < httpPos')
    <3>1. i \in 1..Len(requests)
        BY <1>1, <2>1
    <3>2. httpEnds[i] \in Nat /\ httpEnds[i] <= httpPos
        BY <1>1, <2>1, <3>1 DEF Seen
    <3>3. ZeroBody(requests[i]) => httpEnds[i] < httpPos
        BY <2>1 DEF Seen
    <3>4. httpEnds[i] < httpPos => httpEnds[i] < httpPos'
        BY <1>1, <3>2
    <3>5. httpEnds[i] <= httpPos'
        BY <1>1, <3>2
    <3> QED BY <3>3, <3>4, <3>5
  <2>3. ASSUME NEW i \in 1..Len(answered')
        PROVE  /\ ~Malformed(requests'[i]) /\ answered'[i] = Content(requests'[i])
               /\ httpEnds'[i] <= httpPos'
               /\ ZeroBody(requests'[i]) => httpEnds'[i] < httpPos'
      BY <1>0, <2>1, <2>2
  <2>4. Len(answered') <= Len(requests')
      BY <1>0, <2>1
  <2> QED BY <2>3, <2>4 DEF AnsweredInv, Seen, Malformed, ZeroBody, Content
<1>4. ASSUME ~errors PROVE PlaceInv'
  <2>1. HttpBase' = HttpBase
      BY <1>0 DEF HttpBase
  <2>2. PlaceInv
      BY <1>4 DEF HttpInv
  <2>3. Parsed < httpPos => Parsed < httpPos'
      BY <1>1
  <2>4. /\ pstate' = "REQUEST_LINE" => Parsed' = HttpBase' /\ length' = NoLength /\ body' = <<>>
        /\ pstate' # "REQUEST_LINE" =>
             /\ Len(answered') < Len(requests')
             /\ Placed(requests'[Len(answered') + 1], Parsed' - HttpBase', pstate', length',
                       method', body')
        /\ pstate' = "DONE" /\ ZeroBody(requests'[Len(answered') + 1]) => Parsed' < httpPos'
      BY <1>0, <2>1, <2>2, <2>3 DEF PlaceInv
  <2> QED BY <2>4 DEF PlaceInv, Placed, FieldsTo, LengthAfter, Malformed, ZeroBody
<1>5. ASSUME errors PROVE ErrorInv'
  <2>1. PICK n \in 0..(Len(requests) - 1) :
          /\ Malformed(requests[n + 1]) /\ n <= d /\ End(httpEnds, n) < httpPos
          /\ \A i \in 1..n : ~Malformed(requests[i]) /\ answered[i] = Content(requests[i])
      BY <1>5 DEF HttpInv, ErrorInv
  <2>2. End(httpEnds, n) < httpPos'
    <3>1. n \in 0..Len(requests)
        BY <1>1
    <3>2. End(httpEnds, n) \in Nat
        BY <1>1, <3>1
    <3> QED BY <1>1, <2>1, <3>2
  <2>3. n \in 0..(Len(requests') - 1)
      BY <1>0
  <2>4. /\ Malformed(requests'[n + 1]) /\ n <= Len(answered') /\ End(httpEnds', n) < httpPos'
        /\ \A i \in 1..n : ~Malformed(requests'[i]) /\ answered'[i] = Content(requests'[i])
      BY <1>0, <2>1, <2>2
  <2> QED BY <2>3, <2>4 DEF ErrorInv, Malformed, Content
<1> QED BY <1>0, <1>2, <1>3, <1>4, <1>5 DEF HttpInv

\* A step of read() after which the buffer holds what it held, and perhaps more.
LEMMA BufferedStep ==
  ASSUME HttpInv, UNCHANGED <<requests, httpEnds, httpStream, answered, errors>>,
         UNCHANGED <<pstate, length, method, body>>, httpPlace # "loop",
         httpPlace' \in {"read", "parse", "loop"}, consumed' = 0,
         httpBuf' \in Buffers(Token), httpPos' \in Nat, httpPos <= httpPos',
         httpPos' <= Len(httpStream), Readable(httpBuf') <= httpPos',
         httpPos' - Readable(httpBuf') = httpPos - Readable(httpBuf),
         \A i \in 1..Readable(httpBuf') :
           At(httpBuf', i) = httpStream[(httpPos - Readable(httpBuf)) + i]
  PROVE  HttpInv'
<1>0. /\ requests' = requests /\ httpEnds' = httpEnds /\ httpStream' = httpStream
      /\ answered' = answered /\ errors' = errors /\ pstate' = pstate /\ length' = length
      /\ method' = method /\ body' = body
    OBVIOUS
<1>1. consumed = 0 /\ pstate # "DONE"
    BY DEF HttpInv, HttpReaderInv
<1>2. /\ Len(httpStream) \in Nat /\ httpPos \in Nat /\ Readable(httpBuf) \in Nat
    BY HttpFacts
<1>3. Readable(httpBuf') \in Nat
    BY BufferIs
<1>4. HttpReaderInv'
  <2>1. /\ httpPos' \in 0..Len(httpStream') /\ consumed' \in 0..Readable(httpBuf')
      BY <1>0, <1>2, <1>3
  <2>2. \A i \in 1..Readable(httpBuf') :
          At(httpBuf', i) = httpStream'[(httpPos' - Readable(httpBuf')) + i]
      BY <1>0
  <2>3. /\ pstate' \in {"REQUEST_LINE", "HEADERS", "BODY", "DONE"} /\ pstate' # "DONE"
        /\ length' \in LengthFields \cup {NoLength}
        /\ method' \in Methods \cup {<<"UNKNOWN">>}
        /\ body' \in Seq(Token) /\ errors' \in BOOLEAN
        /\ answered' \in Seq([line : Methods \cup {<<"UNKNOWN">>}, body : Seq(Token)])
      BY <1>0, <1>1 DEF HttpInv, HttpReaderInv
  <2> QED BY <2>1, <2>2, <2>3 DEF HttpReaderInv, Readable, At
<1>5. Parsed' = Parsed
    BY <1>1 DEF Parsed, Readable
<1> QED BY <1>4, <1>5, KeptStep

\* read() is called.
LEMMA HttpPollStep == HttpInv /\ HttpPoll => HttpInv'
<1> SUFFICES ASSUME HttpInv, HttpPoll PROVE HttpInv'
    OBVIOUS
<1>0. /\ requests' = requests /\ httpEnds' = httpEnds /\ httpStream' = httpStream
      /\ answered' = answered /\ errors' = errors /\ pstate' = pstate /\ length' = length
      /\ method' = method /\ body' = body /\ httpPlace = "wait" /\ httpPlace' = "read"
      /\ httpPos' = httpPos /\ httpBuf' = httpBuf /\ consumed' = consumed
    BY DEF HttpPoll, client, parser
<1>1. /\ httpPos \in Nat /\ httpPos <= Len(httpStream) /\ httpBuf \in Buffers(Token)
      /\ Readable(httpBuf) <= httpPos /\ httpPos <= httpPos
    BY HttpFacts
<1>2. /\ consumed = 0
      /\ \A i \in 1..Readable(httpBuf) :
           At(httpBuf, i) = httpStream[(httpPos - Readable(httpBuf)) + i]
    BY <1>0 DEF HttpInv, HttpReaderInv
<1> QED BY <1>0, <1>1, <1>2, BufferedStep

\* readv() would block: the buffer has made room and is parsed.
LEMMA HttpReadAgainStep == HttpInv /\ HttpReadAgain => HttpInv'
<1> SUFFICES ASSUME HttpInv, HttpReadAgain PROVE HttpInv'
    OBVIOUS
<1>0. /\ requests' = requests /\ httpEnds' = httpEnds /\ httpStream' = httpStream
      /\ answered' = answered /\ errors' = errors /\ pstate' = pstate /\ length' = length
      /\ method' = method /\ body' = body /\ httpPlace = "read" /\ httpPlace' = "parse"
      /\ httpPos' = httpPos /\ httpBuf' = MakeRoom(httpBuf, HttpExtra, Blank)
      /\ consumed' = consumed
    BY DEF HttpReadAgain, client, parser
<1>1. /\ httpPos \in Nat /\ httpPos <= Len(httpStream) /\ httpBuf \in Buffers(Token)
      /\ Readable(httpBuf) <= httpPos /\ httpPos <= httpPos
    BY HttpFacts
<1>2. /\ consumed = 0
      /\ \A i \in 1..Readable(httpBuf) :
           At(httpBuf, i) = httpStream[(httpPos - Readable(httpBuf)) + i]
    BY <1>0 DEF HttpInv, HttpReaderInv
<1>3. httpBuf' \in Buffers(Token) /\ Same(httpBuf, httpBuf')
    BY <1>0, <1>1, HttpConstants, Tokens, MakeRoomKeeps
<1>4. /\ Readable(httpBuf') = Readable(httpBuf)
      /\ \A i \in 1..Readable(httpBuf') :
           At(httpBuf', i) = httpStream[(httpPos - Readable(httpBuf)) + i]
    BY <1>2, <1>3 DEF Same
<1> QED BY <1>0, <1>1, <1>2, <1>3, <1>4, BufferedStep

\* What readv() returned is behind what the buffer held.
LEMMA HttpReadSomeStep == HttpInv /\ HttpReadSome => HttpInv'
<1> SUFFICES ASSUME HttpInv, HttpReadSome PROVE HttpInv'
    OBVIOUS
<1> DEFINE rb == MakeRoom(httpBuf, HttpExtra, Blank)
           start == httpPos - Readable(httpBuf)
<1>0. /\ requests' = requests /\ httpEnds' = httpEnds /\ httpStream' = httpStream
      /\ answered' = answered /\ errors' = errors /\ pstate' = pstate /\ length' = length
      /\ method' = method /\ body' = body /\ httpPlace = "read" /\ httpPlace' = "read"
      /\ consumed' = consumed
    BY DEF HttpReadSome, client, parser
<1>1. /\ httpPos \in Nat /\ httpPos <= Len(httpStream) /\ httpBuf \in Buffers(Token)
      /\ Readable(httpBuf) \in Nat /\ Readable(httpBuf) <= httpPos
      /\ httpStream \in Seq(Token) /\ Len(httpStream) \in Nat
    BY HttpFacts
<1>2. /\ consumed = 0
      /\ \A i \in 1..Readable(httpBuf) : At(httpBuf, i) = httpStream[start + i]
    BY <1>0 DEF HttpInv, HttpReaderInv
<1>3. rb \in Buffers(Token) /\ Same(httpBuf, rb) /\ Writable(rb) \in Nat
    BY <1>1, HttpConstants, Tokens, MakeRoomKeeps
<1>4. PICK n \in 1..(Writable(rb) + HttpExtra) :
        /\ httpPos + n <= Len(httpStream) /\ httpPos' = httpPos + n
        /\ httpBuf' = ReadInto(rb, SubSeq(httpStream, httpPos + 1, httpPos + n), Blank)
    BY DEF HttpReadSome
<1> HIDE DEF rb
<1> DEFINE bytes == SubSeq(httpStream, httpPos + 1, httpPos + n)
<1>5. n \in Nat /\ n >= 1
    BY <1>3, HttpConstants
<1>6. /\ bytes \in Seq(Token) /\ Len(bytes) = n
      /\ \A i \in 1..n : bytes[i] = httpStream[httpPos + i]
  <2>1. \A i \in (httpPos + 1)..(httpPos + n) : httpStream[i] \in Token
      BY <1>1, <1>4, <1>5
  <2>2. httpPos + 1 \in Int /\ httpPos + n \in Int
      BY <1>1, <1>5
  <2>3. /\ bytes \in Seq(Token)
        /\ Len(bytes) = IF httpPos + 1 <= httpPos + n
                        THEN (httpPos + n) - (httpPos + 1) + 1 ELSE 0
        /\ \A i \in 1..((httpPos + n) - (httpPos + 1) + 1) :
             bytes[i] = httpStream[(httpPos + 1) + i - 1]
      BY <2>1, <2>2, SubSeqProperties
  <2>4. /\ (httpPos + n) - (httpPos + 1) + 1 = n /\ httpPos + 1 <= httpPos + n
        /\ \A i \in 1..n : (httpPos + 1) + i - 1 = httpPos + i
      BY <1>1, <1>5
  <2> HIDE DEF bytes
  <2> QED BY <2>3, <2>4
<1>7. httpBuf' = ReadInto(rb, bytes, Blank)
    BY <1>4
<1> HIDE DEF bytes
<1>8. httpBuf' \in Buffers(Token) /\ Appended(rb, bytes, httpBuf')
    BY <1>3, <1>6, <1>7, Tokens, ReadIntoAppends
<1>9. /\ Readable(rb) = Readable(httpBuf) /\ Readable(httpBuf') = Readable(httpBuf) + n
      /\ \A i \in 1..Readable(httpBuf) : At(httpBuf', i) = httpStream[start + i]
      /\ \A i \in 1..n : At(httpBuf', Readable(httpBuf) + i) = httpStream[httpPos + i]
    BY <1>2, <1>3, <1>6, <1>8 DEF Same, Appended
<1>10. ASSUME NEW i \in 1..Readable(httpBuf') PROVE At(httpBuf', i) = httpStream[start + i]
  <2>1. CASE i <= Readable(httpBuf)
    <3>1. i \in 1..Readable(httpBuf)
        BY <1>1, <1>5, <1>9, <2>1
    <3> QED BY <1>9, <3>1
  <2>2. CASE i > Readable(httpBuf)
    <3> DEFINE j == i - Readable(httpBuf)
    <3>1. j \in 1..n /\ Readable(httpBuf) + j = i /\ httpPos + j = start + i
        BY <1>1, <1>5, <1>9, <2>2
    <3> HIDE DEF j
    <3>2. At(httpBuf', Readable(httpBuf) + j) = httpStream[httpPos + j]
        BY <1>9, <3>1
    <3> QED BY <3>1, <3>2
  <2> QED BY <1>1, <1>5, <1>9, <2>1, <2>2
<1>11. /\ httpPos' \in Nat /\ httpPos <= httpPos' /\ httpPos' <= Len(httpStream)
       /\ Readable(httpBuf') <= httpPos'
       /\ httpPos' - Readable(httpBuf') = httpPos - Readable(httpBuf)
    BY <1>1, <1>4, <1>5, <1>9
<1> QED BY <1>0, <1>2, <1>8, <1>10, <1>11, BufferedStep

-----------------------------------------------------------------------------
(* What parse() sees *)

\* The rest of the buffer is the stream from where parse() is.
LEMMA RestIs ==
  ASSUME HttpInv
  PROVE  /\ Rest \in Seq(Token) /\ Len(Rest) = Readable(httpBuf) - consumed
         /\ Len(Rest) = httpPos - Parsed /\ Len(Rest) \in Nat
         /\ \A i \in 1..Len(Rest) : Rest[i] = httpStream[Parsed + i]
<1> DEFINE P == Peek(httpBuf)
           n == Readable(httpBuf)
<1>0. /\ httpPos \in Nat /\ httpBuf \in Buffers(Token) /\ n \in Nat
      /\ n <= httpPos /\ consumed \in Nat /\ consumed <= n
    BY HttpFacts
<1>1. \A i \in 1..n : At(httpBuf, i) = httpStream[(httpPos - n) + i]
    BY DEF HttpInv, HttpReaderInv
<1>2. P \in Seq(Token) /\ Len(P) = n /\ \A i \in 1..n : P[i] = At(httpBuf, i)
    BY <1>0, PeekIs
<1> HIDE DEF P
<1>3. /\ Rest \in Seq(Token)
      /\ Len(Rest) = IF consumed + 1 <= n THEN n - (consumed + 1) + 1 ELSE 0
      /\ \A i \in 1..(n - (consumed + 1) + 1) : Rest[i] = P[(consumed + 1) + i - 1]
  <2>1. consumed + 1 \in Int /\ n \in Int
      BY <1>0
  <2>2. \A i \in (consumed + 1)..n : P[i] \in Token
      BY <1>0, <1>2
  <2>3. Rest = SubSeq(P, consumed + 1, n)
      BY DEF Rest, P
  <2> QED BY <1>2, <2>1, <2>2, <2>3, SubSeqProperties
<1>4. /\ n - (consumed + 1) + 1 = n - consumed
      /\ (IF consumed + 1 <= n THEN n - (consumed + 1) + 1 ELSE 0) = n - consumed
      /\ \A i \in 1..(n - consumed) : (consumed + 1) + i - 1 = consumed + i
    BY <1>0, Between
<1>5. Len(Rest) = n - consumed /\ \A i \in 1..(n - consumed) : Rest[i] = P[consumed + i]
    BY <1>3, <1>4
<1>6. n - consumed = httpPos - Parsed /\ n - consumed \in Nat
    BY <1>0 DEF Parsed
<1>7. ASSUME NEW i \in 1..(n - consumed) PROVE Rest[i] = httpStream[Parsed + i]
  <2>1. consumed + i \in 1..n /\ (httpPos - n) + (consumed + i) = Parsed + i
      BY <1>0 DEF Parsed
  <2> QED BY <1>1, <1>2, <1>5, <2>1
<1> QED BY <1>3, <1>5, <1>6, <1>7

\* The first end of a line lies within the rest.
LEMMA LineLenIs ==
  ASSUME HttpInv, LineEnds # {}
  PROVE  /\ LineLen \in Nat /\ LineLen + 2 <= Len(Rest) /\ LineLen + 1 \in LineEnds
         /\ \A j \in LineEnds : LineLen + 1 <= j
<1>0. Len(Rest) \in Nat
    BY RestIs
<1>1. LineEnds \subseteq 1..(Len(Rest) - 1)
    BY DEF LineEnds
<1>2. LineEnds \in SUBSET Nat
    BY <1>0, <1>1
<1>3. PICK x \in LineEnds : \A y \in LineEnds : ~ (<<y, x>> \in Less)
    BY <1>2, LessWF, WFMin
<1>4. \A y \in LineEnds : x <= y
  <2> TAKE y \in LineEnds
  <2>1. x \in Nat /\ y \in Nat
      BY <1>2
  <2>2. ~ (y < x)
      BY <1>3, <2>1 DEF Less
  <2> QED BY <2>1, <2>2
<1> DEFINE c == CHOOSE i \in LineEnds : \A j \in LineEnds : i <= j
<1>5. c \in LineEnds /\ \A j \in LineEnds : c <= j
    BY <1>4
<1>6. LineLen = c - 1
    BY DEF LineLen
<1> HIDE DEF c
<1>7. c \in 1..(Len(Rest) - 1)
    BY <1>1, <1>5
<1>8. LineLen + 1 = c /\ LineLen \in Nat /\ LineLen + 2 <= Len(Rest)
    BY <1>0, <1>6, <1>7
<1> QED BY <1>5, <1>8

\* A line with the text t is next in the stream, as far as it has been read: it is
\* found as soon as it is there with its CR LF.
LEMMA FrontText ==
  ASSUME HttpInv, NEW t \in HttpTexts, Parsed + 3 <= Len(httpStream),
         httpStream[Parsed + 1] = t, httpStream[Parsed + 2] = CR, httpStream[Parsed + 3] = LF
  PROVE  /\ LineEnds # {} <=> Len(Rest) >= 3
         /\ LineEnds # {} => LineLen = 1 /\ FrontLine = <<t>>
<1>0. /\ Len(Rest) \in Nat /\ Rest \in Seq(Token)
      /\ \A i \in 1..Len(Rest) : Rest[i] = httpStream[Parsed + i]
    BY RestIs
<1>1. t # CR
    BY HttpConstants
<1>2. 1 \notin LineEnds
  <2>1. ASSUME 1 \in LineEnds PROVE FALSE
    <3>1. 1 \in 1..(Len(Rest) - 1) /\ Rest[1] = CR
        BY <2>1 DEF LineEnds
    <3>2. 1 \in 1..Len(Rest)
        BY <1>0, <3>1
    <3> QED BY <1>0, <1>1, <3>1, <3>2
  <2> QED BY <2>1
<1>3. ASSUME Len(Rest) >= 3 PROVE 2 \in LineEnds /\ Rest[1] = t
  <2>1. 1 \in 1..Len(Rest) /\ 2 \in 1..Len(Rest) /\ 3 \in 1..Len(Rest) /\ 2 \in 1..(Len(Rest) - 1)
      BY <1>0, <1>3
  <2>2. Rest[1] = t /\ Rest[2] = CR /\ Rest[3] = LF
      BY <1>0, <2>1
  <2>3. Rest[2 + 1] = LF
      BY <2>2
  <2> QED BY <2>1, <2>2, <2>3 DEF LineEnds
<1>4. ASSUME LineEnds # {}
      PROVE  Len(Rest) >= 3 /\ LineLen = 1 /\ FrontLine = <<t>>
  <2>1. /\ LineLen \in Nat /\ LineLen + 2 <= Len(Rest) /\ LineLen + 1 \in LineEnds
        /\ \A j \in LineEnds : LineLen + 1 <= j
      BY <1>4, LineLenIs
  <2>2. LineLen # 0
      BY <1>2, <2>1
  <2>3. Len(Rest) >= 3
      BY <1>0, <2>1, <2>2
  <2>4. LineLen + 1 <= 2 /\ Rest[1] = t
      BY <1>3, <2>1, <2>3
  <2>5. LineLen = 1
      BY <2>1, <2>2, <2>4
  <2>6. FrontLine = <<t>>
    <3>1. FrontLine = SubSeq(Rest, 1, 1)
        BY <2>5 DEF FrontLine
    <3> DEFINE s == SubSeq(Rest, 1, 1)
               u == <<t>>
    <3>2. \A i \in 1..1 : Rest[i] \in Token
        BY <1>0, <2>3
    <3>3. /\ s \in Seq(Token) /\ Len(s) = IF 1 <= 1 THEN 1 - 1 + 1 ELSE 0
          /\ \A i \in 1..(1 - 1 + 1) : s[i] = Rest[1 + i - 1]
        BY <3>2, SubSeqProperties
    <3>4. u \in Seq(Token) /\ Len(u) = 1 /\ u[1] = t
        BY Tokens
    <3> HIDE DEF s, u
    <3>5. Len(s) = 1 /\ s[1] = Rest[1]
      <4>1. (IF 1 <= 1 THEN 1 - 1 + 1 ELSE 0) = 1 /\ 1 \in 1..(1 - 1 + 1) /\ 1 + 1 - 1 = 1
          OBVIOUS
      <4> QED BY <3>3, <4>1
    <3>6. Len(s) = Len(u) /\ \A i \in 1..Len(s) : s[i] = u[i]
      <4>1. \A i \in 1..1 : i = 1
          OBVIOUS
      <4> QED BY <2>4, <3>4, <3>5, <4>1
    <3>7. s = u
        BY <3>3, <3>4, <3>6, SeqEqual
    <3> QED BY <3>1, <3>7 DEF s, u
  <2> QED BY <2>3, <2>5, <2>6
<1> QED BY <1>3, <1>4

\* The empty line is next.
LEMMA FrontEmpty ==
  ASSUME HttpInv, Parsed + 2 <= Len(httpStream),
         httpStream[Parsed + 1] = CR, httpStream[Parsed + 2] = LF
  PROVE  /\ LineEnds # {} <=> Len(Rest) >= 2
         /\ LineEnds # {} => LineLen = 0
<1>0. /\ Len(Rest) \in Nat
      /\ \A i \in 1..Len(Rest) : Rest[i] = httpStream[Parsed + i]
    BY RestIs
<1>1. ASSUME Len(Rest) >= 2 PROVE 1 \in LineEnds
  <2>1. 1 \in 1..Len(Rest) /\ 2 \in 1..Len(Rest) /\ 1 \in 1..(Len(Rest) - 1)
      BY <1>0, <1>1
  <2>2. Rest[1] = CR /\ Rest[1 + 1] = LF
      BY <1>0, <2>1
  <2> QED BY <2>1, <2>2 DEF LineEnds
<1>2. ASSUME LineEnds # {} PROVE Len(Rest) >= 2 /\ LineLen = 0
  <2>1. /\ LineLen \in Nat /\ LineLen + 2 <= Len(Rest)
        /\ \A j \in LineEnds : LineLen + 1 <= j
      BY <1>2, LineLenIs
  <2>2. Len(Rest) >= 2
      BY <1>0, <2>1
  <2>3. LineLen + 1 <= 1
      BY <1>1, <2>1, <2>2
  <2> QED BY <2>1, <2>2, <2>3
<1> QED BY <1>1, <1>2

-----------------------------------------------------------------------------
(* Lengths *)

\* A field is not a length, and a length is there or not.
LEMMA LengthsDiffer ==
  /\ NoLength \notin LengthFields
  /\ \A f \in Field : f \notin LengthFields
  /\ \A x \in Lengths : x \in LengthFields
  /\ \A n \in 0..HttpMax : <<"Content-Length", n>> \in LengthFields
<1>1. /\ NoLength[1] = "none" /\ NotDigits[1] = "Content-Length: x"
      /\ \A f \in Field : f[1] = "Host"
    BY DEF NoLength, NotDigits, Field
<1>2. \A x \in Lengths : x[1] = "Content-Length"
    BY DEF Lengths
<1>3. \A x \in LengthFields : x[1] \in {"Content-Length", "Content-Length: x"}
    BY <1>1, <1>2 DEF LengthFields
<1>4. ~ ("none" \in {"Content-Length", "Content-Length: x"})
      /\ ~ ("Host" \in {"Content-Length", "Content-Length: x"})
    OBVIOUS
<1>5. \A x \in Lengths : x \in LengthFields
    BY DEF LengthFields
<1>6. \A n \in 0..HttpMax : n \in 0..(HttpMax + 1)
    BY HttpConstants
<1>7. \A n \in 0..HttpMax : <<"Content-Length", n>> \in Lengths
    BY <1>6 DEF Lengths
<1> QED BY <1>1, <1>3, <1>4, <1>5, <1>7

\* The number of a length.
LEMMA LengthNumber ==
  ASSUME NEW x \in Lengths, ~ (x[2] > HttpMax)
  PROVE  x[2] \in 0..HttpMax /\ x = <<"Content-Length", x[2]>>
<1>1. PICK n \in 0..(HttpMax + 1) : x = <<"Content-Length", n>>
    BY DEF Lengths
<1>2. x[2] = n
    BY <1>1
<1>3. HttpMax \in Nat
    BY HttpConstants
<1> QED BY <1>1, <1>2, <1>3

\* No fields give no length.
LEMMA LengthZero == ASSUME NEW fs PROVE LengthAfter(fs, 0, NoLength)
<1>1. \A i \in 1..0 : FALSE
    OBVIOUS
<1> QED BY <1>1 DEF LengthAfter

\* The next field gives a length, or leaves it.
LEMMA LengthNext ==
  ASSUME NEW fs, NEW k \in Nat, NEW x, LengthAfter(fs, k, x)
  PROVE  /\ fs[k + 1] \notin LengthFields => LengthAfter(fs, k + 1, x)
         /\ fs[k + 1] \in LengthFields => LengthAfter(fs, k + 1, fs[k + 1])
<1>0. \A i \in 1..(k + 1) : i \in 1..k \/ i = k + 1
    OBVIOUS
<1>1. ASSUME fs[k + 1] \notin LengthFields PROVE LengthAfter(fs, k + 1, x)
  <2>1. CASE x = NoLength /\ \A i \in 1..k : fs[i] \notin LengthFields
      BY <1>0, <1>1, <2>1 DEF LengthAfter
  <2>2. CASE /\ x \in LengthFields
             /\ \E i \in 1..k : fs[i] = x /\ \A j \in (i + 1)..k : fs[j] \notin LengthFields
    <3>1. PICK i \in 1..k : fs[i] = x /\ \A j \in (i + 1)..k : fs[j] \notin LengthFields
        BY <2>2
    <3>2. i \in 1..(k + 1) /\ \A j \in (i + 1)..(k + 1) : j \in (i + 1)..k \/ j = k + 1
        OBVIOUS
    <3>3. \A j \in (i + 1)..(k + 1) : fs[j] \notin LengthFields
        BY <1>1, <3>1, <3>2
    <3> QED BY <2>2, <3>1, <3>2, <3>3 DEF LengthAfter
  <2> QED BY <2>1, <2>2 DEF LengthAfter
<1>2. ASSUME fs[k + 1] \in LengthFields PROVE LengthAfter(fs, k + 1, fs[k + 1])
  <2>1. k + 1 \in 1..(k + 1) /\ \A j \in ((k + 1) + 1)..(k + 1) : FALSE
      OBVIOUS
  <2> QED BY <1>2, <2>1 DEF LengthAfter
<1> QED BY <1>1, <1>2

\* There is one length.
LEMMA LengthOne ==
  ASSUME NEW fs, NEW k \in Nat, NEW x, NEW y, LengthAfter(fs, k, x), LengthAfter(fs, k, y)
  PROVE  x = y
<1>1. CASE x = NoLength /\ \A i \in 1..k : fs[i] \notin LengthFields
    BY <1>1 DEF LengthAfter
<1>2. CASE y = NoLength /\ \A i \in 1..k : fs[i] \notin LengthFields
    BY <1>2 DEF LengthAfter
<1>3. CASE /\ x \in LengthFields /\ y \in LengthFields
           /\ \E i \in 1..k : fs[i] = x /\ \A j \in (i + 1)..k : fs[j] \notin LengthFields
           /\ \E i \in 1..k : fs[i] = y /\ \A j \in (i + 1)..k : fs[j] \notin LengthFields
  <2>1. PICK a \in 1..k : fs[a] = x /\ \A j \in (a + 1)..k : fs[j] \notin LengthFields
      BY <1>3
  <2>2. PICK b \in 1..k : fs[b] = y /\ \A j \in (b + 1)..k : fs[j] \notin LengthFields
      BY <1>3
  <2>3. ~ (a < b)
    <3>1. a < b => b \in (a + 1)..k
        OBVIOUS
    <3> QED BY <1>3, <2>1, <2>2, <3>1
  <2>4. ~ (b < a)
    <3>1. b < a => a \in (b + 1)..k
        OBVIOUS
    <3> QED BY <1>3, <2>1, <2>2, <3>1
  <2>5. a = b
      BY <2>3, <2>4
  <2> QED BY <2>1, <2>2, <2>5
<1> QED BY <1>1, <1>2, <1>3 DEF LengthAfter

-----------------------------------------------------------------------------
(* parse() *)

\* Where the request that comes after the delivered ones stands.
LEMMA NextRequest ==
  ASSUME HttpInv, Len(answered) < Len(requests)
  PROVE  LET r == requests[Len(answered) + 1] IN
         /\ r \in HttpRequests /\ HttpBase \in Nat
         /\ httpEnds[Len(answered) + 1] = HttpBase + Len(EncodeRequest(r))
         /\ httpEnds[Len(answered) + 1] \in Nat
         /\ httpEnds[Len(answered) + 1] <= Len(httpStream)
         /\ \A j \in 1..Len(EncodeRequest(r)) : httpStream[HttpBase + j] = EncodeRequest(r)[j]
<1> DEFINE d == Len(answered)
           r == requests[d + 1]
           L == Len(requests)
<1>0. /\ requests \in Seq(HttpRequests) /\ d \in Nat /\ L \in Nat
      /\ Len(httpStream) \in Nat
      /\ \A k \in 0..L : End(httpEnds, k) \in Nat
      /\ \A k \in 1..L : End(httpEnds, k) = httpEnds[k] /\ httpEnds[k] \in Nat
    BY HttpFacts
<1>1. /\ d + 1 \in 1..L /\ d + 1 \in 0..L /\ d \in 0..L /\ L \in 0..L /\ (d + 1) - 1 = d
    BY <1>0
<1>2. r \in HttpRequests
    BY <1>0, <1>1
<1>3. HttpStreamOf(requests, httpEnds, httpStream)
    BY DEF HttpInv
<1>4. /\ End(httpEnds, d + 1) = End(httpEnds, (d + 1) - 1) + Len(EncodeRequest(requests[d + 1]))
      /\ \A j \in 1..Len(EncodeRequest(requests[d + 1])) :
           httpStream[End(httpEnds, (d + 1) - 1) + j] = EncodeRequest(requests[d + 1])[j]
  <2> HIDE DEF d
  <2> QED BY <1>1, <1>3 DEF HttpStreamOf
<1>5. httpEnds[d + 1] <= Len(httpStream)
  <2>1. Len(httpStream) = End(httpEnds, L)
      BY <1>3 DEF HttpStreamOf
  <2>2. CASE d + 1 = L
      BY <1>0, <1>1, <2>1, <2>2
  <2>3. CASE d + 1 < L
    <3>1. End(httpEnds, d + 1) < End(httpEnds, L)
      <4> HIDE DEF d
      <4> QED BY <1>1, <1>3, <2>3 DEF HttpStreamOf
    <3> QED BY <1>0, <1>1, <2>1, <3>1
  <2> QED BY <1>0, <1>1, <2>2, <2>3
<1> QED BY <1>0, <1>1, <1>2, <1>4, <1>5 DEF HttpBase

\* Without an error, a token that was read belongs to a request that was written.
LEMMA MoreRequests ==
  ASSUME HttpInv, ~errors, Parsed < httpPos
  PROVE  Len(answered) < Len(requests)
<1> DEFINE d == Len(answered)
<1>0. /\ d \in Nat /\ Len(requests) \in Nat /\ httpPos \in Nat
      /\ httpPos <= Len(httpStream) /\ Len(httpStream) \in Nat /\ Parsed \in Nat
    BY HttpFacts
<1>1. d <= Len(requests) /\ PlaceInv
    BY DEF HttpInv, AnsweredInv
<1>2. CASE pstate = "REQUEST_LINE"
  <2>1. HttpBase < Len(httpStream)
      BY <1>0, <1>1, <1>2 DEF PlaceInv
  <2>2. Len(httpStream) = End(httpEnds, Len(requests))
      BY DEF HttpInv, HttpStreamOf
  <2>3. d # Len(requests)
      BY <1>0, <2>1, <2>2 DEF HttpBase
  <2> QED BY <1>0, <1>1, <2>3
<1>3. CASE pstate # "REQUEST_LINE"
    BY <1>1, <1>3 DEF PlaceInv
<1> QED BY <1>2, <1>3

\* A turn of parse()'s loop that is not the last.
LEMMA TurnStep ==
  ASSUME HttpInv, httpPlace = "loop", httpPlace' = httpPlace,
         UNCHANGED <<requests, httpEnds, httpStream, httpPos, httpBuf, answered, errors>>,
         consumed' \in Nat, consumed' <= Readable(httpBuf),
         pstate' \in {"REQUEST_LINE", "HEADERS", "BODY", "DONE"},
         length' \in LengthFields \cup {NoLength}, method' \in Methods \cup {<<"UNKNOWN">>},
         body' \in Seq(Token),
         ~errors => PlaceInv'
  PROVE  HttpInv'
<1>0. /\ requests' = requests /\ httpEnds' = httpEnds /\ httpStream' = httpStream
      /\ httpPos' = httpPos /\ httpBuf' = httpBuf /\ answered' = answered /\ errors' = errors
      /\ httpPlace' = "loop"
    OBVIOUS
<1>1. Readable(httpBuf) \in Nat
    BY HttpFacts
<1>2. HttpReaderInv'
  <2>1. consumed' \in 0..Readable(httpBuf')
      BY <1>0, <1>1
  <2>2. /\ httpPos' \in 0..Len(httpStream') /\ httpBuf' \in Buffers(Token)
        /\ Readable(httpBuf') <= httpPos'
        /\ \A i \in 1..Readable(httpBuf') :
             At(httpBuf', i) = httpStream'[(httpPos' - Readable(httpBuf')) + i]
        /\ errors' \in BOOLEAN
        /\ answered' \in Seq([line : Methods \cup {<<"UNKNOWN">>}, body : Seq(Token)])
      BY <1>0 DEF HttpInv, HttpReaderInv
  <2> QED BY <1>0, <2>1, <2>2 DEF HttpReaderInv, Readable, At
<1>3. HttpStreamOf(requests', httpEnds', httpStream')
    BY <1>0 DEF HttpInv
<1>4. ~errors => AnsweredInv'
    BY <1>0 DEF HttpInv, AnsweredInv, Seen
<1>5. errors => ErrorInv'
    BY <1>0 DEF HttpInv, ErrorInv
<1> QED BY <1>0, <1>2, <1>3, <1>4, <1>5 DEF HttpInv

\* An error is answered: the request after the delivered ones was malformed, if
\* there was no error before.
LEMMA RefuseStep ==
  ASSUME HttpInv, RefuseRequest,
         ~errors => /\ Len(answered) < Len(requests)
                    /\ Malformed(requests[Len(answered) + 1]) /\ HttpBase < httpPos
  PROVE  HttpInv'
<1> DEFINE d == Len(answered)
<1>0. /\ requests' = requests /\ httpEnds' = httpEnds /\ httpStream' = httpStream
      /\ httpPos' = httpPos /\ httpBuf' = httpBuf /\ answered' = answered /\ errors' = TRUE
      /\ httpPlace' = "wait" /\ consumed' = 0 /\ pstate' = "REQUEST_LINE"
      /\ length' = NoLength /\ method' = <<"UNKNOWN">> /\ body' = <<>>
    BY DEF RefuseRequest, Reset, client
<1>1. Readable(httpBuf) \in Nat /\ d \in Nat /\ Len(requests) \in Nat
    BY HttpFacts
<1>2. HttpReaderInv'
  <2>1. consumed' \in 0..Readable(httpBuf') /\ body' \in Seq(Token)
      BY <1>0, <1>1
  <2>2. /\ httpPos' \in 0..Len(httpStream') /\ httpBuf' \in Buffers(Token)
        /\ Readable(httpBuf') <= httpPos'
        /\ \A i \in 1..Readable(httpBuf') :
             At(httpBuf', i) = httpStream'[(httpPos' - Readable(httpBuf')) + i]
        /\ answered' \in Seq([line : Methods \cup {<<"UNKNOWN">>}, body : Seq(Token)])
      BY <1>0 DEF HttpInv, HttpReaderInv
  <2> QED BY <1>0, <2>1, <2>2 DEF HttpReaderInv, Readable, At
<1>3. HttpStreamOf(requests', httpEnds', httpStream')
    BY <1>0 DEF HttpInv
<1>4. ErrorInv
  <2>1. CASE ~errors
    <3>1. d \in 0..(Len(requests) - 1) /\ d <= d
        BY <1>1, <2>1
    <3>2. \A i \in 1..d : ~Malformed(requests[i]) /\ answered[i] = Content(requests[i])
        BY <2>1 DEF HttpInv, AnsweredInv
    <3> QED BY <2>1, <3>1, <3>2 DEF ErrorInv, HttpBase
  <2>2. CASE errors
      BY <2>2 DEF HttpInv
  <2> QED BY <2>1, <2>2
<1>5. ErrorInv'
    BY <1>0, <1>4 DEF ErrorInv
<1> QED BY <1>0, <1>2, <1>3, <1>5 DEF HttpInv

\* What is next in the stream when parse() has consumed j tokens of a request.
LEMMA NextToken ==
  ASSUME HttpInv, Len(answered) < Len(requests), NEW j \in Nat, NEW i \in Nat, i >= 1,
         Parsed = HttpBase + j, j + i <= Len(EncodeRequest(requests[Len(answered) + 1]))
  PROVE  /\ httpStream[Parsed + i] = EncodeRequest(requests[Len(answered) + 1])[j + i]
         /\ Parsed + i <= Len(httpStream)
<1> DEFINE e == EncodeRequest(requests[Len(answered) + 1])
           z == httpEnds[Len(answered) + 1]
<1>1. /\ HttpBase \in Nat /\ z = HttpBase + Len(e) /\ z <= Len(httpStream) /\ z \in Nat
      /\ \A m \in 1..Len(e) : httpStream[HttpBase + m] = e[m]
    BY NextRequest
<1>2. Len(e) \in Nat
  <2>1. requests[Len(answered) + 1] \in HttpRequests
      BY NextRequest
  <2>2. e \in Seq(Token)
      BY <2>1, EncodeRequestIs
  <2> HIDE DEF e
  <2> QED BY <2>2
<1>3. Len(httpStream) \in Nat /\ j + i <= Len(e)
    BY HttpFacts
<1> HIDE DEF e, z
<1>4. j + i \in 1..Len(e) /\ Parsed + i = HttpBase + (j + i)
    BY <1>1, <1>2, <1>3
<1>5. Parsed + i <= Len(httpStream)
    BY <1>1, <1>2, <1>3, <1>4
<1> QED BY <1>1, <1>4, <1>5 DEF e

\* The sizes of a request and of its parts.
LEMMA Sizes ==
  ASSUME NEW r \in HttpRequests
  PROVE  /\ Len(r.fields) \in Nat /\ Len(r.body) \in Nat /\ Len(EncodeRequest(r)) \in Nat
         /\ Len(EncodeRequest(r)) = 3 * Len(r.fields) + 5 + Len(r.body)
         /\ Len(EncodeRequest(r)) >= 5
<1> DEFINE n == Len(r.fields)
           b == Len(r.body)
<1>1. n \in Nat /\ b \in Nat /\ Len(EncodeRequest(r)) = 3 * n + 5 + b
    BY EncodeRequestIs
<1> HIDE DEF n, b
<1>2. 3 * n + 5 + b \in Nat /\ 3 * n + 5 + b >= 5
    BY <1>1
<1> QED BY <1>1, <1>2 DEF n, b

\* In state REQUEST_LINE the line of the next request is in front.
LEMMA RequestLineHere ==
  ASSUME HttpInv, ~errors, pstate = "REQUEST_LINE", Len(answered) < Len(requests)
  PROVE  LET r == requests[Len(answered) + 1] IN
         /\ Parsed = HttpBase
         /\ LineEnds # {} <=> Len(Rest) >= 3
         /\ LineEnds # {} => LineLen = 1 /\ FrontLine = <<r.line>>
<1> DEFINE r == requests[Len(answered) + 1]
           e == EncodeRequest(r)
<1>1. Parsed = HttpBase /\ HttpBase \in Nat /\ r \in HttpRequests
    BY NextRequest DEF HttpInv, PlaceInv
<1>2. e[1] = r.line /\ e[2] = CR /\ e[3] = LF /\ Len(e) \in Nat /\ Len(e) >= 5
    BY <1>1, EncodeRequestIs, Sizes
<1>3. r.line \in HttpTexts
    BY <1>1, HttpConstants
<1>4. Parsed = HttpBase + 0 /\ 0 + 1 = 1 /\ 0 + 2 = 2 /\ 0 + 3 = 3
      /\ 1 <= Len(e) /\ 2 <= Len(e) /\ 3 <= Len(e)
    BY <1>1, <1>2
<1>5. httpStream[Parsed + 1] = e[0 + 1]
    BY <1>4, NextToken
<1>6. httpStream[Parsed + 2] = e[0 + 2]
    BY <1>4, NextToken
<1>7. httpStream[Parsed + 3] = e[0 + 3] /\ Parsed + 3 <= Len(httpStream)
    BY <1>4, NextToken
<1>8. /\ httpStream[Parsed + 1] = r.line /\ httpStream[Parsed + 2] = CR
      /\ httpStream[Parsed + 3] = LF
    BY <1>2, <1>4, <1>5, <1>6, <1>7
<1> QED BY <1>1, <1>3, <1>7, <1>8, FrontText

\* A field, or the empty line, fits behind k fields.
LEMMA FieldFits ==
  ASSUME NEW n \in Nat, NEW b \in Nat, NEW k \in 0..n
  PROVE  LET j == 3 * k + 3
             len == 3 * n + 5 + b
         IN  /\ j + 1 <= len /\ j + 2 <= len
             /\ k < n => j + 3 <= len
OBVIOUS

\* In state HEADERS a field of the next request is in front, or the empty line.
LEMMA HeadersHere ==
  ASSUME HttpInv, ~errors, pstate = "HEADERS"
  PROVE  LET r == requests[Len(answered) + 1] IN
         /\ Len(answered) < Len(requests) /\ r \in HttpRequests /\ r.line \in Methods
         /\ method = r.line /\ body = <<>>
         /\ \E k \in 0..Len(r.fields) :
              /\ Parsed = HttpBase + (3 * k + 3) /\ FieldsTo(r, k, length)
              /\ k < Len(r.fields) =>
                   /\ LineEnds # {} <=> Len(Rest) >= 3
                   /\ LineEnds # {} => LineLen = 1 /\ FrontLine = <<r.fields[k + 1]>>
              /\ k = Len(r.fields) =>
                   /\ LineEnds # {} <=> Len(Rest) >= 2
                   /\ LineEnds # {} => LineLen = 0
<1> DEFINE r == requests[Len(answered) + 1]
           e == EncodeRequest(r)
           n == Len(r.fields)
<1>1. Len(answered) < Len(requests) /\ PlaceInv
    BY DEF HttpInv, PlaceInv
<1>2. r \in HttpRequests /\ HttpBase \in Nat /\ Parsed \in Nat
    BY <1>1, NextRequest, HttpFacts
<1>3. Placed(r, Parsed - HttpBase, "HEADERS", length, method, body)
    BY <1>1 DEF PlaceInv
<1>4. PICK k \in 0..n : Parsed - HttpBase = 3 * k + 3 /\ FieldsTo(r, k, length)
    BY <1>3 DEF Placed
<1>5. r.line \in Methods /\ method = r.line /\ body = <<>>
    BY <1>3 DEF Placed
<1> DEFINE j == 3 * k + 3
<1>6. /\ n \in Nat /\ Len(r.body) \in Nat /\ Len(e) \in Nat
      /\ Len(e) = 3 * n + 5 + Len(r.body)
    BY <1>2, Sizes
<1>7. /\ \A m \in 1..n : /\ e[3 * m + 1] = r.fields[m] /\ e[3 * m + 2] = CR
                         /\ e[3 * m + 3] = LF
      /\ e[3 * n + 4] = CR /\ e[3 * n + 5] = LF
    BY <1>2, EncodeRequestIs
<1> HIDE DEF e
<1>8. k \in Nat /\ j \in Nat /\ Parsed = HttpBase + j
    BY <1>2, <1>4, <1>6
<1>9. ASSUME k < n
      PROVE  /\ LineEnds # {} <=> Len(Rest) >= 3
             /\ LineEnds # {} => LineLen = 1 /\ FrontLine = <<r.fields[k + 1]>>
  <2>1. /\ k + 1 \in 1..n /\ 3 * (k + 1) + 1 = j + 1 /\ 3 * (k + 1) + 2 = j + 2
        /\ 3 * (k + 1) + 3 = j + 3
      BY <1>6, <1>8, <1>9
  <2>2. j + 1 <= Len(e) /\ j + 2 <= Len(e) /\ j + 3 <= Len(e)
      BY <1>6, <1>9, FieldFits
  <2> HIDE DEF j
  <2>3. ASSUME NEW i \in 1..3
        PROVE  httpStream[Parsed + i] = e[j + i] /\ Parsed + i <= Len(httpStream)
    <3>1. i \in Nat /\ i >= 1 /\ j + i <= Len(e)
      <4>1. j \in Nat /\ Len(e) \in Nat
          BY <1>6, <1>8
      <4> QED BY <2>2, <4>1
    <3> QED BY <1>1, <1>8, <3>1, NextToken DEF e
  <2>4. 1 \in 1..3 /\ 2 \in 1..3 /\ 3 \in 1..3
      OBVIOUS
  <2>5. Parsed + 3 <= Len(httpStream)
      BY <2>3, <2>4
  <2>6. /\ httpStream[Parsed + 1] = r.fields[k + 1] /\ httpStream[Parsed + 2] = CR
        /\ httpStream[Parsed + 3] = LF
    <3>1. /\ httpStream[Parsed + 1] = e[j + 1] /\ httpStream[Parsed + 2] = e[j + 2]
          /\ httpStream[Parsed + 3] = e[j + 3]
        BY <2>3, <2>4
    <3> QED BY <1>7, <2>1, <3>1
  <2>7. r.fields[k + 1] \in HttpTexts
    <3>1. r.fields \in Seq(HttpTexts)
        BY <1>2, HttpConstants
    <3> QED BY <2>1, <3>1
  <2> QED BY <2>5, <2>6, <2>7, FrontText
<1>10. ASSUME k = n
       PROVE  /\ LineEnds # {} <=> Len(Rest) >= 2
              /\ LineEnds # {} => LineLen = 0
  <2>1. 3 * n + 4 = j + 1 /\ 3 * n + 5 = j + 2
      BY <1>6, <1>10
  <2>2. j + 1 <= Len(e) /\ j + 2 <= Len(e)
      BY <1>6, FieldFits
  <2> HIDE DEF j
  <2>3. ASSUME NEW i \in 1..2
        PROVE  httpStream[Parsed + i] = e[j + i] /\ Parsed + i <= Len(httpStream)
    <3>1. i \in Nat /\ i >= 1 /\ j + i <= Len(e)
      <4>1. j \in Nat /\ Len(e) \in Nat
          BY <1>6, <1>8
      <4> QED BY <2>2, <4>1
    <3> QED BY <1>1, <1>8, <3>1, NextToken DEF e
  <2>4. 1 \in 1..2 /\ 2 \in 1..2
      OBVIOUS
  <2>5. httpStream[Parsed + 1] = CR /\ httpStream[Parsed + 2] = LF
    <3>1. httpStream[Parsed + 1] = e[j + 1] /\ httpStream[Parsed + 2] = e[j + 2]
        BY <2>3, <2>4
    <3> QED BY <1>7, <2>1, <3>1
  <2>6. Parsed + 2 <= Len(httpStream)
      BY <2>3, <2>4
  <2> QED BY <2>5, <2>6, FrontEmpty
<1> QED BY <1>1, <1>2, <1>4, <1>5, <1>8, <1>9, <1>10

\* parse() has gone on within the next request.
LEMMA PlaceMade ==
  ASSUME UNCHANGED <<requests, httpEnds, httpPos, answered>>, Len(answered) < Len(requests),
         pstate' # "REQUEST_LINE",
         Placed(requests[Len(answered) + 1], Parsed' - HttpBase,
                pstate', length', method', body'),
         pstate' = "DONE" /\ ZeroBody(requests[Len(answered) + 1]) => Parsed' < httpPos
  PROVE  PlaceInv'
<1>0. /\ requests' = requests /\ httpEnds' = httpEnds /\ httpPos' = httpPos
      /\ answered' = answered
    OBVIOUS
<1>1. HttpBase' = HttpBase
    BY <1>0 DEF HttpBase
<1>2. /\ Len(answered') < Len(requests')
      /\ Placed(requests'[Len(answered') + 1], Parsed' - HttpBase', pstate', length', method',
                body')
      /\ pstate' = "DONE" /\ ZeroBody(requests'[Len(answered') + 1]) => Parsed' < httpPos'
    BY <1>0, <1>1
<1> QED BY <1>2 DEF PlaceInv, Placed, FieldsTo, LengthAfter, Malformed, ZeroBody

\* A line is consumed.
LEMMA SkipLineIs ==
  ASSUME HttpInv, LineEnds # {}, SkipLine
  PROVE  /\ UNCHANGED <<requests, httpEnds, httpStream, httpPos, httpBuf, answered, errors>>
         /\ httpPlace' = httpPlace /\ consumed' \in Nat /\ consumed' <= Readable(httpBuf)
         /\ Parsed' = Parsed + (LineLen + 2)
<1>1. /\ requests' = requests /\ httpEnds' = httpEnds /\ httpStream' = httpStream
      /\ httpPos' = httpPos /\ httpBuf' = httpBuf /\ answered' = answered /\ errors' = errors
      /\ httpPlace' = httpPlace /\ consumed' = consumed + LineLen + 2
    BY DEF SkipLine, client
<1>2. LineLen \in Nat /\ LineLen + 2 <= Len(Rest)
    BY LineLenIs
<1>3. Len(Rest) = Readable(httpBuf) - consumed
    BY RestIs
<1>4. consumed \in Nat /\ Readable(httpBuf) \in Nat /\ httpPos \in Nat
    BY HttpFacts
<1>5. consumed' \in Nat /\ consumed' <= Readable(httpBuf)
    BY <1>1, <1>2, <1>3, <1>4
<1>6. Parsed' = (httpPos - Readable(httpBuf)) + consumed'
    BY <1>1 DEF Parsed, Readable
<1>7. Parsed' = Parsed + (LineLen + 2)
    BY <1>1, <1>2, <1>4, <1>6 DEF Parsed
<1> QED BY <1>1, <1>5, <1>7

\* In the loop there is something left to parse.
LEMMA LoopFacts ==
  ASSUME HttpInv, NEW s, InLoop(s)
  PROVE  /\ httpPlace = "loop" /\ pstate = s /\ Parsed < httpPos
         /\ length \in LengthFields \cup {NoLength} /\ method \in Methods \cup {<<"UNKNOWN">>}
         /\ body \in Seq(Token) /\ errors \in BOOLEAN
<1>1. httpPlace = "loop" /\ pstate = s /\ consumed < Readable(httpBuf)
    BY DEF InLoop
<1>2. httpPos \in Nat /\ Readable(httpBuf) \in Nat /\ consumed \in Nat
    BY HttpFacts
<1>3. Parsed < httpPos
    BY <1>1, <1>2 DEF Parsed
<1> QED BY <1>1, <1>3 DEF HttpInv, HttpReaderInv

\* The request line is taken, or refused because its method is not known.
LEMMA RequestLineStep == HttpInv /\ RequestLine => HttpInv'
<1> SUFFICES ASSUME HttpInv, RequestLine PROVE HttpInv'
    OBVIOUS
<1> DEFINE d == Len(answered)
           r == requests[d + 1]
<1>0. InLoop("REQUEST_LINE") /\ LineEnds # {}
    BY DEF RequestLine
<1>1. /\ httpPlace = "loop" /\ pstate = "REQUEST_LINE" /\ Parsed < httpPos
      /\ length \in LengthFields \cup {NoLength} /\ body \in Seq(Token)
    BY <1>0, LoopFacts
<1>2. ASSUME ~errors
      PROVE  /\ d < Len(requests) /\ r \in HttpRequests /\ Parsed = HttpBase
             /\ HttpBase \in Nat /\ LineLen = 1 /\ FrontLine = <<r.line>>
             /\ length = NoLength /\ body = <<>>
  <2>1. d < Len(requests)
      BY <1>1, <1>2, MoreRequests
  <2>2. r \in HttpRequests /\ HttpBase \in Nat
      BY <2>1, NextRequest
  <2>3. Parsed = HttpBase /\ LineLen = 1 /\ FrontLine = <<r.line>>
      BY <1>0, <1>1, <1>2, <2>1, RequestLineHere
  <2>4. length = NoLength /\ body = <<>>
      BY <1>1, <1>2 DEF HttpInv, PlaceInv
  <2> QED BY <2>1, <2>2, <2>3, <2>4
<1>3. CASE /\ \E m \in Methods : FrontLine = <<m>> /\ method' = m
           /\ pstate' = "HEADERS"
           /\ SkipLine
           /\ UNCHANGED <<length, body>>
  <2>1. PICK m \in Methods : FrontLine = <<m>> /\ method' = m
      BY <1>3
  <2>2. /\ UNCHANGED <<requests, httpEnds, httpStream, httpPos, httpBuf, answered, errors>>
        /\ httpPlace' = httpPlace /\ consumed' \in Nat /\ consumed' <= Readable(httpBuf)
        /\ Parsed' = Parsed + (LineLen + 2)
      BY <1>0, <1>3, SkipLineIs
  <2>3. ASSUME ~errors PROVE PlaceInv'
    <3>1. m = r.line
        BY <1>2, <2>1, <2>3
    <3>2. Parsed' - HttpBase = 3 * 0 + 3
        BY <1>2, <2>2, <2>3
    <3>3. 0 \in 0..Len(r.fields)
        BY <1>2, <2>3, Sizes
    <3>4. FieldsTo(r, 0, NoLength)
      <4>1. \A i \in 1..0 : FALSE
          OBVIOUS
      <4> QED BY <4>1, LengthZero DEF FieldsTo
    <3>5. Placed(r, Parsed' - HttpBase, pstate', length', method', body')
      <4>1. /\ r.line \in Methods /\ method' = r.line /\ pstate' = "HEADERS" /\ body' = <<>>
            /\ length' = NoLength
          BY <1>2, <1>3, <2>1, <2>3, <3>1
      <4> HIDE DEF r
      <4> QED BY <3>2, <3>3, <3>4, <4>1 DEF Placed
    <3>6. d < Len(requests) /\ pstate' = "HEADERS"
        BY <1>2, <1>3, <2>3
    <3> QED BY <2>2, <3>5, <3>6, PlaceMade
  <2> QED BY <1>1, <1>3, <2>1, <2>2, <2>3, TurnStep
<1>4. CASE (\A m \in Methods : FrontLine # <<m>>) /\ RefuseRequest
  <2>1. ~errors => d < Len(requests) /\ Malformed(r) /\ HttpBase < httpPos
      BY <1>1, <1>2, <1>4 DEF Malformed
  <2> QED BY <1>4, <2>1, RefuseStep
<1> QED BY <1>3, <1>4 DEF RequestLine

\* A header field is taken, or refused because it is not one.
LEMMA HeaderFieldStep == HttpInv /\ HeaderField => HttpInv'
<1> SUFFICES ASSUME HttpInv, HeaderField PROVE HttpInv'
    OBVIOUS
<1> DEFINE d == Len(answered)
           r == requests[d + 1]
           n == Len(r.fields)
<1>0. InLoop("HEADERS") /\ LineEnds # {} /\ LineLen > 0
    BY DEF HeaderField
<1>1. /\ httpPlace = "loop" /\ pstate = "HEADERS" /\ Parsed < httpPos
      /\ length \in LengthFields \cup {NoLength} /\ method \in Methods \cup {<<"UNKNOWN">>}
      /\ body \in Seq(Token)
    BY <1>0, LoopFacts
<1>2. ASSUME ~errors
      PROVE  /\ d < Len(requests) /\ r \in HttpRequests /\ r.line \in Methods
             /\ method = r.line /\ body = <<>> /\ n \in Nat /\ HttpBase \in Nat
             /\ \E k \in 0..n : /\ k < n /\ Parsed = HttpBase + (3 * k + 3)
                                /\ FieldsTo(r, k, length)
                                /\ LineLen = 1 /\ FrontLine = <<r.fields[k + 1]>>
  <2>1. /\ d < Len(requests) /\ r \in HttpRequests /\ r.line \in Methods
        /\ method = r.line /\ body = <<>>
      BY <1>1, <1>2, HeadersHere
  <2>2. PICK k \in 0..n :
          /\ Parsed = HttpBase + (3 * k + 3) /\ FieldsTo(r, k, length)
          /\ k < n => (LineEnds # {} => LineLen = 1 /\ FrontLine = <<r.fields[k + 1]>>)
          /\ k = n => (LineEnds # {} => LineLen = 0)
      BY <1>1, <1>2, HeadersHere
  <2>3. n \in Nat /\ HttpBase \in Nat
      BY <2>1, Sizes, NextRequest
  <2>4. k < n
    <3>1. k # n
        BY <1>0, <2>2
    <3> QED BY <2>3, <3>1
  <2> QED BY <1>0, <2>1, <2>2, <2>3, <2>4
<1>3. ASSUME SkipLine, method' = method, pstate' = pstate, body' = body,
             length' \in LengthFields \cup {NoLength},
             ~errors => \A k \in 0..n :
                          k < n /\ FieldsTo(r, k, length) /\ FrontLine = <<r.fields[k + 1]>> =>
                            FieldsTo(r, k + 1, length')
      PROVE  HttpInv'
  <2>1. /\ UNCHANGED <<requests, httpEnds, httpStream, httpPos, httpBuf, answered, errors>>
        /\ httpPlace' = httpPlace /\ consumed' \in Nat /\ consumed' <= Readable(httpBuf)
        /\ Parsed' = Parsed + (LineLen + 2)
      BY <1>0, <1>3, SkipLineIs
  <2>2. ASSUME ~errors PROVE PlaceInv'
    <3>1. PICK k \in 0..n : /\ k < n /\ Parsed = HttpBase + (3 * k + 3)
                            /\ FieldsTo(r, k, length)
                            /\ LineLen = 1 /\ FrontLine = <<r.fields[k + 1]>>
        BY <1>2, <2>2
    <3>2. FieldsTo(r, k + 1, length')
        BY <1>3, <2>2, <3>1
    <3>3. k + 1 \in 0..n /\ Parsed' - HttpBase = 3 * (k + 1) + 3
      <4>1. n \in Nat /\ HttpBase \in Nat
          BY <1>2, <2>2
      <4> HIDE DEF n
      <4> QED BY <2>1, <3>1, <4>1
    <3>4. /\ r.line \in Methods /\ method' = r.line /\ pstate' = "HEADERS" /\ body' = <<>>
          /\ d < Len(requests)
        BY <1>1, <1>2, <1>3, <2>2
    <3>5. Placed(r, Parsed' - HttpBase, pstate', length', method', body')
      <4>1. \E j \in 0..Len(r.fields) : Parsed' - HttpBase = 3 * j + 3 /\ FieldsTo(r, j, length')
          BY <3>2, <3>3
      <4> HIDE DEF r
      <4> QED BY <3>4, <4>1 DEF Placed
    <3> QED BY <2>1, <3>4, <3>5, PlaceMade
  <2> QED BY <1>1, <1>3, <2>1, <2>2, TurnStep
<1>4. CASE (\E f \in Field : FrontLine = <<f>>) /\ SkipLine /\ UNCHANGED parser
  <2>1. method' = method /\ pstate' = pstate /\ body' = body /\ length' = length
      BY <1>4 DEF parser
  <2>2. ASSUME NEW k \in 0..n, k < n, FieldsTo(r, k, length), FrontLine = <<r.fields[k + 1]>>,
               ~errors
        PROVE  FieldsTo(r, k + 1, length')
    <3>1. PICK f \in Field : FrontLine = <<f>>
        BY <1>4
    <3>2. r.fields[k + 1] = f
        BY <2>2, <3>1
    <3>3. r.fields[k + 1] \in Field /\ r.fields[k + 1] \notin LengthFields
        BY <3>2, LengthsDiffer
    <3>4. n \in Nat /\ k \in Nat /\ \A i \in 1..(k + 1) : i \in 1..k \/ i = k + 1
        BY <1>2, <2>2
    <3>5. LengthAfter(r.fields, k + 1, length)
        BY <2>2, <3>3, <3>4, LengthNext DEF FieldsTo
    <3> QED BY <2>1, <2>2, <3>3, <3>4, <3>5 DEF FieldsTo
  <2> QED BY <1>1, <1>3, <1>4, <2>1, <2>2
<1>5. CASE /\ \E x \in LengthFields : FrontLine = <<x>> /\ length' = x
           /\ SkipLine
           /\ UNCHANGED <<pstate, method, body>>
  <2>1. PICK x \in LengthFields : FrontLine = <<x>> /\ length' = x
      BY <1>5
  <2>2. ASSUME NEW k \in 0..n, k < n, FieldsTo(r, k, length), FrontLine = <<r.fields[k + 1]>>,
               ~errors
        PROVE  FieldsTo(r, k + 1, length')
    <3>1. r.fields[k + 1] = x
        BY <2>1, <2>2
    <3>2. n \in Nat /\ k \in Nat /\ \A i \in 1..(k + 1) : i \in 1..k \/ i = k + 1
        BY <1>2, <2>2
    <3>3. LengthAfter(r.fields, k + 1, r.fields[k + 1])
        BY <2>1, <2>2, <3>1, <3>2, LengthNext DEF FieldsTo
    <3> QED BY <2>1, <2>2, <3>1, <3>2, <3>3 DEF FieldsTo
  <2> QED BY <1>3, <1>5, <2>1, <2>2
<1>6. CASE (\A f \in Field \cup LengthFields : FrontLine # <<f>>) /\ RefuseRequest
  <2>1. ASSUME ~errors
        PROVE  d < Len(requests) /\ Malformed(r) /\ HttpBase < httpPos
    <3>1. PICK k \in 0..n : /\ k < n /\ Parsed = HttpBase + (3 * k + 3)
                            /\ FrontLine = <<r.fields[k + 1]>>
        BY <1>2, <2>1
    <3>2. r.fields[k + 1] \notin Field \cup LengthFields
        BY <1>6, <3>1
    <3>3. k + 1 \in 1..Len(r.fields)
        BY <1>2, <2>1, <3>1
    <3>4. Malformed(r)
        BY <3>2, <3>3 DEF Malformed
    <3>5. HttpBase < httpPos
      <4>1. HttpBase \in Nat /\ httpPos \in Nat /\ k \in Nat
          BY <1>2, <2>1, HttpFacts
      <4> QED BY <1>1, <3>1, <4>1
    <3> QED BY <1>2, <2>1, <3>4, <3>5
  <2> QED BY <1>6, <2>1, RefuseStep
<1> QED BY <1>4, <1>5, <1>6 DEF HeaderField

\* The header ends: without a length the request is complete.
LEMMA HeaderEndStep == HttpInv /\ HeaderEnd => HttpInv'
<1> SUFFICES ASSUME HttpInv, HeaderEnd PROVE HttpInv'
    OBVIOUS
<1> DEFINE d == Len(answered)
           r == requests[d + 1]
           n == Len(r.fields)
<1>0. /\ InLoop("HEADERS") /\ LineEnds # {} /\ LineLen = 0 /\ SkipLine
      /\ length' = length /\ method' = method /\ body' = body
      /\ pstate' = IF length = NoLength THEN "DONE" ELSE "BODY"
    BY DEF HeaderEnd, AfterHeaders
<1>1. /\ httpPlace = "loop" /\ pstate = "HEADERS"
      /\ length \in LengthFields \cup {NoLength} /\ method \in Methods \cup {<<"UNKNOWN">>}
      /\ body \in Seq(Token)
    BY <1>0, LoopFacts
<1>2. /\ UNCHANGED <<requests, httpEnds, httpStream, httpPos, httpBuf, answered, errors>>
      /\ httpPlace' = httpPlace /\ consumed' \in Nat /\ consumed' <= Readable(httpBuf)
      /\ Parsed' = Parsed + (LineLen + 2)
    BY <1>0, SkipLineIs
<1>3. ASSUME ~errors PROVE PlaceInv'
  <2>1. /\ d < Len(requests) /\ r \in HttpRequests /\ r.line \in Methods
        /\ method = r.line /\ body = <<>>
      BY <1>1, <1>3, HeadersHere
  <2>2. PICK k \in 0..n :
          /\ Parsed = HttpBase + (3 * k + 3) /\ FieldsTo(r, k, length)
          /\ k < n => (LineEnds # {} => LineLen = 1 /\ FrontLine = <<r.fields[k + 1]>>)
      BY <1>1, <1>3, HeadersHere
  <2>3. /\ n \in Nat /\ HttpBase \in Nat /\ Len(r.body) \in Nat
        /\ Len(EncodeRequest(r)) = 3 * n + 5 + Len(r.body)
      BY <2>1, Sizes, NextRequest
  <2>4. k = n
    <3>1. ~ (k < n)
        BY <1>0, <2>2
    <3> QED BY <2>3, <3>1
  <2>5. Parsed' - HttpBase = 3 * n + 5
    <3> HIDE DEF n
    <3> QED BY <1>0, <1>2, <2>2, <2>3, <2>4
  <2>6. FieldsTo(r, n, length)
      BY <2>2, <2>4
  <2>7. CASE length = NoLength
    <3>1. LengthAfter(r.fields, n, NoLength)
        BY <2>6, <2>7 DEF FieldsTo
    <3>2. r.body = <<>>
        BY <2>1, <3>1, HttpConstants
    <3>3. Len(EncodeRequest(r)) = 3 * n + 5
      <4>1. Len(r.body) = 0
          BY <3>2
      <4> HIDE DEF n
      <4> QED BY <2>3, <4>1
    <3>4. \A x \in LengthFields : ~LengthAfter(r.fields, n, x)
        BY <2>3, <3>1, LengthOne, LengthsDiffer
    <3>5. ~Malformed(r)
        BY <2>1, <2>6, <3>4 DEF Malformed, FieldsTo
    <3>6. ~ZeroBody(r)
      <4>1. 0 \in 0..HttpMax
          BY HttpConstants
      <4> QED BY <3>4, <4>1, LengthsDiffer DEF ZeroBody
    <3>7. pstate' = "DONE" /\ method' = r.line /\ body' = r.body
        BY <1>0, <2>1, <2>7, <3>2
    <3>8. Placed(r, Parsed' - HttpBase, pstate', length', method', body')
      <4> HIDE DEF r
      <4> QED BY <2>1, <2>5, <3>3, <3>5, <3>7 DEF Placed
    <3> QED BY <1>2, <2>1, <3>6, <3>7, <3>8, PlaceMade
  <2>8. CASE length # NoLength
    <3>1. pstate' = "BODY" /\ method' = r.line /\ length' = length
        BY <1>0, <2>1, <2>8
    <3>2. Placed(r, Parsed' - HttpBase, pstate', length', method', body')
      <4> HIDE DEF r
      <4> QED BY <2>1, <2>5, <2>6, <2>8, <3>1 DEF Placed
    <3> QED BY <1>2, <2>1, <3>1, <3>2, PlaceMade
  <2> QED BY <2>7, <2>8
<1>4. pstate' \in {"REQUEST_LINE", "HEADERS", "BODY", "DONE"}
    BY <1>0
<1> QED BY <1>0, <1>1, <1>2, <1>3, <1>4, TurnStep

\* In state BODY the body of the next request is in front.
LEMMA BodyHere ==
  ASSUME HttpInv, ~errors, pstate = "BODY"
  PROVE  LET r == requests[Len(answered) + 1] IN
         /\ Len(answered) < Len(requests) /\ r \in HttpRequests /\ r.line \in Methods
         /\ method = r.line /\ length \in LengthFields
         /\ HttpBase \in Nat /\ Parsed = HttpBase + (3 * Len(r.fields) + 5)
         /\ FieldsTo(r, Len(r.fields), length)
         /\ httpEnds[Len(answered) + 1] = Parsed + Len(r.body) /\ Len(r.body) \in Nat
         /\ length \notin Lengths \/ length[2] > HttpMax => Malformed(r)
         /\ length \in Lengths /\ ~ (length[2] > HttpMax) =>
              length[2] = Len(r.body) /\ ~Malformed(r)
         /\ \A i \in 1..Len(r.body) : httpStream[Parsed + i] = r.body[i]
<1> DEFINE r == requests[Len(answered) + 1]
           e == EncodeRequest(r)
           n == Len(r.fields)
           b == Len(r.body)
<1>1. Len(answered) < Len(requests) /\ PlaceInv
    BY DEF HttpInv, PlaceInv
<1>2. /\ r \in HttpRequests /\ HttpBase \in Nat /\ Parsed \in Nat
      /\ httpEnds[Len(answered) + 1] = HttpBase + Len(e)
    BY <1>1, NextRequest, HttpFacts
<1>3. Placed(r, Parsed - HttpBase, "BODY", length, method, body)
    BY <1>1 DEF PlaceInv
<1>4. /\ Parsed - HttpBase = 3 * n + 5 /\ FieldsTo(r, n, length) /\ length # NoLength
      /\ r.line \in Methods /\ method = r.line
    BY <1>3 DEF Placed
<1>5. n \in Nat /\ b \in Nat /\ Len(e) = 3 * n + 5 + b
    BY <1>2, Sizes
<1>6. length \in LengthFields
    BY <1>4 DEF HttpInv, HttpReaderInv
<1>7. Parsed = HttpBase + (3 * n + 5) /\ httpEnds[Len(answered) + 1] = Parsed + b
  <2> HIDE DEF n, b, e
  <2> QED BY <1>2, <1>4, <1>5
<1>8. LengthAfter(r.fields, n, length)
    BY <1>4 DEF FieldsTo
<1>9. length \notin Lengths \/ length[2] > HttpMax => Malformed(r)
    BY <1>6, <1>8 DEF Malformed
<1>10. ASSUME length \in Lengths, ~ (length[2] > HttpMax)
       PROVE  length[2] = b /\ ~Malformed(r)
  <2>1. length[2] \in 0..HttpMax /\ length = <<"Content-Length", length[2]>>
      BY <1>10, LengthNumber
  <2>2. LengthAfter(r.fields, n, <<"Content-Length", length[2]>>)
      BY <1>8, <2>1
  <2>3. b = length[2]
      BY <1>2, <2>1, <2>2, HttpConstants
  <2>4. \A x \in LengthFields : LengthAfter(r.fields, n, x) => x = length
      BY <1>5, <1>8, LengthOne
  <2>5. ~Malformed(r)
      BY <1>4, <1>10, <2>4 DEF Malformed, FieldsTo
  <2> QED BY <2>3, <2>5
<1>11. ASSUME NEW i \in 1..b PROVE httpStream[Parsed + i] = r.body[i]
  <2> DEFINE j == 3 * n + 5
  <2>1. e[j + i] = r.body[i]
      BY <1>2, EncodeRequestIs
  <2>2. Parsed = HttpBase + j
      BY <1>7
  <2>3. j \in Nat /\ i \in Nat /\ i >= 1 /\ Len(e) = j + b /\ i <= b
      BY <1>5
  <2> HIDE DEF j
  <2>4. j + i <= Len(e)
    <3>1. b \in Nat
        BY <1>5
    <3> HIDE DEF b, e
    <3> QED BY <2>3, <3>1
  <2>5. httpStream[Parsed + i] = e[j + i]
      BY <1>1, <2>2, <2>3, <2>4, NextToken
  <2> QED BY <2>1, <2>5
<1> QED BY <1>1, <1>2, <1>4, <1>5, <1>6, <1>7, <1>9, <1>10, <1>11

\* The first c tokens of the rest.
LEMMA FrontOfRest ==
  ASSUME HttpInv, NEW c \in Nat, Len(Rest) >= c
  PROVE  LET s == SubSeq(Rest, 1, c) IN
         s \in Seq(Token) /\ Len(s) = c /\ \A i \in 1..c : s[i] = httpStream[Parsed + i]
<1> DEFINE s == SubSeq(Rest, 1, c)
<1>0. /\ Len(Rest) \in Nat /\ Rest \in Seq(Token)
      /\ \A i \in 1..Len(Rest) : Rest[i] = httpStream[Parsed + i]
    BY RestIs
<1>1. \A i \in 1..c : i \in 1..Len(Rest) /\ Rest[i] \in Token
    BY <1>0
<1>2. /\ s \in Seq(Token) /\ Len(s) = IF 1 <= c THEN c - 1 + 1 ELSE 0
      /\ \A i \in 1..(c - 1 + 1) : s[i] = Rest[1 + i - 1]
    BY <1>1, SubSeqProperties
<1>3. /\ c - 1 + 1 = c /\ (IF 1 <= c THEN c - 1 + 1 ELSE 0) = c
      /\ \A i \in 1..c : 1 + i - 1 = i
    OBVIOUS
<1> HIDE DEF s
<1>4. Len(s) = c /\ \A i \in 1..c : s[i] = Rest[i]
    BY <1>2, <1>3
<1>5. \A i \in 1..c : s[i] = httpStream[Parsed + i]
    BY <1>0, <1>1, <1>4
<1> QED BY <1>2, <1>4, <1>5 DEF s

\* The body is taken when all of it is there, or its length is refused.
LEMMA ParseBodyStep == HttpInv /\ ParseBody => HttpInv'
<1> SUFFICES ASSUME HttpInv, ParseBody PROVE HttpInv'
    OBVIOUS
<1> DEFINE d == Len(answered)
           r == requests[d + 1]
           c == length[2]
<1>0. InLoop("BODY")
    BY DEF ParseBody
<1>1. /\ httpPlace = "loop" /\ pstate = "BODY" /\ Parsed < httpPos
      /\ length \in LengthFields \cup {NoLength} /\ method \in Methods \cup {<<"UNKNOWN">>}
    BY <1>0, LoopFacts
<1>2. Parsed \in Nat /\ httpPos \in Nat /\ consumed \in Nat /\ Readable(httpBuf) \in Nat
    BY HttpFacts
<1>3. CASE length \notin Lengths \/ (length[2] > HttpMax)
  <2>1. RefuseRequest
      BY <1>3 DEF ParseBody
  <2>2. ASSUME ~errors PROVE d < Len(requests) /\ Malformed(r) /\ HttpBase < httpPos
    <3>1. d < Len(requests) /\ Malformed(r) /\ r \in HttpRequests
        BY <1>1, <1>3, <2>2, BodyHere
    <3>2. HttpBase \in Nat /\ Parsed = HttpBase + (3 * Len(r.fields) + 5)
        BY <1>1, <2>2, BodyHere
    <3>3. Len(r.fields) \in Nat
        BY <3>1, Sizes
    <3>4. HttpBase < httpPos
        BY <1>1, <1>2, <3>2, <3>3
    <3> QED BY <3>1, <3>4
  <2> QED BY <2>1, <2>2, RefuseStep
<1>4. CASE ~ (length \notin Lengths \/ (length[2] > HttpMax))
  <2>1. length \in Lengths /\ ~ (length[2] > HttpMax)
      BY <1>4
  <2>2. /\ Len(Rest) >= c /\ body' = SubSeq(Rest, 1, c) /\ consumed' = consumed + c
        /\ pstate' = "DONE" /\ httpPlace' = httpPlace /\ length' = length /\ method' = method
        /\ UNCHANGED <<requests, httpEnds, httpStream, httpPos, httpBuf, answered, errors>>
      BY <1>4 DEF ParseBody, client
  <2>3. c \in 0..HttpMax /\ c \in Nat /\ length = <<"Content-Length", c>>
      BY <2>1, LengthNumber, HttpConstants
  <2> HIDE DEF c
  <2>4. /\ body' \in Seq(Token) /\ Len(body') = c
        /\ \A i \in 1..c : body'[i] = httpStream[Parsed + i]
      BY <2>2, <2>3, FrontOfRest
  <2>5. Len(Rest) = Readable(httpBuf) - consumed
      BY RestIs
  <2>6. consumed' \in Nat /\ consumed' <= Readable(httpBuf)
      BY <1>2, <2>2, <2>3, <2>5
  <2>7. Parsed' = Parsed + c
    <3>1. Parsed' = (httpPos - Readable(httpBuf)) + consumed'
        BY <2>2 DEF Parsed, Readable
    <3> QED BY <1>2, <2>2, <2>3, <3>1 DEF Parsed
  <2>8. ASSUME ~errors PROVE PlaceInv'
    <3>1. /\ d < Len(requests) /\ r \in HttpRequests /\ r.line \in Methods
          /\ method = r.line
        BY <1>1, <2>8, BodyHere
    <3>2. /\ HttpBase \in Nat /\ Parsed = HttpBase + (3 * Len(r.fields) + 5)
          /\ Len(r.body) \in Nat
        BY <1>1, <2>8, BodyHere
    <3>3. c = Len(r.body) /\ ~Malformed(r)
        BY <1>1, <2>1, <2>8, BodyHere DEF c
    <3>4. \A i \in 1..Len(r.body) : httpStream[Parsed + i] = r.body[i]
        BY <1>1, <2>8, BodyHere
    <3>5. body' = r.body
      <4>1. r.body \in Seq(Token)
          BY <3>1, HttpConstants
      <4> QED BY <2>4, <3>3, <3>4, <4>1, SeqEqual
    <3>6. Len(r.fields) \in Nat /\ Len(EncodeRequest(r)) = 3 * Len(r.fields) + 5 + Len(r.body)
        BY <3>1, Sizes
    <3>7. Parsed' - HttpBase = Len(EncodeRequest(r))
      <4> DEFINE n == Len(r.fields)
                 b == Len(r.body)
      <4>1. Parsed' = (HttpBase + (3 * n + 5)) + b
          BY <2>7, <3>2, <3>3
      <4>2. n \in Nat /\ b \in Nat /\ Len(EncodeRequest(r)) = 3 * n + 5 + b
          BY <3>2, <3>6
      <4> HIDE DEF n, b
      <4>3. ((HttpBase + (3 * n + 5)) + b) - HttpBase = 3 * n + 5 + b
          BY <3>2, <4>2
      <4> QED BY <4>1, <4>2, <4>3
    <3>8. ZeroBody(r) => Parsed' < httpPos
      <4> SUFFICES ASSUME ZeroBody(r) PROVE Parsed' < httpPos
          OBVIOUS
      <4>1. LengthAfter(r.fields, Len(r.fields), length)
          BY <1>1, <2>8, BodyHere DEF FieldsTo
      <4>2. length = <<"Content-Length", 0>>
          BY <3>6, <4>1, LengthOne DEF ZeroBody
      <4>3. c = 0
          BY <4>2 DEF c
      <4> QED BY <1>1, <1>2, <2>7, <4>3
    <3>9. Placed(r, Parsed' - HttpBase, pstate', length', method', body')
      <4>1. pstate' = "DONE" /\ method' = r.line
          BY <2>2, <3>1
      <4> HIDE DEF r
      <4> QED BY <3>1, <3>3, <3>5, <3>7, <4>1 DEF Placed
    <3> QED BY <2>2, <3>1, <3>8, <3>9, PlaceMade
  <2> QED BY <1>1, <2>2, <2>4, <2>6, <2>8, TurnStep
<1> QED BY <1>3, <1>4

\* The loop stops short of DONE only where the next request is not there whole, or
\* is malformed.
LEMMA StarvedWaits ==
  ASSUME HttpInv, ~errors, pstate # "DONE", Starved
  PROVE  HttpWaitInv
<1> DEFINE d == Len(answered)
           r == requests[d + 1]
           z == httpEnds[d + 1]
           b == Len(r.body)
           n == Len(r.fields)
<1> SUFFICES ASSUME d < Len(requests)
             PROVE  ~Seen(d + 1, httpPos) \/ Malformed(r)
    BY DEF HttpWaitInv
<1>1. /\ r \in HttpRequests /\ HttpBase \in Nat /\ z = HttpBase + Len(EncodeRequest(r))
      /\ z \in Nat
    BY NextRequest
<1>2. n \in Nat /\ b \in Nat /\ Len(EncodeRequest(r)) = 3 * n + 5 + b
    BY <1>1, Sizes
<1>3. /\ httpPos \in Nat /\ Parsed \in Nat /\ Readable(httpBuf) \in Nat /\ consumed \in Nat
    BY HttpFacts
<1>4. Len(Rest) = httpPos - Parsed /\ Len(Rest) = Readable(httpBuf) - consumed
    BY RestIs
<1>5. z > httpPos => ~Seen(d + 1, httpPos)
    BY <1>1, <1>3 DEF Seen
<1>6. pstate \in {"REQUEST_LINE", "HEADERS", "BODY"}
    BY DEF HttpInv, HttpReaderInv
<1>7. z = HttpBase + (3 * n + 5 + b)
    BY <1>1, <1>2
<1> HIDE DEF z, b, n
<1>8. CASE pstate = "REQUEST_LINE"
  <2>1. Parsed = HttpBase /\ (LineEnds = {} => ~ (Len(Rest) >= 3))
      BY <1>8, RequestLineHere
  <2>2. consumed = Readable(httpBuf) \/ LineEnds = {}
      BY <1>8 DEF Starved
  <2>3. ~ (Len(Rest) >= 3)
      BY <1>3, <1>4, <2>1, <2>2
  <2>4. z > httpPos
      BY <1>1, <1>2, <1>3, <1>4, <1>7, <2>1, <2>3
  <2> QED BY <1>5, <2>4
<1>9. CASE pstate = "HEADERS"
  <2>1. PICK k \in 0..n :
          /\ Parsed = HttpBase + (3 * k + 3)
          /\ k < n => (LineEnds = {} => ~ (Len(Rest) >= 3))
          /\ k = n => (LineEnds = {} => ~ (Len(Rest) >= 2))
      BY <1>9, HeadersHere DEF n
  <2>2. consumed = Readable(httpBuf) \/ LineEnds = {}
      BY <1>9 DEF Starved
  <2>3. (k < n /\ ~ (Len(Rest) >= 3)) \/ (k = n /\ ~ (Len(Rest) >= 2))
      BY <1>2, <1>3, <1>4, <2>1, <2>2
  <2>4. z > httpPos
      BY <1>1, <1>2, <1>3, <1>4, <1>7, <2>1, <2>3
  <2> QED BY <1>5, <2>4
<1>10. CASE pstate = "BODY"
  <2>1. z = Parsed + b
      BY <1>10, BodyHere DEF z, b
  <2>2. CASE length \notin Lengths \/ length[2] > HttpMax
      BY <1>10, <2>2, BodyHere
  <2>3. CASE length \in Lengths /\ ~ (length[2] > HttpMax)
    <3>1. length[2] = b
        BY <1>10, <2>3, BodyHere DEF b
    <3>2. length = <<"Content-Length", length[2]>>
        BY <2>3, LengthNumber
    <3>3. CASE consumed = Readable(httpBuf)
      <4>1. httpPos = Parsed
          BY <1>3, <1>4, <3>3
      <4>2. CASE b = 0
        <5>1. LengthAfter(r.fields, Len(r.fields), length)
            BY <1>10, BodyHere DEF FieldsTo
        <5>2. ZeroBody(r)
            BY <3>1, <3>2, <4>2, <5>1 DEF ZeroBody
        <5>3. ~ (z < httpPos)
            BY <1>3, <2>1, <4>1, <4>2
        <5> QED BY <5>2, <5>3 DEF Seen, z
      <4>3. CASE b # 0
        <5>1. z > httpPos
            BY <1>2, <1>3, <2>1, <4>1, <4>3
        <5> QED BY <1>5, <5>1
      <4> QED BY <4>2, <4>3
    <3>4. CASE Len(Rest) < length[2]
      <4>1. z > httpPos
          BY <1>2, <1>3, <1>4, <2>1, <3>1, <3>4
      <4> QED BY <1>5, <4>1
    <3> QED BY <1>10, <3>3, <3>4 DEF Starved
  <2> QED BY <2>2, <2>3
<1> QED BY <1>6, <1>8, <1>9, <1>10

\* parse() is called.
LEMMA ParseCallStep == HttpInv /\ ParseCall => HttpInv'
<1> SUFFICES ASSUME HttpInv, ParseCall PROVE HttpInv'
    OBVIOUS
<1>0. /\ requests' = requests /\ httpEnds' = httpEnds /\ httpStream' = httpStream
      /\ answered' = answered /\ errors' = errors /\ pstate' = pstate /\ length' = length
      /\ method' = method /\ body' = body /\ httpPos' = httpPos /\ httpBuf' = httpBuf
      /\ httpPlace = "parse" /\ httpPlace' \in {"wait", "loop"} /\ consumed' = 0
      /\ httpPlace' = "wait" => Readable(httpBuf) = 0
    BY DEF ParseCall, client, parser
<1>1. consumed = 0 /\ pstate # "DONE"
    BY <1>0 DEF HttpInv, HttpReaderInv
<1>2. HttpReaderInv'
    BY <1>0, <1>1 DEF HttpInv, HttpReaderInv
<1>3. Parsed' = Parsed
    BY <1>0, <1>1 DEF Parsed
<1>4. httpPos' \in Nat /\ httpPos <= httpPos'
    BY <1>0, HttpFacts
<1>5. ASSUME ~errors, httpPlace' = "wait" PROVE HttpWaitInv'
  <2>1. Starved
      BY <1>0, <1>1, <1>5 DEF Starved
  <2>2. HttpWaitInv
      BY <1>1, <1>5, <2>1, StarvedWaits
  <2> QED BY <1>0, <2>2 DEF HttpWaitInv, Seen
<1> QED BY <1>0, <1>2, <1>3, <1>4, <1>5, KeptStep

\* After the loop the buffer starts behind what was consumed.
LEMMA LeaveBuffer ==
  ASSUME HttpInv, ParseLeave
  PROVE  /\ httpBuf' \in Buffers(Token) /\ Readable(httpBuf') = Readable(httpBuf) - consumed
         /\ Readable(httpBuf') \in Nat /\ Readable(httpBuf') <= httpPos
         /\ httpPos - Readable(httpBuf') = Parsed
         /\ \A i \in 1..Readable(httpBuf') : At(httpBuf', i) = httpStream[Parsed + i]
<1>0. /\ httpBuf \in Buffers(Token) /\ httpPos \in Nat /\ Readable(httpBuf) \in Nat
      /\ Readable(httpBuf) <= httpPos /\ consumed \in Nat /\ consumed <= Readable(httpBuf)
    BY HttpFacts
<1>1. /\ httpBuf' \in Buffers(Token) /\ Readable(httpBuf') = Readable(httpBuf) - consumed
      /\ \A i \in 1..(Readable(httpBuf) - consumed) : At(httpBuf', i) = At(httpBuf, consumed + i)
  <2>1. CASE consumed > 0
    <3>1. httpBuf' = MoveReadPtr(httpBuf, consumed)
        BY <2>1 DEF ParseLeave
    <3> QED BY <1>0, <3>1, MoveReadPtrDrops
  <2>2. CASE ~ (consumed > 0)
    <3>1. httpBuf' = httpBuf /\ consumed = 0
        BY <1>0, <2>2 DEF ParseLeave
    <3>2. \A i \in 1..(Readable(httpBuf) - consumed) : consumed + i = i
        BY <1>0, <3>1
    <3> QED BY <1>0, <3>1, <3>2
  <2> QED BY <2>1, <2>2
<1>2. \A i \in 1..Readable(httpBuf) :
        At(httpBuf, i) = httpStream[(httpPos - Readable(httpBuf)) + i]
    BY DEF HttpInv, HttpReaderInv
<1>3. ASSUME NEW i \in 1..Readable(httpBuf') PROVE At(httpBuf', i) = httpStream[Parsed + i]
  <2>1. /\ i \in 1..(Readable(httpBuf) - consumed) /\ consumed + i \in 1..Readable(httpBuf)
        /\ (httpPos - Readable(httpBuf)) + (consumed + i) = Parsed + i
      BY <1>0, <1>1 DEF Parsed
  <2> QED BY <1>1, <1>2, <2>1
<1>4. /\ Readable(httpBuf') \in Nat /\ Readable(httpBuf') <= httpPos
      /\ httpPos - Readable(httpBuf') = Parsed
    BY <1>0, <1>1 DEF Parsed
<1> QED BY <1>1, <1>3, <1>4

\* After the loop the request is delivered, or the call of read() ends.
LEMMA ParseLeaveStep == HttpInv /\ ParseLeave => HttpInv'
<1> SUFFICES ASSUME HttpInv, ParseLeave PROVE HttpInv'
    OBVIOUS
<1> DEFINE d == Len(answered)
           r == requests[d + 1]
           Answers == [line : Methods \cup {<<"UNKNOWN">>}, body : Seq(Token)]
<1>0. /\ requests' = requests /\ httpEnds' = httpEnds /\ httpStream' = httpStream
      /\ httpPos' = httpPos /\ errors' = errors /\ httpPlace = "loop" /\ consumed' = 0
      /\ pstate = "DONE" \/ Starved
    BY DEF ParseLeave, client
<1>1. /\ httpBuf' \in Buffers(Token) /\ Readable(httpBuf') \in Nat
      /\ Readable(httpBuf') <= httpPos /\ httpPos - Readable(httpBuf') = Parsed
      /\ \A i \in 1..Readable(httpBuf') : At(httpBuf', i) = httpStream[Parsed + i]
    BY LeaveBuffer
<1>2. /\ httpPos \in Nat /\ httpPos <= Len(httpStream) /\ Len(httpStream) \in Nat
      /\ Parsed \in Nat /\ Parsed <= httpPos /\ d \in Nat /\ Len(requests) \in Nat
    BY HttpFacts
<1>3. Parsed' = Parsed
  <2>1. Parsed' = (httpPos' - Readable(httpBuf')) + consumed'
      BY DEF Parsed, Readable
  <2> QED BY <1>0, <1>1, <1>2, <2>1
<1>4. /\ httpPos' \in 0..Len(httpStream') /\ Readable(httpBuf') <= httpPos'
      /\ consumed' \in 0..Readable(httpBuf')
      /\ \A i \in 1..Readable(httpBuf') :
           At(httpBuf', i) = httpStream'[(httpPos' - Readable(httpBuf')) + i]
    BY <1>0, <1>1, <1>2
<1>5. /\ length \in LengthFields \cup {NoLength} /\ method \in Methods \cup {<<"UNKNOWN">>}
      /\ body \in Seq(Token) /\ errors \in BOOLEAN /\ answered \in Seq(Answers)
      /\ pstate \in {"REQUEST_LINE", "HEADERS", "BODY", "DONE"}
    BY DEF HttpInv, HttpReaderInv
<1>6. CASE pstate # "DONE"
  <2>1. /\ httpPlace' = "wait" /\ pstate' = pstate /\ length' = length /\ method' = method
        /\ body' = body /\ answered' = answered
      BY <1>6 DEF ParseLeave, parser
  <2>2. HttpReaderInv'
      BY <1>0, <1>1, <1>4, <1>5, <1>6, <2>1 DEF HttpReaderInv, Readable, At
  <2>3. ASSUME ~errors PROVE HttpWaitInv'
    <3>1. HttpWaitInv
        BY <1>0, <1>6, <2>3, StarvedWaits
    <3> QED BY <1>0, <2>1, <3>1 DEF HttpWaitInv, Seen
  <2>4. httpPos' \in Nat /\ httpPos <= httpPos'
      BY <1>0, <1>2
  <2> QED BY <1>0, <1>3, <2>1, <2>2, <2>3, <2>4, KeptStep
<1>7. CASE pstate = "DONE"
  <2> DEFINE a == [line |-> method, body |-> body]
  <2>1. /\ answered' = Append(answered, a) /\ httpPlace' = "parse"
        /\ pstate' = "REQUEST_LINE" /\ length' = NoLength /\ method' = <<"UNKNOWN">>
        /\ body' = <<>>
      BY <1>7 DEF ParseLeave, Reset
  <2>2. /\ answered' \in Seq(Answers) /\ Len(answered') = d + 1 /\ answered'[d + 1] = a
        /\ \A i \in 1..d : answered'[i] = answered[i]
    <3>1. a \in Answers
        BY <1>5
    <3>2. answered \in Seq(Answers)
        BY <1>5
    <3> HIDE DEF a, Answers
    <3> QED BY <2>1, <3>1, <3>2, AppendProperties
  <2>3. HttpReaderInv'
    <3>1. body' \in Seq(Token) /\ errors' \in BOOLEAN
        BY <1>0, <1>5, <2>1
    <3> QED BY <1>0, <1>1, <1>4, <2>1, <2>2, <3>1 DEF HttpReaderInv, Readable, At
  <2>4. HttpStreamOf(requests', httpEnds', httpStream')
      BY <1>0 DEF HttpInv
  <2>5. ASSUME ~errors PROVE AnsweredInv' /\ PlaceInv'
    <3>1. PlaceInv /\ d < Len(requests)
        BY <1>7, <2>5 DEF HttpInv, PlaceInv
    <3>2. Placed(r, Parsed - HttpBase, "DONE", length, method, body)
        BY <1>7, <3>1 DEF PlaceInv
    <3>3. /\ method = r.line /\ body = r.body /\ ~Malformed(r)
          /\ Parsed - HttpBase = Len(EncodeRequest(r))
        BY <3>2 DEF Placed
    <3>4. /\ r \in HttpRequests /\ HttpBase \in Nat
          /\ httpEnds[d + 1] = HttpBase + Len(EncodeRequest(r))
        BY <3>1, NextRequest
    <3>5. Len(EncodeRequest(r)) \in Nat
        BY <3>4, Sizes
    <3>6. httpEnds[d + 1] = Parsed
      <4> DEFINE e == Len(EncodeRequest(r))
      <4> HIDE DEF e
      <4> QED BY <1>2, <3>3, <3>4, <3>5 DEF e
    <3>7. ZeroBody(r) => Parsed < httpPos
        BY <1>7, <3>1 DEF PlaceInv
    <3>8. d + 1 \in 1..Len(requests) /\ d + 1 # 0 /\ d + 1 <= Len(requests)
        BY <1>2, <3>1
    <3>9. a = Content(r)
        BY <3>3 DEF Content
    <3>10. \A i \in 1..d : /\ ~Malformed(requests[i]) /\ answered[i] = Content(requests[i])
                           /\ Seen(i, httpPos)
        BY <2>5 DEF HttpInv, AnsweredInv
    <3>11. ASSUME NEW i \in 1..Len(answered')
           PROVE  /\ ~Malformed(requests[i]) /\ answered'[i] = Content(requests[i])
                  /\ httpEnds[i] <= httpPos
                  /\ ZeroBody(requests[i]) => httpEnds[i] < httpPos
      <4>1. i \in 1..d \/ i = d + 1
          BY <1>2, <2>2
      <4>2. CASE i \in 1..d
          BY <2>2, <3>10, <4>2 DEF Seen
      <4>3. CASE i = d + 1
        <5>1. ~Malformed(requests[i]) /\ answered'[i] = Content(requests[i])
            BY <2>2, <3>3, <3>9, <4>3
        <5>2. httpEnds[i] <= httpPos
            BY <1>2, <3>6, <4>3
        <5>3. ZeroBody(requests[i]) => httpEnds[i] < httpPos
            BY <3>6, <3>7, <4>3
        <5> QED BY <5>1, <5>2, <5>3
      <4> QED BY <4>1, <4>2, <4>3
    <3>12. AnsweredInv'
      <4>1. Len(answered') <= Len(requests')
          BY <1>0, <2>2, <3>8
      <4>2. \A i \in 1..Len(answered') :
              /\ ~Malformed(requests'[i]) /\ answered'[i] = Content(requests'[i])
              /\ httpEnds'[i] <= httpPos' /\ (ZeroBody(requests'[i]) => httpEnds'[i] < httpPos')
          BY <1>0, <3>11
      <4> QED BY <4>1, <4>2 DEF AnsweredInv, Seen, Malformed, ZeroBody, Content
    <3>13. HttpBase' = Parsed'
      <4>1. HttpBase' = End(httpEnds, d + 1)
          BY <1>0, <2>2 DEF HttpBase
      <4> QED BY <1>3, <3>6, <3>8, <4>1 DEF End
    <3> QED BY <2>1, <3>12, <3>13 DEF PlaceInv
  <2>6. ASSUME errors PROVE ErrorInv'
    <3>1. PICK n \in 0..(Len(requests) - 1) :
            /\ Malformed(requests[n + 1]) /\ n <= d /\ End(httpEnds, n) < httpPos
            /\ \A i \in 1..n : ~Malformed(requests[i]) /\ answered[i] = Content(requests[i])
        BY <2>6 DEF HttpInv, ErrorInv
    <3>2. n <= d + 1 /\ \A i \in 1..n : i \in 1..d
        BY <1>2, <3>1
    <3>3. \A i \in 1..n : ~Malformed(requests[i]) /\ answered'[i] = Content(requests[i])
        BY <2>2, <3>1, <3>2
    <3>4. /\ n \in 0..(Len(requests') - 1) /\ Malformed(requests'[n + 1])
          /\ n <= Len(answered') /\ End(httpEnds', n) < httpPos'
          /\ \A i \in 1..n : ~Malformed(requests'[i]) /\ answered'[i] = Content(requests'[i])
        BY <1>0, <2>2, <3>1, <3>2, <3>3
    <3> QED BY <3>4 DEF ErrorInv, Malformed, Content
  <2> QED BY <1>0, <2>1, <2>3, <2>4, <2>5, <2>6 DEF HttpInv
<1> QED BY <1>6, <1>7

\* Every step keeps the invariant.
LEMMA HttpStep == HttpInv /\ [HttpNext]_httpVars => HttpInv'
<1> SUFFICES ASSUME HttpInv, [HttpNext]_httpVars PROVE HttpInv'
    OBVIOUS
<1>1. CASE UNCHANGED httpVars
  <2>1. /\ requests' = requests /\ httpEnds' = httpEnds /\ httpStream' = httpStream
        /\ answered' = answered /\ errors' = errors /\ pstate' = pstate /\ length' = length
        /\ method' = method /\ body' = body /\ httpPos' = httpPos /\ httpBuf' = httpBuf
        /\ httpPlace' = httpPlace /\ consumed' = consumed
      BY <1>1 DEF httpVars, client, parser
  <2>2. HttpReaderInv'
      BY <2>1 DEF HttpInv, HttpReaderInv
  <2>3. Parsed' = Parsed
      BY <2>1 DEF Parsed
  <2>4. httpPos' \in Nat /\ httpPos <= httpPos'
      BY <2>1, HttpFacts
  <2>5. ~errors /\ httpPlace' = "wait" => HttpWaitInv'
      BY <2>1 DEF HttpInv, HttpWaitInv, Seen
  <2> QED BY <2>1, <2>2, <2>3, <2>4, <2>5, KeptStep
<1>2. CASE \E r \in HttpRequests : SendRequest(r)
    BY <1>2, SendRequestStep
<1>3. CASE HttpPoll \/ HttpReadSome \/ HttpReadAgain
    BY <1>3, HttpPollStep, HttpReadSomeStep, HttpReadAgainStep
<1>4. CASE ParseCall
    BY <1>4, ParseCallStep
<1>5. CASE RequestLine
    BY <1>5, RequestLineStep
<1>6. CASE HeaderField \/ HeaderEnd
    BY <1>6, HeaderFieldStep, HeaderEndStep
<1>7. CASE ParseBody
    BY <1>7, ParseBodyStep
<1>8. CASE ParseLeave
    BY <1>8, ParseLeaveStep
<1> QED BY <1>1, <1>2, <1>3, <1>4, <1>5, <1>6, <1>7, <1>8 DEF HttpNext

\* The invariant holds of every behaviour of an HTTP connection.
THEOREM HttpInvariance == HttpSpec => []HttpInv
BY InitHttp, HttpStep, PTL DEF HttpSpec

\* While there was no error, exactly the requests that parse() can see are delivered.
LEMMA SeenAnswered ==
  ASSUME HttpInv, ~errors, httpPlace = "wait", NEW k \in Before
  PROVE  Seen(k, httpPos) <=> k <= Len(answered)
<1> DEFINE d == Len(answered)
<1>0. /\ d \in Nat /\ Len(requests) \in Nat /\ httpPos \in Nat
      /\ \A i \in 1..Len(requests) : End(httpEnds, i) = httpEnds[i] /\ httpEnds[i] \in Nat
    BY HttpFacts
<1>1. k \in 1..Len(requests) /\ \A i \in 1..k : ~Malformed(requests[i])
    BY DEF Before
<1>2. ASSUME k <= d PROVE Seen(k, httpPos)
  <2>1. k \in 1..d
      BY <1>0, <1>1, <1>2
  <2> QED BY <2>1 DEF HttpInv, AnsweredInv
<1>3. ASSUME Seen(k, httpPos), ~ (k <= d) PROVE FALSE
  <2>1. d < Len(requests) /\ d + 1 \in 1..k /\ d + 1 \in 1..Len(requests)
      BY <1>0, <1>1, <1>3
  <2>2. ~Malformed(requests[d + 1])
      BY <1>1, <2>1
  <2>3. ~Seen(d + 1, httpPos)
      BY <2>1, <2>2 DEF HttpInv, HttpWaitInv
  <2>4. k # d + 1
      BY <1>3, <2>3
  <2>5. d + 1 < k /\ d + 1 \in 0..Len(requests) /\ k \in 0..Len(requests)
      BY <1>0, <1>1, <2>1, <2>4
  <2>6. End(httpEnds, d + 1) < End(httpEnds, k)
      BY <2>5 DEF HttpInv, HttpStreamOf
  <2>7. httpEnds[k] \in Nat /\ httpEnds[d + 1] \in Nat /\ httpEnds[d + 1] < httpEnds[k]
      BY <1>0, <1>1, <2>1, <2>6
  <2>8. httpEnds[k] <= httpPos
      BY <1>3 DEF Seen
  <2>9. httpEnds[d + 1] < httpPos /\ httpEnds[d + 1] <= httpPos
      BY <1>0, <2>7, <2>8
  <2> QED BY <2>3, <2>9 DEF Seen
<1> QED BY <1>2, <1>3

\* After an error, the requests before the malformed one were delivered.
LEMMA SeenBefore ==
  ASSUME HttpInv, errors
  PROVE  /\ Before # 1..Len(requests)
         /\ \A k \in Before : /\ k <= Len(answered) /\ Seen(k, httpPos)
                              /\ answered[k] = Content(requests[k])
<1>0. /\ Len(answered) \in Nat /\ Len(requests) \in Nat /\ httpPos \in Nat
      /\ \A i \in 0..Len(requests) : End(httpEnds, i) \in Nat
      /\ \A i \in 1..Len(requests) : End(httpEnds, i) = httpEnds[i]
    BY HttpFacts
<1>1. PICK n \in 0..(Len(requests) - 1) :
        /\ Malformed(requests[n + 1]) /\ n <= Len(answered) /\ End(httpEnds, n) < httpPos
        /\ \A i \in 1..n : ~Malformed(requests[i]) /\ answered[i] = Content(requests[i])
    BY DEF HttpInv, ErrorInv
<1>2. n \in Nat /\ n + 1 \in 1..Len(requests) /\ n \in 0..Len(requests)
    BY <1>0
<1>3. \A k \in Before : k \in 1..n
  <2> TAKE k \in Before
  <2>1. k \in 1..Len(requests) /\ \A i \in 1..k : ~Malformed(requests[i])
      BY DEF Before
  <2>2. n + 1 \notin 1..k
      BY <1>1, <2>1
  <2> QED BY <1>0, <1>2, <2>1, <2>2
<1>4. Before # 1..Len(requests)
  <2>1. n + 1 \notin 1..n
      BY <1>2
  <2> QED BY <1>2, <1>3, <2>1
<1>5. ASSUME NEW k \in Before
      PROVE  /\ k <= Len(answered) /\ Seen(k, httpPos) /\ answered[k] = Content(requests[k])
  <2>1. k \in 1..n /\ k \in 1..Len(requests) /\ k \in 0..Len(requests) /\ k <= Len(answered)
      BY <1>0, <1>1, <1>2, <1>3
  <2>2. End(httpEnds, k) <= End(httpEnds, n)
    <3>1. CASE k = n
        BY <1>0, <1>2, <3>1
    <3>2. CASE k < n
      <4>1. End(httpEnds, k) < End(httpEnds, n)
          BY <1>2, <2>1, <3>2 DEF HttpInv, HttpStreamOf
      <4> QED BY <1>0, <1>2, <2>1, <4>1
    <3> QED BY <1>2, <2>1, <3>1, <3>2
  <2>3. httpEnds[k] < httpPos /\ httpEnds[k] <= httpPos
    <3>1. httpEnds[k] = End(httpEnds, k) /\ End(httpEnds, k) \in Nat /\ End(httpEnds, n) \in Nat
        BY <1>0, <1>2, <2>1
    <3> QED BY <1>0, <1>1, <2>2, <3>1
  <2> QED BY <1>1, <2>1, <2>3 DEF Seen
<1> QED BY <1>4, <1>5

\* However the stream is cut into readv() calls, parse() delivers HTTP requests only
\* when they have arrived whole, in order and with their bodies, and then all of them
\* but one with Content-Length 0 that ends the buffer; it answers with 400 only for a
\* malformed one: for every set of requests, every number of fields and every size of
\* the buffer.
THEOREM RequestsDeliveredHolds == HttpSpec => []RequestsDelivered
<1>1. HttpInv => RequestsDelivered
  <2> SUFFICES ASSUME HttpInv PROVE RequestsDelivered
      OBVIOUS
  <2>1. HttpTypeOK
    <3>1. httpBuf.rd <= httpBuf.wr /\ httpBuf.wr <= Len(httpBuf.data)
        BY HttpFacts, BufferIs
    <3>2. Len(httpEnds) = Len(requests)
        BY HttpFacts
    <3> QED BY <3>1, <3>2 DEF HttpInv, HttpReaderInv, HttpTypeOK
  <2>2. ASSUME httpPlace = "wait"
        PROVE  /\ \A k \in Before : Seen(k, httpPos) <=> k <= Len(answered)
               /\ \A k \in Before : k <= Len(answered) => answered[k] = Content(requests[k])
               /\ errors => Before # 1..Len(requests) /\ \A k \in Before : k <= Len(answered)
               /\ ~errors => 1..Len(answered) \subseteq Before
    <3>1. CASE errors
        BY <3>1, SeenBefore
    <3>2. CASE ~errors
      <4>0. /\ Len(answered) \in Nat /\ Len(requests) \in Nat /\ Len(answered) <= Len(requests)
            /\ \A i \in 1..Len(answered) :
                 ~Malformed(requests[i]) /\ answered[i] = Content(requests[i])
          BY <3>2, HttpFacts DEF HttpInv, AnsweredInv
      <4>1. \A k \in Before : Seen(k, httpPos) <=> k <= Len(answered)
          BY <2>2, <3>2, SeenAnswered
      <4>2. \A k \in Before : k <= Len(answered) => k \in 1..Len(answered)
          BY <4>0 DEF Before
      <4>3. ASSUME NEW k \in 1..Len(answered) PROVE k \in Before
        <5>1. k \in 1..Len(requests) /\ \A i \in 1..k : i \in 1..Len(answered)
            BY <4>0
        <5> QED BY <4>0, <5>1 DEF Before
      <4> QED BY <3>2, <4>0, <4>1, <4>2, <4>3
    <3> QED BY <3>1, <3>2
  <2>3. ASSUME NEW k \in Before
        PROVE  /\ Seen(k, httpPos) => Whole(k, httpPos)
               /\ Whole(k, httpPos) => Seen(k, httpPos) \/ AwaitsMore(k, httpPos)
    <3>1. httpEnds[k] \in Nat /\ httpPos \in Nat
        BY HttpFacts DEF Before
    <3>2. httpEnds[k] <= httpPos => httpEnds[k] < httpPos \/ httpEnds[k] = httpPos
        BY <3>1
    <3> QED BY <3>2 DEF Seen, Whole, AwaitsMore
  <2> QED BY <2>1, <2>2, <2>3 DEF RequestsDelivered
<1> QED BY <1>1, HttpInvariance, PTL
=============================================================================
