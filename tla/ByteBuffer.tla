----------------------------- MODULE ByteBuffer -----------------------------
(***************************************************************************)
(* class Buffer: one array with a read and a write position.  Readable     *)
(* data lies between the two; it is moved to the front, or the array grown *)
(* by half as often as it takes, when what is to be written does not fit.  *)
(* An element is a byte, or whatever a protocol's model tells apart.       *)
(***************************************************************************)
EXTENDS Integers, Sequences

\* A new buffer.  The code's initial size is 4096.
NewBuffer(size, blank) == [data |-> [i \in 1..size |-> blank], rd |-> 0, wr |-> 0]

\* writableBytes(), getreadable(), peek()
Writable(b) == Len(b.data) - b.wr
Readable(b) == b.wr - b.rd
Peek(b) == SubSeq(b.data, b.rd + 1, b.wr)

\* The data is not moved along with the positions.
CompactPositions(b) == [b EXCEPT !.rd = 0, !.wr = Readable(b)]

\* memmove() of the readable part to the front; what was behind it stays there.
Compact(b) ==
  [data |-> [i \in 1..Len(b.data) |->
              IF i <= Readable(b) THEN b.data[b.rd + i] ELSE b.data[i]],
   rd |-> 0, wr |-> Readable(b)]

\* new_size * 1.5 until len fits behind write_ptr_.
Grown(size, wr, len) ==
  LET grow[n \in Nat] == IF n - wr >= len THEN n ELSE grow[(3 * n) \div 2]
  IN  grow[size]

\* setSize(): the vector keeps its elements and gains blank ones.
Resize(b, size, blank) ==
  [b EXCEPT !.data = [i \in 1..size |-> IF i <= Len(b.data) THEN b.data[i] ELSE blank]]

\* enableWrite(len)
EnableWrite(b, len, blank) ==
  IF Writable(b) >= len THEN b
  ELSE IF Writable(b) + b.rd >= len THEN Compact(b)
  ELSE Resize(b, Grown(Len(b.data), b.wr, len), blank)

\* bytes written at write_ptr_, which moves behind them (beginWrite() and
\* moveWritePtr(), or the memcpy() of bufferAppend()).
Write(b, bytes) ==
  [b EXCEPT !.data = [i \in 1..Len(b.data) |->
                       IF i > b.wr /\ i <= b.wr + Len(bytes)
                       THEN bytes[i - b.wr] ELSE b.data[i]],
            !.wr = @ + Len(bytes)]

\* bufferAppend()
BufferAppend(b, bytes, blank) == Write(EnableWrite(b, Len(bytes), blank), bytes)

\* moveReadPtr(): an empty buffer starts again at the front.
MoveReadPtr(b, len) ==
  IF b.rd + len = b.wr THEN [b EXCEPT !.rd = 0, !.wr = 0]
  ELSE [b EXCEPT !.rd = @ + len]

\* One readv() of Connection::read() into the writable part and a block of extra
\* elements on the stack, that is appended.  A full buffer makes room first.
MakeRoom(b, extra, blank) == IF Writable(b) = 0 THEN EnableWrite(b, extra, blank) ELSE b

ReadInto(b, bytes, blank) ==
  LET w == Writable(b)
  IN  IF Len(bytes) <= w THEN Write(b, bytes)
      ELSE BufferAppend(Write(b, SubSeq(bytes, 1, w)),
                        SubSeq(bytes, w + 1, Len(bytes)), blank)
=============================================================================
