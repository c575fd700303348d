------------------------------- MODULE Framing -------------------------------
(***************************************************************************)
(* How requests are cut out of the byte stream of a connection: the loop   *)
(* of readv() calls in Connection::read(), Buffer, and MyProtocol::parse() *)
(* with its frame                                                          *)
(*   | 4 bytes length | 2 bytes type | 4 bytes id | payload |              *)
(* where the length counts what follows it, high byte first.               *)
(*                                                                         *)
(* The sender writes frames to the stream, and may stop anywhere; the      *)
(* network delivers any part of it at a time.  A byte is a number, so that *)
(* a payload can look like a header.  Everything here happens in one loop  *)
(* thread; what other threads do to the connection is in Connection.       *)
(***************************************************************************)
EXTENDS ByteBuffer

CONSTANTS
  Frames,       \* the frames a sender may write
  MaxFrames,    \* bound: frames written
  InitSize,     \* initial size of Buffer (4096)
  Extra,        \* EXTRA_BUF_SIZE (65536)
  MaxBody,      \* MAX_BODY_SIZE (16 MB)
  ValidTypes    \* what isValidMsgType() accepts

\* uint8_t, and numbers that fit into a uint32_t and a uint16_t.
Byte == 0..255
Is32(n) == n \in Nat /\ n \div 16777216 < 256
Is16(n) == n \in Nat /\ n \div 256 < 256

\* A frame has the length of what follows, as encodeMessage() fills it in, or one
\* that parse() refuses.  Nothing is lost by that: in any stream of bytes what
\* follows a length that parse() takes is, as far as it goes, a frame of that length.
ASSUME FramingAssumption ==
  /\ {InitSize, Extra} \subseteq Nat \ {0, 1} /\ {MaxBody, MaxFrames} \subseteq Nat
  /\ \A f \in Frames :
       /\ Is32(f.length) /\ Is16(f.type) /\ Is32(f.id) /\ f.payload \in Seq(Byte)
       /\ f.length = 6 + Len(f.payload) \/ f.length \notin 6..MaxBody

VARIABLES
  script,       \* the frames written, the last one perhaps in part
  ends,         \* where each of them ends in the stream
  stream,       \* their bytes
  fin,          \* the sender writes no more
  pos,          \* bytes readv() has returned
  buf,          \* inBuffer_
  eof,          \* peerReadClosed_
  connected,    \* state_ == Connected
  phase,        \* where read() is
  delivered     \* the messages given to enqueueTask()

sender == <<script, ends, stream, fin>>
framingVars == <<sender, pos, buf, eof, connected, phase, delivered>>

\* htonl() and htons()
Net32(n) == <<n \div 16777216, (n \div 65536) % 256, (n \div 256) % 256, n % 256>>
Net16(n) == <<n \div 256, n % 256>>

\* encodeMessage(), and ChatWindow::sendPacket() of the Qt client.  The length is
\* that of type, id and payload; a broken sender may write another one.
EncodeMessage(f) == Net32(f.length) \o Net16(f.type) \o Net32(f.id) \o f.payload

FramingTypeOK ==
  /\ Len(ends) = Len(script) /\ pos \in 0..Len(stream)
  /\ fin \in BOOLEAN /\ eof \in BOOLEAN /\ connected \in BOOLEAN
  /\ phase \in {"wait", "read", "parse"}
  /\ buf.rd <= buf.wr /\ buf.wr <= Len(buf.data)

FramingInit ==
  /\ script = <<>> /\ ends = <<>> /\ stream = <<>> /\ fin = FALSE
  /\ pos = 0 /\ buf = NewBuffer(InitSize, 0) /\ eof = FALSE /\ connected = TRUE
  /\ phase = "wait" /\ delivered = <<>>

-----------------------------------------------------------------------------
(* The sender.  What it writes after the server has closed is not read. *)

SendFrame(f) ==
  /\ ~fin /\ connected /\ Len(script) < MaxFrames
  /\ script' = Append(script, f)
  /\ stream' = stream \o EncodeMessage(f)
  /\ ends' = Append(ends, Len(stream'))
  /\ UNCHANGED <<fin, pos, buf, eof, connected, phase, delivered>>

\* The sender dies, or its connection does, after n bytes of a frame.
SendPart(f, n) ==
  /\ ~fin /\ connected /\ Len(script) < MaxFrames
  /\ script' = Append(script, f)
  /\ stream' = stream \o SubSeq(EncodeMessage(f), 1, n)
  /\ ends' = Append(ends, Len(stream) + Len(EncodeMessage(f)))
  /\ fin' = TRUE
  /\ UNCHANGED <<pos, buf, eof, connected, phase, delivered>>

SendFin ==
  /\ ~fin /\ connected
  /\ fin' = TRUE
  /\ UNCHANGED <<script, ends, stream, pos, buf, eof, connected, phase, delivered>>

-----------------------------------------------------------------------------
(* The loop over readv() *)

\* epoll reports input, or the end of the stream.  After an end of file or a
\* close read() returns at once.
Poll ==
  /\ phase = "wait" /\ connected /\ ~eof
  /\ phase' = "read"
  /\ UNCHANGED <<sender, pos, buf, eof, connected, delivered>>

\* readv() returns n > 0.
ReadSome ==
  /\ phase = "read" /\ pos < Len(stream)
  /\ LET room == MakeRoom(buf, Extra, 0) IN
       \E n \in 1..(Writable(room) + Extra) :
         /\ pos + n <= Len(stream)
         /\ buf' = ReadInto(room, SubSeq(stream, pos + 1, pos + n), 0)
         /\ pos' = pos + n
  /\ UNCHANGED <<sender, eof, connected, phase, delivered>>

\* readv() returns 0: the peer has sent everything.
ReadEof ==
  /\ phase = "read" /\ fin /\ pos = Len(stream)
  /\ buf' = MakeRoom(buf, Extra, 0)
  /\ eof' = TRUE /\ phase' = "parse"
  /\ UNCHANGED <<sender, pos, connected, delivered>>

\* readv() would block.
ReadAgain ==
  /\ phase = "read"
  /\ buf' = MakeRoom(buf, Extra, 0)
  /\ phase' = "parse"
  /\ UNCHANGED <<sender, pos, eof, connected, delivered>>

-----------------------------------------------------------------------------
(* MyProtocol::parse() *)

\* ntohl() and ntohs() of the bytes of p behind the first i.
Host32(p, i) == 16777216 * p[i + 1] + 65536 * p[i + 2] + 256 * p[i + 3] + p[i + 4]
Host16(p, i) == 256 * p[i + 1] + p[i + 2]

HasLength == Readable(buf) >= 4
BodyLen == Host32(Peek(buf), 0)

\* getreadable() < 4 + body_len: wait for the rest.
Complete == Readable(buf) >= 4 + BodyLen

LengthError == BodyLen > MaxBody \/ BodyLen < 6

\* The frame in front, all of it in the buffer.
FrontMessage ==
  LET p == Peek(buf)
  IN  [type |-> Host16(p, 4), id |-> Host32(p, 6), payload |-> SubSeq(p, 11, 4 + BodyLen)]

\* OK: the frame is consumed in four moves, and a task is queued.
ParseOk ==
  /\ phase = "parse" /\ HasLength /\ ~LengthError /\ Complete
  /\ FrontMessage.type \in ValidTypes
  /\ buf' = MoveReadPtr(buf, 4 + BodyLen)
  /\ delivered' = Append(delivered, FrontMessage)
  /\ UNCHANGED <<sender, pos, eof, connected, phase>>

\* ERROR: there is no error response, so handleClose().
ParseError ==
  /\ phase = "parse" /\ HasLength
  /\ \/ LengthError /\ UNCHANGED buf
     \/ /\ ~LengthError /\ Complete /\ FrontMessage.type \notin ValidTypes
        /\ buf' = MoveReadPtr(buf, 4 + BodyLen)
  /\ connected' = FALSE /\ phase' = "wait"
  /\ UNCHANGED <<sender, pos, eof, delivered>>

\* NEED_MORE: keep the part of a frame, or drop it after the end of file.
ParseMore ==
  /\ phase = "parse"
  /\ ~HasLength \/ (HasLength /\ ~LengthError /\ ~Complete)
  /\ buf' = IF eof /\ Readable(buf) > 0 THEN MoveReadPtr(buf, Readable(buf)) ELSE buf
  /\ phase' = "wait"
  /\ UNCHANGED <<sender, pos, eof, connected, delivered>>

\* Nothing more will come.
Finished == phase = "wait" /\ (eof \/ ~connected) /\ UNCHANGED framingVars

FramingNext ==
  \/ \E f \in Frames :
       SendFrame(f) \/ \E n \in 1..(9 + Len(f.payload)) : SendPart(f, n)
  \/ SendFin
  \/ Poll \/ ReadSome \/ ReadEof \/ ReadAgain
  \/ ParseOk \/ ParseError \/ ParseMore \/ Finished

FramingSpec == FramingInit /\ [][FramingNext]_framingVars

-----------------------------------------------------------------------------
(* Properties *)

\* A frame that parse() has to refuse.
Bad(f) == f.length \notin 6..MaxBody \/ f.type \notin ValidTypes

\* What is to be delivered of a frame.
Message(f) == [type |-> f.type, id |-> f.id, payload |-> f.payload]

\* Where the first k frames end, of those that end at the positions es.
End(es, k) == IF k = 0 THEN 0 ELSE es[k]

\* However the stream is cut into readv() calls, and however Buffer has moved
\* and grown: after a call of read() exactly the frames that have arrived whole
\* were delivered, in order and unchanged, up to the first malformed one; in the
\* loops the buffer holds what has been read and not consumed; and a connection
\* is closed only if a malformed frame was sent.
FramesDelivered ==
  /\ FramingTypeOK
  /\ \A i \in 1..Len(delivered) : i <= Len(script) /\ delivered[i] = Message(script[i])
  /\ phase = "wait" =>
       1..Len(delivered) =
         {k \in 1..Len(script) : ends[k] <= pos /\ \A i \in 1..k : ~Bad(script[i])}
  /\ (connected /\ ~eof) => Peek(buf) = SubSeq(stream, End(ends, Len(delivered)) + 1, pos)
  /\ ~connected => \E i \in 1..Len(script) : Bad(script[i])
=============================================================================
