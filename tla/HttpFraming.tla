----------------------------- MODULE HttpFraming -----------------------------
(***************************************************************************)
(* The HTTP protocol over a connection: HttpContext::parse(), a state      *)
(* machine that is fed with whatever Connection::read() has put into       *)
(* Buffer, behind HttpProtocol, which answers an error with 400 and keeps  *)
(* the connection.                                                         *)
(*                                                                         *)
(* The stream is made of tokens: the text of a request line or of a header *)
(* field, CR, LF and body bytes.  parse() only looks for CR LF, so a text  *)
(* that arrives in pieces is the same to it as one that has not arrived.   *)
(* A token is a tuple; one of a Content-Length field has the number too.   *)
(* One turn of parse()'s loop is one step.                                 *)
(***************************************************************************)
EXTENDS ByteBuffer

CONSTANTS
  HttpRequests,   \* the requests a client may write
  MaxRequests,    \* bound: requests written
  HttpTexts,      \* the texts of lines, and the bytes of bodies
  HttpSize,       \* initial size of Buffer (4096)
  HttpExtra,      \* EXTRA_BUF_SIZE (65536)
  HttpMax         \* MAX_HTTP_BODY_SIZE (1 MB)

\* The content of unused elements of the buffer, the end of a line, and the rest.
Blank == <<"">>
CR == <<"CR">>
LF == <<"LF">>
Token == HttpTexts \cup {Blank, CR, LF}

\* What lineContext() takes for a method, and headerContext() for a field (one
\* without a colon is not); a length that is not a number, and one that is.
Methods == {<<"GET">>, <<"POST">>}
Field == {<<"Host">>}
NotDigits == <<"Content-Length: x">>
Lengths == {<<"Content-Length", n>> : n \in 0..(HttpMax + 1)}
LengthFields == Lengths \cup {NotDigits}
NoLength == <<"none">>

\* header_["Content-Length"] is x after the first k of the fields fs: the last one
\* counts, and without one there is no entry.
LengthAfter(fs, k, x) ==
  \/ x = NoLength /\ \A i \in 1..k : fs[i] \notin LengthFields
  \/ /\ x \in LengthFields
     /\ \E i \in 1..k : fs[i] = x /\ \A j \in (i + 1)..k : fs[j] \notin LengthFields

\* A request as its client writes it: the line, header fields, body.
Line(text) == <<text, CR, LF>>
Lines(r) == <<r.line>> \o r.fields
HeaderTokens(lines) ==
  [i \in 1..(3 * Len(lines)) |-> Line(lines[(i + 2) \div 3])[((i + 2) % 3) + 1]]
EncodeRequest(r) == HeaderTokens(Lines(r)) \o <<CR, LF>> \o r.body

\* No text is the end of a line.  A body has the length that its header gives, if
\* parse() takes that: what follows such a header is the body.
ASSUME HttpAssumption ==
  /\ {HttpSize, HttpExtra} \subseteq Nat \ {0, 1} /\ {HttpMax, MaxRequests} \subseteq Nat
  /\ CR \notin HttpTexts
  /\ \A r \in HttpRequests :
       /\ r.line \in HttpTexts /\ r.fields \in Seq(HttpTexts) /\ r.body \in Seq(Token)
       /\ LengthAfter(r.fields, Len(r.fields), NoLength) => r.body = <<>>
       /\ \A n \in 0..HttpMax :
            LengthAfter(r.fields, Len(r.fields), <<"Content-Length", n>>) => Len(r.body) = n

VARIABLES
  requests,     \* the requests written
  httpEnds,     \* where each of them ends in the stream
  httpStream,   \* their tokens
  httpPos,      \* how many of them readv() has returned
  httpBuf,      \* inBuffer_
  httpPlace,    \* where read() is
  consumed,     \* parse()'s local variable
  pstate,       \* parsestate_
  length,       \* header_["Content-Length"], NoLength if it is not there
  method, body, \* the rest of httprequest_
  answered,     \* the requests given to enqueueTask()
  errors        \* history: there was a 400 answer

client == <<requests, httpEnds, httpStream>>
parser == <<pstate, length, method, body>>

httpVars == <<client, httpPos, httpBuf, httpPlace, consumed, parser, answered, errors>>

HttpTypeOK ==
  /\ Len(httpEnds) = Len(requests) /\ httpPos \in 0..Len(httpStream)
  /\ httpPlace \in {"wait", "read", "parse", "loop"}
  /\ pstate \in {"REQUEST_LINE", "HEADERS", "BODY", "DONE"}
  /\ httpBuf.rd <= httpBuf.wr /\ httpBuf.wr <= Len(httpBuf.data)
  /\ consumed \in 0..Readable(httpBuf)

\* HttpProtocol::reset()
Reset ==
  /\ pstate' = "REQUEST_LINE" /\ length' = NoLength /\ method' = <<"UNKNOWN">>
  /\ body' = <<>>

HttpInit ==
  /\ requests = <<>> /\ httpEnds = <<>> /\ httpStream = <<>> /\ httpPos = 0
  /\ httpBuf = NewBuffer(HttpSize, Blank) /\ httpPlace = "wait" /\ consumed = 0
  /\ pstate = "REQUEST_LINE" /\ length = NoLength /\ method = <<"UNKNOWN">> /\ body = <<>>
  /\ answered = <<>> /\ errors = FALSE

-----------------------------------------------------------------------------
(* The client *)

SendRequest(r) ==
  /\ Len(requests) < MaxRequests
  /\ requests' = Append(requests, r)
  /\ httpStream' = httpStream \o EncodeRequest(r)
  /\ httpEnds' = Append(httpEnds, Len(httpStream'))
  /\ UNCHANGED <<httpPos, httpBuf, httpPlace, consumed, parser, answered, errors>>

-----------------------------------------------------------------------------
(* Connection::read() *)

HttpPoll ==
  /\ httpPlace = "wait" /\ httpPos < Len(httpStream)
  /\ httpPlace' = "read"
  /\ UNCHANGED <<client, httpPos, httpBuf, consumed, parser, answered, errors>>

\* readv() returns some of what has arrived...
HttpReadSome ==
  /\ httpPlace = "read"
  /\ LET room == MakeRoom(httpBuf, HttpExtra, Blank) IN
       \E n \in 1..(Writable(room) + HttpExtra) :
         /\ httpPos + n <= Len(httpStream)
         /\ httpBuf' = ReadInto(room, SubSeq(httpStream, httpPos + 1, httpPos + n), Blank)
         /\ httpPos' = httpPos + n
  /\ UNCHANGED <<client, httpPlace, consumed, parser, answered, errors>>

\* ...and would block in the end.
HttpReadAgain ==
  /\ httpPlace = "read"
  /\ httpBuf' = MakeRoom(httpBuf, HttpExtra, Blank)
  /\ httpPlace' = "parse"
  /\ UNCHANGED <<client, httpPos, consumed, parser, answered, errors>>

-----------------------------------------------------------------------------
(* HttpContext::parse() *)

\* data + consumed, as far as the buffer goes.
Rest == SubSeq(Peek(httpBuf), consumed + 1, Readable(httpBuf))

\* Positions of CR LF in the rest; the line in front of the first one.
LineEnds == {i \in 1..(Len(Rest) - 1) : Rest[i] = CR /\ Rest[i + 1] = LF}
LineLen == (CHOOSE i \in LineEnds : \A j \in LineEnds : i <= j) - 1
FrontLine == SubSeq(Rest, 1, LineLen)

\* parse() is called: nothing to do for an empty buffer.
ParseCall ==
  /\ httpPlace = "parse"
  /\ httpPlace' = IF Readable(httpBuf) = 0 THEN "wait" ELSE "loop"
  /\ consumed' = 0
  /\ UNCHANGED <<client, httpPos, httpBuf, parser, answered, errors>>

\* The loop's head: while (consumed < len).
InLoop(s) == httpPlace = "loop" /\ consumed < Readable(httpBuf) /\ pstate = s

\* isError_: parse() returns before moveReadPtr(), so that the buffer stays as it
\* is.  read() sends the 400 answer and resets the protocol.
RefuseRequest ==
  /\ Reset
  /\ errors' = TRUE /\ httpPlace' = "wait" /\ consumed' = 0
  /\ UNCHANGED <<client, httpPos, httpBuf, answered>>

\* A whole line is consumed with its CR LF.
SkipLine ==
  /\ consumed' = consumed + LineLen + 2
  /\ UNCHANGED <<client, httpPos, httpBuf, httpPlace, answered, errors>>

\* State REQUEST_LINE
RequestLine ==
  /\ InLoop("REQUEST_LINE") /\ LineEnds # {}
  /\ \/ /\ \E m \in Methods : FrontLine = <<m>> /\ method' = m
        /\ pstate' = "HEADERS"
        /\ SkipLine
        /\ UNCHANGED <<length, body>>
     \/ /\ \A m \in Methods : FrontLine # <<m>>
        /\ RefuseRequest

\* State HEADERS: a field...
HeaderField ==
  /\ InLoop("HEADERS") /\ LineEnds # {} /\ LineLen > 0
  /\ \/ /\ \E f \in Field : FrontLine = <<f>>
        /\ SkipLine
        /\ UNCHANGED parser
     \/ /\ \E x \in LengthFields : FrontLine = <<x>> /\ length' = x
        /\ SkipLine
        /\ UNCHANGED <<pstate, method, body>>
     \/ /\ \A f \in Field \cup LengthFields : FrontLine # <<f>>
        /\ RefuseRequest

\* The body is looked for whether or not a length was given.
AfterHeadersBody == "BODY"

\* Without Content-Length there is no body.
AfterHeaders == IF length = NoLength THEN "DONE" ELSE "BODY"

\* ...or the empty line that ends the header.
HeaderEnd ==
  /\ InLoop("HEADERS") /\ LineEnds # {} /\ LineLen = 0
  /\ pstate' = AfterHeaders
  /\ SkipLine
  /\ UNCHANGED <<length, method, body>>

\* State BODY: a length that is not a number or too large is an error; a length
\* of 0 needs no bytes; otherwise all bytes have to be there.
ParseBody ==
  /\ InLoop("BODY")
  /\ IF length \notin Lengths \/ (length[2] > HttpMax) THEN RefuseRequest
     ELSE /\ Len(Rest) >= length[2]
          /\ body' = SubSeq(Rest, 1, length[2])
          /\ consumed' = consumed + length[2]
          /\ pstate' = "DONE"
          /\ UNCHANGED <<client, httpPos, httpBuf, httpPlace, length, method, answered,
                         errors>>

\* The loop cannot go on: it has used up the buffer, or waits for the end of a
\* line or of the body.
Starved ==
  \/ consumed = Readable(httpBuf)
  \/ pstate \in {"REQUEST_LINE", "HEADERS"} /\ LineEnds = {}
  \/ pstate = "BODY" /\ length \in Lengths /\ length[2] <= HttpMax
       /\ Len(Rest) < length[2]

\* After the loop: moveReadPtr(consumed), and OK or NEED_MORE.  After OK read()
\* queues the task, resets the protocol and calls parse() again.
ParseLeave ==
  /\ httpPlace = "loop" /\ (pstate = "DONE" \/ Starved)
  /\ httpBuf' = IF consumed > 0 THEN MoveReadPtr(httpBuf, consumed) ELSE httpBuf
  /\ consumed' = 0
  /\ IF pstate = "DONE"
       THEN /\ answered' = Append(answered, [line |-> method, body |-> body])
            /\ httpPlace' = "parse"
            /\ Reset
       ELSE /\ httpPlace' = "wait"
            /\ UNCHANGED <<parser, answered>>
  /\ UNCHANGED <<client, httpPos, errors>>

HttpNext ==
  \/ \E r \in HttpRequests : SendRequest(r)
  \/ HttpPoll \/ HttpReadSome \/ HttpReadAgain
  \/ ParseCall \/ RequestLine \/ HeaderField \/ HeaderEnd \/ ParseBody \/ ParseLeave

HttpSpec == HttpInit /\ [][HttpNext]_httpVars

-----------------------------------------------------------------------------
(* Properties *)

\* A request that parse() has to refuse.
Malformed(r) ==
  \/ r.line \notin Methods
  \/ \E i \in 1..Len(r.fields) : r.fields[i] \notin Field \cup LengthFields
  \/ \E x \in LengthFields :
       /\ LengthAfter(r.fields, Len(r.fields), x)
       /\ x \notin Lengths \/ x[2] > HttpMax

ZeroBody(r) == LengthAfter(r.fields, Len(r.fields), <<"Content-Length", 0>>)

\* The requests before the first that is refused.
Before == {k \in 1..Len(requests) : \A i \in 1..k : ~Malformed(requests[i])}

\* All tokens of request k are among the first n of the stream.
Whole(k, n) == httpEnds[k] <= n

\* A request with Content-Length 0 that ends where the buffer does: parse() leaves
\* its loop with all bytes consumed, before it looks at the length.
AwaitsMore(k, n) == ZeroBody(requests[k]) /\ httpEnds[k] = n

\* What is to be delivered of a request.
Content(r) == [line |-> r.line, body |-> r.body]

\* However the stream is cut into pieces, after a call of read() the requests that
\* were delivered had arrived whole, and are those of the stream in order and with
\* their bodies; and those that have arrived whole were delivered, up to the first
\* that is refused.  Nothing is said here of a request that AwaitsMore (see
\* WholeRequestsDelivered).  Nothing else is delivered, and nothing answered with
\* 400, until the refused one has come.
RequestsDelivered ==
  /\ HttpTypeOK
  /\ httpPlace = "wait" =>
       /\ \A k \in Before : k <= Len(answered) =>
            Whole(k, httpPos) /\ answered[k] = Content(requests[k])
       /\ \A k \in Before : Whole(k, httpPos) => k <= Len(answered) \/ AwaitsMore(k, httpPos)
       /\ errors => Before # 1..Len(requests) /\ \A k \in Before : k <= Len(answered)
       /\ ~errors => 1..Len(answered) \subseteq Before

\* After a call of read() every request that has arrived whole, also one without a
\* body, was delivered: HttpContext.cpp says of a length of 0 that the request is
\* complete at once.
WholeRequestsDelivered ==
  httpPlace = "wait" => \A k \in Before : Whole(k, httpPos) => k <= Len(answered)
=============================================================================
