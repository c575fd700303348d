----------------------------- MODULE MCRequests -----------------------------
(***************************************************************************)
(* The way of a request, for TLC: the Qt client that makes it, its frame   *)
(* (or its HTTP form) in the byte stream, the gateway that forwards it,    *)
(* the rate limits at its end and the handlers that change the rooms.  The *)
(* six are checked one at a time: a behaviour moves the part that Init     *)
(* chooses and leaves the others as they started.                          *)
(***************************************************************************)
EXTENDS RateLimit, QtClient, Framing, HttpFraming, Gateway, ChatRooms, TLC

-----------------------------------------------------------------------------
(* What the senders write *)

\* Frames: right ones with and without payload, of which one looks like a
\* length, and with an id of three bytes; one of a type of which only the low byte
\* is known, one too short and one too long.
F(t, i, p) == [length |-> 6 + Len(p), type |-> t, id |-> i, payload |-> p]
MCFrames ==
  {F(1, 1, <<>>), F(9, 2, <<0, 0, 6>>), F(12, 66051, <<7>>), F(265, 4, <<>>),
   [F(1, 5, <<>>) EXCEPT !.length = 5], F(9, 6, <<1, 2, 3, 4>>)}

\* HTTP requests: with and without fields and body, a body that looks like the
\* end of a line; a method that is not known, a field without a colon, a length
\* that is not a number and one that is too large.
R(l, f, b) == [line |-> l, fields |-> f, body |-> b]
MCRequestSet ==
  {R(<<"GET">>, <<>>, <<>>), R(<<"GET">>, <<<<"Host">>>>, <<>>),
   R(<<"POST">>, <<<<"Host">>, <<"Content-Length", 2>>>>, <<<<"b">>, <<"b">>>>),
   R(<<"POST">>, <<<<"Content-Length", 0>>>>, <<>>),
   R(<<"POST">>, <<<<"Content-Length", 3>>>>, <<<<"CR">>, <<"LF">>, <<"GET">>>>),
   R(<<"PUT">>, <<>>, <<>>), R(<<"GET">>, <<<<"text">>>>, <<>>),
   R(<<"POST">>, <<<<"Content-Length: x">>>>, <<>>),
   R(<<"POST">>, <<<<"Content-Length", HttpMax + 1>>>>, <<<<"b">>>>)}
MCTexts ==
  {<<"GET">>, <<"POST">>, <<"PUT">>, <<"Host">>, <<"text">>, <<"b">>,
   <<"Content-Length: x">>} \cup {<<"Content-Length", n>> : n \in 0..(HttpMax + 1)}

-----------------------------------------------------------------------------
VARIABLE part

all == <<part, vars, framingVars, httpVars, clientVars, gatewayVars, chatVars>>

AllInit ==
  /\ part \in {"client", "wire", "http", "gateway", "limits", "rooms"}
  /\ Init /\ FramingInit /\ HttpInit /\ ClientInit /\ GatewayInit /\ ChatInit

\* A part that does not move stays as it started.
AllNext ==
  /\ UNCHANGED part
  /\ \/ part = "client" /\ ClientNext /\ UNCHANGED <<vars, framingVars, httpVars,
                                                     gatewayVars, chatVars>>
     \/ part = "wire" /\ FramingNext /\ UNCHANGED <<vars, httpVars, clientVars,
                                                    gatewayVars, chatVars>>
     \/ part = "http" /\ HttpNext /\ UNCHANGED <<vars, framingVars, clientVars,
                                                 gatewayVars, chatVars>>
     \/ part = "gateway" /\ GatewayNext /\ UNCHANGED <<vars, framingVars, httpVars,
                                                       clientVars, chatVars>>
     \/ part = "limits" /\ Next /\ UNCHANGED <<framingVars, httpVars, clientVars,
                                               gatewayVars, chatVars>>
     \/ part = "rooms" /\ ChatNext /\ UNCHANGED <<vars, framingVars, httpVars,
                                                  clientVars, gatewayVars>>

AllSpec == AllInit /\ [][AllNext]_all

\* Clients of the gateway are alike, and so are the numbers of the server's.
Symmetry == Permutations(Clients) \cup Permutations(Fds)
=============================================================================
