------------------------------ MODULE QtClient ------------------------------
(***************************************************************************)
(* The Qt client: the login window (QT/loginwindow.cpp), the chat window   *)
(* it opens (QT/chatwindow.cpp), the byte streams in both directions, and  *)
(* the one session of ChatService that answers them.                       *)
(*                                                                         *)
(* Everything in the client runs in one thread, but a message box runs an  *)
(* event loop of its own inside the handler that opened it: frames arrive  *)
(* and the connection breaks while a box is open, and the handler goes on  *)
(* with what is left in recvBuf_ when the box is closed. `boxes' is that   *)
(* stack and `parsing' says that a parsePacket loop is running. A box is   *)
(* modal: the user's clicks need an empty stack.                           *)
(*                                                                         *)
(* Frames are records of a type and, where the client uses it, a room.     *)
(* "note" stands for the frames that change only text: SEND_MSG_RESP,      *)
(* HEARTBEAT_RESP, BROADCAST_MSG and MEMBER_COUNT_UPDATE.                  *)
(***************************************************************************)
EXTENDS Naturals, Sequences

CONSTANTS
    MaxServerRoom,   \* room ids 1 .. MaxRoom are created (bound)
    MaxId      \* request ids 1 .. MaxId are used by the chat window (bound)

ASSUME ClientAssumption == MaxServerRoom \in Nat /\ MaxId \in Nat

VARIABLES
    window,         \* "login", or "chat" once the chat window exists
    link,           \* QTcpSocket: "off", "connecting", "on", "broken"
    up, down,       \* frames on their way to and from the server
    recvBuf,        \* m_recvBuf_ / recvBuf_, in whole frames
    parsing,        \* a parsePacket loop is running
    boxes,          \* message boxes open, the last one on top
    currentRoomId,  \* currentRoomId_, 0 for none
    input,          \* inputLineEdit and sendBtn are enabled
    leaveBtn,       \* leaveRoomBtn is enabled
    heartbeat,      \* heartbeatTimer_ runs
    requestId,      \* requestId_
    room,           \* server: the session's room, 0 for none
    serverRooms,          \* server: rooms_
    nextRoom        \* server: next_room_id_

login   == <<window, boxes>>
traffic == <<up, down, recvBuf, parsing>>
ui      == <<currentRoomId, input, leaveBtn, heartbeat, requestId>>
server  == <<room, serverRooms, nextRoom>>
clientVars == <<login, link, traffic, ui, server>>

Frame(t, r) == [type |-> t, room |-> r]
Note == Frame("note", 0)

ClientInit ==
    /\ window = "login" /\ link = "off"
    /\ up = <<>> /\ down = <<>> /\ recvBuf = <<>>
    /\ parsing = FALSE /\ boxes = <<>>
    /\ currentRoomId = 0 /\ input = FALSE /\ leaveBtn = FALSE
    /\ heartbeat = FALSE /\ requestId = 1
    /\ room = 0 /\ serverRooms = {} /\ nextRoom = 1

-----------------------------------------------------------------------------
(* The user, at the event loop with no box open. *)

Idle == ~parsing /\ boxes = <<>>
Chatting == window = "chat" /\ Idle

\* Writing to a socket that is not connected sends nothing.
sendPacket(f) ==
    /\ up' = IF link = "on" THEN Append(up, f) ELSE up
    /\ requestId' = requestId + 1

\* The login button closes a connection that is still open, with what was
\* received of it, and connects.
LoginClicked ==
    /\ window = "login" /\ Idle /\ link # "connecting"
    /\ link' = "connecting"
    /\ up' = <<>> /\ down' = <<>>
    /\ recvBuf' = IF link = "on" THEN <<>> ELSE recvBuf
    /\ room' = 0
    /\ UNCHANGED <<login, parsing, ui, serverRooms, nextRoom>>

LoginConnected ==
    /\ link = "connecting" /\ Idle
    /\ link' = "on"
    /\ up' = <<Frame("login", 0)>>
    /\ UNCHANGED <<login, down, recvBuf, parsing, ui, server>>

onCreateRoom ==
    /\ Chatting /\ requestId <= MaxId
    /\ sendPacket(Frame("create", 0))
    /\ UNCHANGED <<login, link, down, recvBuf, parsing, currentRoomId, input,
                   leaveBtn, heartbeat, server>>

\* Joining enables the controls before the server has answered.
JoinEnablesInput(r) ==
    /\ Chatting /\ requestId <= MaxId
    /\ currentRoomId' = r
    /\ sendPacket(Frame("join", r))
    /\ input' = TRUE /\ leaveBtn' = TRUE
    /\ UNCHANGED <<login, link, down, recvBuf, parsing, heartbeat, server>>

\* The room becomes the current one before the server has answered.
onJoinRoom(r) ==
    /\ Chatting /\ requestId <= MaxId
    /\ currentRoomId' = r
    /\ sendPacket(Frame("join", r))
    /\ UNCHANGED <<login, link, down, recvBuf, parsing, input, leaveBtn,
                   heartbeat, server>>

onLeaveRoom ==
    /\ Chatting /\ requestId <= MaxId
    /\ leaveBtn /\ currentRoomId # 0
    /\ sendPacket(Frame("leave", 0))
    /\ UNCHANGED <<login, link, down, recvBuf, parsing, currentRoomId, input,
                   leaveBtn, heartbeat, server>>

onSendMessage ==
    /\ Chatting /\ requestId <= MaxId
    /\ input /\ currentRoomId # 0
    /\ sendPacket(Frame("send", 0))
    /\ UNCHANGED <<login, link, down, recvBuf, parsing, currentRoomId, input,
                   leaveBtn, heartbeat, server>>

\* The timer also fires while a box is open.
sendHeartbeat ==
    /\ heartbeat /\ ~parsing /\ requestId <= MaxId
    /\ sendPacket(Frame("heartbeat", 0))
    /\ UNCHANGED <<login, link, down, recvBuf, parsing, currentRoomId, input,
                   leaveBtn, heartbeat, server>>

-----------------------------------------------------------------------------
(* The server: one request of the connection at a time, in order. *)

Answer(fs) ==
    /\ up' = Tail(up)
    /\ down' = down \o fs
    /\ UNCHANGED <<login, link, recvBuf, parsing, ui>>

Asked(t) == up # <<>> /\ Head(up).type = t

\* Other users' rooms come and go; a room with a member stays.
OthersCreate ==
    /\ nextRoom <= MaxServerRoom
    /\ serverRooms' = serverRooms \cup {nextRoom}
    /\ nextRoom' = nextRoom + 1
    /\ UNCHANGED <<login, link, traffic, ui, room>>

OthersLeave(r) ==
    /\ r \in serverRooms \ {room}
    /\ serverRooms' = serverRooms \ {r}
    /\ UNCHANGED <<login, link, traffic, ui, room, nextRoom>>

\* Over the rate limit, from which only heartbeats are exempt.
Refuse ==
    /\ up # <<>> /\ Head(up).type # "heartbeat"
    /\ Answer(<<Frame("error", 0)>>)
    /\ UNCHANGED server

\* "OK", "FAIL", or a text that is neither.
handleLogin ==
    /\ Asked("login")
    /\ \E a \in {"ok", "fail", "note"} : Answer(<<Frame(a, 0)>>)
    /\ UNCHANGED server

\* The id is taken before the database is asked.
handleCreateRoom ==
    /\ Asked("create") /\ nextRoom <= MaxServerRoom
    /\ nextRoom' = nextRoom + 1
    /\ \/ /\ Answer(<<Frame("created", nextRoom)>>)
          /\ serverRooms' = serverRooms \cup {nextRoom}
          /\ room' = nextRoom
       \/ /\ Answer(<<Frame("note", 0)>>)          \* CREATE_ROOM_RESP "FAIL"
          /\ UNCHANGED <<room, serverRooms>>

\* The new member is told the member count before the answer.
handleJoinRoom ==
    /\ Asked("join")
    /\ \/ /\ Head(up).room \in serverRooms
          /\ room' = Head(up).room
          /\ Answer(<<Note, Frame("joined", 0)>>)
       \/ /\ Head(up).room \notin serverRooms
          /\ UNCHANGED room
          /\ Answer(<<Frame("error", 0)>>)
    /\ UNCHANGED <<serverRooms, nextRoom>>

\* Always answered OK; the room goes with its last member.
handleLeaveRoom ==
    /\ Asked("leave")
    /\ Answer(<<Frame("left", 0)>>)
    /\ room' = 0
    /\ serverRooms' \in {serverRooms, serverRooms \ {room}}
    /\ UNCHANGED nextRoom

handleSendMessage ==
    /\ Asked("send")
    /\ \/ room # 0 /\ Answer(<<Note, Note>>)       \* the broadcast, then "OK"
       \/ Answer(<<Frame("error", 0)>>)            \* in no room, or in one not listed
    /\ UNCHANGED server

handleHeartbeat ==
    /\ Asked("heartbeat")
    /\ Answer(<<Note>>)
    /\ UNCHANGED server

-----------------------------------------------------------------------------
(* Receiving. *)

\* readyRead: to the login window's buffer or, once the login window is
\* disconnected from it, to the chat window's.
onReadyRead ==
    /\ ~parsing /\ down # <<>>
    /\ recvBuf' = recvBuf \o down
    /\ down' = <<>> /\ parsing' = TRUE
    /\ UNCHANGED <<login, link, up, ui, server>>

Enable(r) ==
    /\ currentRoomId' = r
    /\ input' = TRUE /\ leaveBtn' = TRUE
    /\ UNCHANGED <<heartbeat, requestId>>

Disable ==
    /\ currentRoomId' = 0
    /\ input' = FALSE /\ leaveBtn' = FALSE
    /\ UNCHANGED <<heartbeat, requestId>>

\* The box a frame opens, if any, keeps the loop waiting.
Opens(b) == boxes' = Append(boxes, b) /\ parsing' = FALSE
NoBox == UNCHANGED <<boxes, parsing>>

\* The login window's switch: LOGIN_RESP and ERROR_RESP.
LoginFrame(f) ==
    /\ \/ f.type = "ok" /\ Opens("welcome")
       \/ f.type \in {"fail", "error"} /\ Opens("parse")
       \/ f.type = "note" /\ NoBox
    /\ UNCHANGED ui

\* The chat window's switch.
ChatFrame(f) ==
    \/ f.type = "created" /\ Enable(f.room) /\ NoBox
    \/ f.type = "joined" /\ Enable(currentRoomId) /\ NoBox
    \/ f.type = "left" /\ Disable /\ NoBox
    \/ f.type = "error" /\ Opens("parse") /\ UNCHANGED ui
    \/ f.type = "note" /\ NoBox /\ UNCHANGED ui

\* One turn of parsePacket; the loop ends when the buffer is empty.
parsePacket ==
    /\ parsing
    /\ \/ /\ recvBuf # <<>>
          /\ recvBuf' = Tail(recvBuf)
          /\ IF window = "login" THEN LoginFrame(Head(recvBuf))
                                 ELSE ChatFrame(Head(recvBuf))
       \/ /\ recvBuf = <<>>
          /\ parsing' = FALSE
          /\ UNCHANGED <<recvBuf, boxes, ui>>
    /\ UNCHANGED <<window, link, up, down, server>>

\* The connection breaks: what is on the way is lost, the session ends, and
\* the login window's slot_error, which stays connected, opens a box.
slot_error ==
    /\ link = "on" /\ ~parsing
    /\ link' = "broken"
    /\ up' = <<>> /\ down' = <<>>
    /\ boxes' = Append(boxes, "network")
    /\ room' = 0
    /\ UNCHANGED <<window, recvBuf, parsing, ui, serverRooms, nextRoom>>

\* A refused connection attempt opens the same box.
slot_errorConnecting ==
    /\ link = "connecting" /\ Idle
    /\ link' = "off"
    /\ boxes' = Append(boxes, "network")
    /\ UNCHANGED <<window, traffic, ui, server>>

\* `disconnected' follows once the box is closed. The leave button stays as
\* it was, and the login window does not listen.
onDisconnected ==
    /\ input' = (input /\ window # "chat")
    /\ heartbeat' = (heartbeat /\ window # "chat")
    /\ UNCHANGED <<currentRoomId, leaveBtn, requestId>>

\* The top box is closed and the handler that opened it goes on: with its
\* buffer; by creating the chat window, whose buffer is empty and whose
\* timer starts; or with the signal that follows the error.
CloseBox ==
    LET top == boxes[Len(boxes)] IN
    /\ boxes # <<>> /\ ~parsing
    /\ boxes' = SubSeq(boxes, 1, Len(boxes) - 1)
    /\ \/ /\ top = "parse"
          /\ parsing' = TRUE
          /\ UNCHANGED <<window, recvBuf, ui>>
       \/ /\ top = "welcome"
          /\ window' = "chat" /\ recvBuf' = <<>> /\ heartbeat' = TRUE
          /\ UNCHANGED <<parsing, currentRoomId, input, leaveBtn, requestId>>
       \/ /\ top = "network"
          /\ onDisconnected
          /\ UNCHANGED <<window, recvBuf, parsing>>
    /\ UNCHANGED <<link, up, down, server>>

-----------------------------------------------------------------------------
ClientNext ==
    \/ LoginClicked
    \/ LoginConnected
    \/ onCreateRoom
    \/ \E r \in 0 .. MaxServerRoom : onJoinRoom(r)
    \/ onLeaveRoom
    \/ onSendMessage
    \/ sendHeartbeat
    \/ OthersCreate
    \/ \E r \in serverRooms : OthersLeave(r)
    \/ Refuse
    \/ handleLogin
    \/ handleCreateRoom
    \/ handleJoinRoom
    \/ handleLeaveRoom
    \/ handleSendMessage
    \/ handleHeartbeat
    \/ onReadyRead
    \/ parsePacket
    \/ slot_error
    \/ slot_errorConnecting
    \/ CloseBox

ClientSpec == ClientInit /\ [][ClientNext]_clientVars

-----------------------------------------------------------------------------
(* Properties. *)

\* What controls that are as `enabled' says will be once the frames fs are handled:
\* the last create, join or leave answer decides.
Settled(fs, enabled) ==
    LET decides == {i \in 1 .. Len(fs) : fs[i].type \in {"created", "joined", "left"}}
    IN  IF decides = {} THEN enabled
        ELSE LET last == CHOOSE i \in decides : \A j \in decides : j <= i
             IN  fs[last].type # "left"

\* While the connection stands, the send controls, once every answer on its
\* way has been handled, are enabled exactly when the session is in a room:
\* whatever was asked in a row, refused by the rate limit or answered under
\* an open message box (chatwindow.cpp 165-203 against ChatService's
\* setRoomId).
UiAgrees == link = "on" => Settled(recvBuf \o down, input) = (room # 0)

\* With nothing on its way, the client's current room is the session's room
\* (chatwindow.cpp 231: the count shown is that of "the room one is in").
\* The code does not keep it: a refused join, and a leave answered after the
\* next join was typed, leave another number in currentRoomId_.
RoomAgrees ==
    (link = "on" /\ Idle /\ up = <<>> /\ down = <<>> /\ room # 0)
        => currentRoomId = room

=============================================================================
