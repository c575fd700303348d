------------------------------ MODULE ChatRooms ------------------------------
(***************************************************************************)
(* ChatService with Session and Room: who is logged in, which rooms there  *)
(* are, and who is a member of them, in memory and in the table rooms of   *)
(* MySQL, while handlers of different connections and the cleanups of      *)
(* closed connections interleave, statements fail and the server is        *)
(* restarted.                                                              *)
(*                                                                         *)
(* A process is a descriptor number.  Connection shows that the handlers   *)
(* of one connection are serial, that onConnectionClosed() follows the     *)
(* last of them and that the number is free for a new connection only      *)
(* after it; so a descriptor is in one handler or cleanup at a time.  A    *)
(* step is one critical section of rooms_mutex_ or of a Room, or one       *)
(* statement sent to MySQL.  sessions_[fd] and a session's room_id_ are    *)
(* touched by their own connection only and go with the next such step.    *)
(*                                                                         *)
(* Left out, since it changes none of this: responses, broadcasts (see     *)
(* OtherSend in Connection), rate limiting, metrics, and the keys written  *)
(* to Redis, which the server never reads back.                            *)
(***************************************************************************)
EXTENDS Integers, FiniteSets

CONSTANTS
  Fds,          \* descriptor numbers of client connections
  MaxSession,   \* bound: sessions of one run of the server
  MaxRoom,      \* bound: the room ids
  MaxCrash      \* bound: restarts

ASSUME RoomsAssumption ==
  MaxSession \in Nat /\ MaxRoom \in Nat /\ MaxCrash \in Nat

Session == 1..MaxSession
RoomId == 1..MaxRoom

VARIABLES
  conn,         \* "free", "open" or "closing" for every number
  sessions,     \* sessions_: the session under every number, 0 for none
  nextSession,  \* next_session_id_
  roomOf,       \* Session::room_id_, 0 for none
  rooms,        \* the keys of rooms_
  nextRoomId,     \* next_room_id_
  members,      \* Room::members_, of rooms that have been removed as well
  rows,         \* ids in the table rooms
  pc,           \* place in the handler of every number
  mine,         \* its local variable session
  roomId,         \* its local variable room_id
  gone,         \* history: sessions whose cleanup is done
  deserted,     \* history: rooms that are empty since their last member joined another
  crashes       \* restarts so far

sessionVars == <<sessions, nextSession, roomOf>>
roomVars == <<rooms, nextRoomId, members, rows>>
localVars == <<pc, mine, roomId>>
history == <<gone, deserted, crashes>>

chatVars == <<conn, sessionVars, roomVars, localVars, history>>

Place == {"idle", "insert", "list", "create", "leaveOld", "join", "closeLeave",
          "check", "delete"}

ChatTypeOK ==
  /\ conn \in [Fds -> {"free", "open", "closing"}]
  /\ sessions \in [Fds -> Session \cup {0}]
  /\ nextSession \in 1..(MaxSession + 1)
  /\ roomOf \in [Session -> RoomId \cup {0}]
  /\ rooms \subseteq RoomId /\ nextRoomId \in 1..(MaxRoom + 1)
  /\ members \in [RoomId -> SUBSET Session]
  /\ rows \subseteq RoomId
  /\ pc \in [Fds -> Place]
  /\ mine \in [Fds -> Session \cup {0}] /\ roomId \in [Fds -> RoomId \cup {0}]
  /\ gone \subseteq Session /\ deserted \subseteq RoomId
  /\ crashes \in 0..MaxCrash

ChatInit ==
  /\ conn = [fd \in Fds |-> "free"]
  /\ sessions = [fd \in Fds |-> 0] /\ nextSession = 1
  /\ roomOf = [s \in Session |-> 0]
  /\ rooms = {} /\ members = [r \in RoomId |-> {}]
  /\ pc = [fd \in Fds |-> "idle"]
  /\ mine = [fd \in Fds |-> 0] /\ roomId = [fd \in Fds |-> 0]
  /\ gone = {} /\ deserted = {}
  /\ nextRoomId = 1 /\ rows = {} /\ crashes = 0

-----------------------------------------------------------------------------
(* Handlers *)

HandlerAt(fd, p) == pc' = [pc EXCEPT ![fd] = p]

\* A handler of a logged-in connection begins; without a session it only
\* answers "Not logged in".
Enter(fd, p, r) ==
  /\ conn[fd] = "open" /\ pc[fd] = "idle" /\ sessions[fd] # 0
  /\ HandlerAt(fd, p)
  /\ mine' = [mine EXCEPT ![fd] = sessions[fd]]
  /\ roomId' = [roomId EXCEPT ![fd] = r]

\* A handler returns.  When a cleanup returns, its number becomes free.
Return(fd) ==
  /\ HandlerAt(fd, "idle")
  /\ mine' = [mine EXCEPT ![fd] = 0] /\ roomId' = [roomId EXCEPT ![fd] = 0]
  /\ IF conn[fd] = "closing"
     THEN /\ conn' = [conn EXCEPT ![fd] = "free"]
          /\ gone' = gone \cup ({mine[fd]} \ {0})
     ELSE UNCHANGED <<conn, gone>>

\* rooms_.find(r) and, if it is there, removeMember(s).
Removed(s, r) ==
  [q \in RoomId |-> IF q = r /\ q \in rooms THEN members[q] \ {s} ELSE members[q]]

\* handleLogin() with a valid password.  A connection may log in again: the
\* new session takes the place of the old one, which nothing else mentions.
Login(fd) ==
  /\ conn[fd] = "open" /\ pc[fd] = "idle" /\ nextSession <= MaxSession
  /\ sessions' = [sessions EXCEPT ![fd] = nextSession]
  /\ nextSession' = nextSession + 1
  /\ UNCHANGED <<conn, roomOf, roomVars, localVars, history>>

\* handleCreateRoom(): the id is taken before the insert and stays used.
CreateRoom(fd) ==
  /\ nextRoomId <= MaxRoom
  /\ Enter(fd, "insert", nextRoomId)
  /\ nextRoomId' = nextRoomId + 1
  /\ UNCHANGED <<conn, sessionVars, rooms, members, rows, history>>

\* A failed insert is only logged.
InsertIgnored(fd) == HandlerAt(fd, "list") /\ UNCHANGED <<mine, roomId, conn, gone>>

\* Any failure on the way to the insert ends the handler.
InsertFailed(fd) == Return(fd)

\* The insert: it fails on its own account or because the id has a row.
CreateInsert(fd) ==
  /\ pc[fd] = "insert"
  /\ \/ /\ roomId[fd] \notin rows
        /\ rows' = rows \cup {roomId[fd]}
        /\ HandlerAt(fd, "list")
        /\ UNCHANGED <<mine, roomId, conn, gone>>
     \/ InsertFailed(fd) /\ UNCHANGED rows
  /\ UNCHANGED <<sessionVars, rooms, nextRoomId, members, deserted, crashes>>

\* rooms_[room_id] = room, under rooms_mutex_.
CreateList(fd) ==
  /\ pc[fd] = "list"
  /\ rooms' = rooms \cup {roomId[fd]}
  /\ HandlerAt(fd, "create")
  /\ UNCHANGED <<conn, sessionVars, nextRoomId, members, rows, mine, roomId, history>>

\* addMember() and setRoomId().
AddMember(fd) ==
  /\ members' = [members EXCEPT ![roomId[fd]] = @ \cup {mine[fd]}]
  /\ roomOf' = [roomOf EXCEPT ![mine[fd]] = roomId[fd]]
  /\ deserted' = deserted \ {roomId[fd]}

\* The creator becomes a member.  It does not leave the room it may be in.
CreateAdd(fd) ==
  /\ pc[fd] = "create"
  /\ AddMember(fd)
  /\ Return(fd)
  /\ UNCHANGED <<sessions, nextSession, rooms, nextRoomId, rows, crashes>>

\* handleJionRoom(): find the room.  The shared pointer outlives the lock.
JoinRoom(fd, r) ==
  /\ r \in rooms
  /\ Enter(fd, "leaveOld", r)
  /\ UNCHANGED <<conn, sessionVars, roomVars, history>>

\* Leave the old room, if it is still listed.  An empty one is not removed.
JoinLeaveOld(fd) ==
  /\ pc[fd] = "leaveOld"
  /\ LET s   == mine[fd]
         old == roomOf[s]
     IN  /\ members' = Removed(s, old)
         /\ deserted' = deserted \cup
              {r \in RoomId \cap {old} : s \in members[r] /\ members'[r] = {}}
  /\ HandlerAt(fd, "join")
  /\ UNCHANGED <<conn, sessionVars, rooms, nextRoomId, rows, mine, roomId, gone, crashes>>

\* Become a member of the room that was found, listed or not.
JoinAdd(fd) ==
  /\ pc[fd] = "join"
  /\ AddMember(fd)
  /\ Return(fd)
  /\ UNCHANGED <<sessions, nextSession, rooms, nextRoomId, rows, crashes>>

\* The session goes on pointing to the room it has left.
KeepsRoom(s) == roomOf[s]

\* setRoomId(0).
AfterLeaving(s) == 0

\* handleLeaveRoom(): one critical section of rooms_mutex_.
LeaveRoom(fd) ==
  /\ LET s == sessions[fd] IN
       /\ s # 0
       /\ Enter(fd, "check", roomOf[s])
       /\ members' = Removed(s, roomOf[s])
       /\ roomOf' = [roomOf EXCEPT ![s] = AfterLeaving(s)]
  /\ UNCHANGED <<conn, sessions, nextSession, rooms, nextRoomId, rows, history>>

\* memberCount() == 0, and nobody has removed the room before.
Removable(r) == r \in rooms /\ members[r] = {}

\* checkAndRemoveEmptyRoom(): test and erase under rooms_mutex_.
CheckEmpty(fd) ==
  /\ pc[fd] = "check"
  /\ IF Removable(roomId[fd])
     THEN /\ rooms' = rooms \ {roomId[fd]}
          /\ HandlerAt(fd, "delete")
          /\ UNCHANGED <<mine, roomId, conn, gone>>
     ELSE Return(fd) /\ UNCHANGED rooms
  /\ UNCHANGED <<sessionVars, nextRoomId, members, rows, deserted, crashes>>

\* ...then the row is deleted, or stays if MySQL fails.
DeleteRow(fd) ==
  /\ pc[fd] = "delete"
  /\ rows' \in {rows, rows \ {roomId[fd]}}
  /\ Return(fd)
  /\ UNCHANGED <<sessionVars, rooms, nextRoomId, members, deserted, crashes>>

-----------------------------------------------------------------------------
(* Connections and the server *)

\* A new connection gets the number.
AcceptClient(fd) ==
  /\ conn[fd] = "free"
  /\ conn' = [conn EXCEPT ![fd] = "open"]
  /\ UNCHANGED <<sessionVars, roomVars, localVars, history>>

\* onConnectionClosed(): take the session out of sessions_.
CloseConnection(fd) ==
  /\ conn[fd] = "open" /\ pc[fd] = "idle"
  /\ LET s == sessions[fd] IN
       /\ sessions' = [sessions EXCEPT ![fd] = 0]
       /\ IF s # 0
          THEN /\ conn' = [conn EXCEPT ![fd] = "closing"]
               /\ mine' = [mine EXCEPT ![fd] = s]
               /\ HandlerAt(fd, "closeLeave")
          ELSE /\ conn' = [conn EXCEPT ![fd] = "free"]
               /\ UNCHANGED <<mine, pc>>
  /\ UNCHANGED <<nextSession, roomOf, roomVars, roomId, history>>

\* The cleanup ends without looking at the room it has left.
CleanupEnds(fd) == Return(fd)

\* A room was left: see whether it is empty.
CleanupChecks(fd) ==
  /\ HandlerAt(fd, "check")
  /\ roomId' = [roomId EXCEPT ![fd] = roomOf[mine[fd]]]
  /\ UNCHANGED <<mine, conn, gone>>

\* Leave the room, under rooms_mutex_.
CloseLeave(fd) ==
  /\ pc[fd] = "closeLeave"
  /\ LET r == roomOf[mine[fd]] IN
       /\ members' = Removed(mine[fd], r)
       /\ IF r # 0 THEN CleanupChecks(fd) ELSE Return(fd)
  /\ UNCHANGED <<sessionVars, rooms, nextRoomId, rows, deserted, crashes>>

\* What initIdsFromDatabase() may find: the largest id, or no database.
StartIds == {1} \cup {r + 1 : r \in {q \in rows : \A p \in rows : p <= q}}

\* The server dies or is stopped at any point, and starts again.
Restart ==
  /\ crashes < MaxCrash /\ crashes' = crashes + 1
  /\ conn' = [fd \in Fds |-> "free"]
  /\ sessions' = [fd \in Fds |-> 0] /\ nextSession' = 1
  /\ roomOf' = [s \in Session |-> 0]
  /\ rooms' = {} /\ members' = [r \in RoomId |-> {}]
  /\ pc' = [fd \in Fds |-> "idle"]
  /\ mine' = [fd \in Fds |-> 0] /\ roomId' = [fd \in Fds |-> 0]
  /\ gone' = {} /\ deserted' = {}
  /\ nextRoomId' \in StartIds
  /\ UNCHANGED rows

HandlerStep(fd) ==
  \/ CreateInsert(fd) \/ CreateList(fd) \/ CreateAdd(fd)
  \/ JoinLeaveOld(fd) \/ JoinAdd(fd) \/ CloseLeave(fd) \/ CheckEmpty(fd) \/ DeleteRow(fd)

ChatNext ==
  \/ \E fd \in Fds :
       \/ AcceptClient(fd) \/ CloseConnection(fd)
       \/ Login(fd) \/ CreateRoom(fd) \/ LeaveRoom(fd)
       \/ \E r \in RoomId : JoinRoom(fd, r)
       \/ HandlerStep(fd)
  \/ Restart

ChatSpec == ChatInit /\ [][ChatNext]_chatVars

-----------------------------------------------------------------------------
(* Properties *)

\* Between two requests the session's room_id_ and the room agree: the room it
\* names has it as a member (handleJionRoom() on the room the session is in
\* already included), although they are set in separate steps.
InOwnRoom ==
  \A fd \in Fds : LET s == sessions[fd] IN
    conn[fd] = "open" /\ pc[fd] = "idle" /\ s # 0 /\ roomOf[s] # 0
      => s \in members[roomOf[s]]

\* A session whose connection is gone is no longer in the room it named, as
\* long as that room can be found.
GoneFromRoom ==
  \A s \in gone : roomOf[s] \in rooms => s \notin members[roomOf[s]]

\* A number that is free has no session, so that the next connection does not
\* start out logged in as somebody else; and no two connections share one.
SessionsOfConnections ==
  /\ \A fd \in Fds : conn[fd] = "free" => sessions[fd] = 0
  /\ \A fd, gd \in Fds : sessions[fd] = sessions[gd] /\ fd # gd => sessions[fd] = 0
  /\ \A fd \in Fds : sessions[fd] < nextSession /\ sessions[fd] \notin gone

\* Sessions, rooms and connections agree (ChatService's maps, Session::room_id_
\* and Room::members_), whichever way handlers and cleanups interleave.
MembershipInv == ChatTypeOK /\ InOwnRoom /\ GoneFromRoom /\ SessionsOfConnections

\* A room that can be joined has a row in the table rooms: an insert that fails
\* creates no room, and a row is deleted only after its room is off the list,
\* also over a restart that leaves rows of the earlier run behind.
RoomsPersisted == rooms \subseteq rows

\* When no handler is running, a listed room without members is one whose last
\* member went to another room with JOIN_ROOM_REQ: every other way to empty a
\* room, by leaving or by closing, also beside others that join and leave it,
\* removes it (checkAndRemoveEmptyRoom).
EmptyRoomsGo ==
  (\A fd \in Fds : pc[fd] = "idle")
    => \A r \in rooms : members[r] = {} => r \in deserted
=============================================================================
