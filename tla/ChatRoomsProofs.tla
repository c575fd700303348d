--------------------------- MODULE ChatRoomsProofs ---------------------------
(***************************************************************************)
(* Proofs about ChatRooms, for any set of descriptor numbers and any       *)
(* number of sessions, rooms and restarts.                                 *)
(***************************************************************************)
EXTENDS ChatRooms, TLAPS

\* Which session a handler or a cleanup works for.
LocalInv ==
  \A fd \in Fds :
    /\ sessions[fd] < nextSession /\ mine[fd] < nextSession
    /\ pc[fd] = "idle" <=> mine[fd] = 0
    /\ pc[fd] = "idle" => roomId[fd] = 0
    /\ conn[fd] = "free" => sessions[fd] = 0 /\ pc[fd] = "idle"
    /\ conn[fd] = "closing" =>
         sessions[fd] = 0 /\ pc[fd] \in {"closeLeave", "check", "delete"}
    /\ conn[fd] = "open" =>
         /\ pc[fd] # "closeLeave"
         /\ pc[fd] # "idle" => mine[fd] = sessions[fd]

\* A session belongs to one connection, until it is gone.
ApartInv ==
  /\ \A fd, gd \in Fds : fd # gd =>
       /\ sessions[fd] = sessions[gd] => sessions[fd] = 0
       /\ sessions[fd] = mine[gd] => sessions[fd] = 0
       /\ mine[fd] = mine[gd] => mine[fd] = 0
  /\ \A s \in gone :
       s < nextSession /\ \A fd \in Fds : sessions[fd] # s /\ mine[fd] # s

\* A room id that a handler has taken and not listed yet is nobody else's.
NewRoom(fd) == pc[fd] \in {"insert", "list"}

IdsInv ==
  /\ \A r \in rooms : r < nextRoomId
  /\ \A s \in Session : roomOf[s] < nextRoomId
  /\ \A fd \in Fds :
       /\ roomId[fd] < nextRoomId
       /\ pc[fd] \in {"insert", "list", "create", "leaveOld", "join"} => roomId[fd] # 0
       /\ NewRoom(fd) =>
            /\ roomId[fd] \notin rooms
            /\ \A s \in Session : roomOf[s] # roomId[fd]
            /\ \A gd \in Fds : gd # fd => roomId[gd] # roomId[fd]

\* A room has its row from before it is listed until after it is removed.
RowsInv ==
  /\ RoomsPersisted
  /\ \A fd \in Fds : pc[fd] = "list" => roomId[fd] \in rows
  /\ \A fd \in Fds : pc[fd] = "delete" => roomId[fd] \notin rooms

\* InOwnRoom, up to the point of a handler where the session leaves its room, and
\* the way to GoneFromRoom.
BelongInv ==
  /\ \A s \in Session : s >= nextSession => roomOf[s] = 0
  /\ \A fd \in Fds : LET s == sessions[fd] IN
       conn[fd] = "open" /\ s # 0 /\ roomOf[s] # 0 /\ pc[fd] # "join"
         => s \in members[roomOf[s]]
  /\ \A fd \in Fds :
       conn[fd] = "open" /\ pc[fd] \in {"check", "delete"} => roomOf[mine[fd]] = 0
  /\ \A fd \in Fds : LET s == mine[fd] IN
       conn[fd] = "closing" /\ pc[fd] \in {"check", "delete"} /\ roomOf[s] \in rooms
         => s \notin members[roomOf[s]]
  /\ GoneFromRoom

\* An empty room is deserted, or somebody is about to enter it or to check it.
EmptyInv ==
  \A r \in rooms : members[r] = {} =>
    \/ r \in deserted
    \/ \E fd \in Fds : pc[fd] \in {"create", "check"} /\ roomId[fd] = r

RoomsInv ==
  ChatTypeOK /\ LocalInv /\ ApartInv /\ IdsInv /\ RowsInv /\ BelongInv /\ EmptyInv

USE DEF sessionVars, roomVars, localVars, history, HandlerAt, Session, RoomId

\* What a return leaves behind: the handler of an open connection changes its
\* local variables only.
LEMMA ReturnEffect ==
  ASSUME ChatTypeOK, NEW fd \in Fds, Return(fd)
  PROVE  /\ pc' = [pc EXCEPT ![fd] = "idle"]
         /\ mine' = [mine EXCEPT ![fd] = 0] /\ roomId' = [roomId EXCEPT ![fd] = 0]
         /\ conn[fd] # "closing" => conn' = conn /\ gone' = gone
         /\ conn[fd] = "closing" =>
              /\ conn' = [conn EXCEPT ![fd] = "free"]
              /\ gone' = gone \cup ({mine[fd]} \ {0})
BY DEF Return

\* The variables a return changes keep their types.
LEMMA ReturnTypes ==
  ASSUME ChatTypeOK, NEW fd \in Fds, Return(fd)
  PROVE  /\ pc' \in [Fds -> Place] /\ mine' \in [Fds -> Session \cup {0}]
         /\ roomId' \in [Fds -> RoomId \cup {0}] /\ gone' \subseteq Session
         /\ conn' \in [Fds -> {"free", "open", "closing"}]
<1>1. /\ pc' \in [Fds -> Place] /\ mine' \in [Fds -> Session \cup {0}]
      /\ roomId' \in [Fds -> RoomId \cup {0}]
    BY ReturnEffect DEF ChatTypeOK, Place
<1>2. gone' \subseteq Session /\ conn' \in [Fds -> {"free", "open", "closing"}]
  <2>1. CASE conn[fd] = "closing"
    <3>1. {mine[fd]} \ {0} \subseteq Session
        BY DEF ChatTypeOK
    <3> QED BY <2>1, <3>1, ReturnEffect DEF ChatTypeOK
  <2>2. CASE conn[fd] # "closing"
      BY <2>2, ReturnEffect DEF ChatTypeOK
  <2> QED BY <2>1, <2>2
<1> QED BY <1>1, <1>2

\* A handler that creates or joins a room runs on an open connection, for a
\* session and a room.
LEMMA HandlerOpen ==
  ASSUME RoomsInv, NEW fd \in Fds,
         pc[fd] \in {"insert", "list", "create", "leaveOld", "join"}
  PROVE  /\ conn[fd] = "open" /\ mine[fd] = sessions[fd]
         /\ mine[fd] \in Session /\ roomId[fd] \in RoomId
BY DEF RoomsInv, ChatTypeOK, LocalInv, IdsInv

\* Every step keeps the types.
LEMMA TypeStep ==
  ASSUME RoomsInv, [ChatNext]_chatVars PROVE ChatTypeOK'
<1> USE DEF RoomsInv, ChatTypeOK, Place
<1>a. MaxSession \in Nat /\ MaxRoom \in Nat /\ MaxCrash \in Nat
    BY RoomsAssumption
<1>1. ASSUME NEW fd \in Fds, AcceptClient(fd) PROVE ChatTypeOK'
    BY <1>1, <1>a DEF AcceptClient
<1>2. ASSUME NEW fd \in Fds, CloseConnection(fd) PROVE ChatTypeOK'
    BY <1>2, <1>a DEF CloseConnection
<1>3. ASSUME NEW fd \in Fds, Login(fd) PROVE ChatTypeOK'
    BY <1>3, <1>a DEF Login
<1>4. ASSUME NEW fd \in Fds, CreateRoom(fd) PROVE ChatTypeOK'
    BY <1>4, <1>a DEF CreateRoom, Enter
<1>5. ASSUME NEW fd \in Fds, LeaveRoom(fd) PROVE ChatTypeOK'
    BY <1>5, <1>a DEF LeaveRoom, Enter, Removed, AfterLeaving
<1>6. ASSUME NEW fd \in Fds, NEW r \in RoomId, JoinRoom(fd, r) PROVE ChatTypeOK'
    BY <1>6, <1>a DEF JoinRoom, Enter
<1>7. ASSUME NEW fd \in Fds, CreateInsert(fd) PROVE ChatTypeOK'
  <2>1. pc[fd] = "insert" /\ UNCHANGED <<sessionVars, rooms, nextRoomId, members, deserted,
            crashes>>
      BY <1>7, <1>a DEF CreateInsert
  <2>2. CASE Return(fd) /\ UNCHANGED rows
      BY <2>1, <2>2, ReturnTypes
  <2>3. CASE /\ rows' = rows \cup {roomId[fd]} /\ HandlerAt(fd, "list")
             /\ UNCHANGED <<mine, roomId, conn, gone>>
      BY <2>1, <2>3, HandlerOpen
  <2> QED BY <1>7, <1>a, <2>2, <2>3 DEF CreateInsert, InsertFailed
<1>8. ASSUME NEW fd \in Fds, CreateList(fd) PROVE ChatTypeOK'
    BY <1>8, <1>a, HandlerOpen DEF CreateList
<1>9. ASSUME NEW fd \in Fds, CreateAdd(fd) PROVE ChatTypeOK'
  <2>1. /\ mine[fd] \in Session /\ roomId[fd] \in RoomId
        /\ AddMember(fd) /\ Return(fd)
        /\ UNCHANGED <<sessions, nextSession, rooms, nextRoomId, rows, crashes>>
      BY <1>9, <1>a, HandlerOpen DEF CreateAdd
  <2>2. /\ members' \in [RoomId -> SUBSET Session] /\ deserted' \subseteq RoomId
        /\ roomOf' \in [Session -> RoomId \cup {0}]
      BY <2>1 DEF AddMember
  <2> QED BY <2>1, <2>2, ReturnTypes
<1>10. ASSUME NEW fd \in Fds, JoinLeaveOld(fd) PROVE ChatTypeOK'
    BY <1>10, <1>a DEF JoinLeaveOld, Removed
<1>11. ASSUME NEW fd \in Fds, JoinAdd(fd) PROVE ChatTypeOK'
  <2>1. /\ mine[fd] \in Session /\ roomId[fd] \in RoomId
        /\ AddMember(fd) /\ Return(fd)
        /\ UNCHANGED <<sessions, nextSession, rooms, nextRoomId, rows, crashes>>
      BY <1>11, <1>a, HandlerOpen DEF JoinAdd
  <2>2. /\ members' \in [RoomId -> SUBSET Session] /\ deserted' \subseteq RoomId
        /\ roomOf' \in [Session -> RoomId \cup {0}]
      BY <2>1 DEF AddMember
  <2> QED BY <2>1, <2>2, ReturnTypes
<1>12. ASSUME NEW fd \in Fds, CloseLeave(fd) PROVE ChatTypeOK'
  <2>1. /\ members' = Removed(mine[fd], roomOf[mine[fd]])
        /\ UNCHANGED <<sessionVars, rooms, nextRoomId, rows, deserted, crashes>>
        /\ \/ roomOf[mine[fd]] # 0 /\ CleanupChecks(fd)
           \/ Return(fd)
      BY <1>12, <1>a DEF CloseLeave
  <2>2. members' \in [RoomId -> SUBSET Session]
      BY <2>1 DEF Removed
  <2>3. CASE Return(fd)
      BY <2>1, <2>2, <2>3, ReturnTypes
  <2>4. CASE roomOf[mine[fd]] # 0 /\ CleanupChecks(fd)
    <3>1. pc[fd] = "closeLeave"
        BY <1>12, <1>a DEF CloseLeave
    <3>2. mine[fd] \in Session
        BY <3>1 DEF LocalInv
    <3>3. roomOf[mine[fd]] \in RoomId
        BY <2>4, <3>2
    <3> QED BY <2>1, <2>2, <2>4, <3>3 DEF CleanupChecks
  <2> QED BY <2>1, <2>3, <2>4
<1>13. ASSUME NEW fd \in Fds, CheckEmpty(fd) PROVE ChatTypeOK'
  <2>1. UNCHANGED <<sessionVars, nextRoomId, members, rows, deserted, crashes>>
      BY <1>13, <1>a DEF CheckEmpty
  <2>2. CASE Return(fd) /\ UNCHANGED rooms
      BY <2>1, <2>2, ReturnTypes
  <2>3. CASE /\ rooms' = rooms \ {roomId[fd]} /\ HandlerAt(fd, "delete")
             /\ UNCHANGED <<mine, roomId, conn, gone>>
      BY <2>1, <2>3
  <2> QED BY <1>13, <1>a, <2>2, <2>3 DEF CheckEmpty
<1>14. ASSUME NEW fd \in Fds, DeleteRow(fd) PROVE ChatTypeOK'
  <2>1. /\ Return(fd) /\ rows' \subseteq rows
        /\ UNCHANGED <<sessionVars, rooms, nextRoomId, members, deserted, crashes>>
      BY <1>14, <1>a DEF DeleteRow
  <2> QED BY <2>1, ReturnTypes
<1>15. CASE Restart
    BY <1>15, <1>a DEF Restart, StartIds
<1>16. CASE UNCHANGED chatVars
    BY <1>16 DEF chatVars, sessionVars, roomVars, localVars, history
<1> QED
    BY <1>1, <1>2, <1>3, <1>4, <1>5, <1>6, <1>7, <1>8,
       <1>9, <1>10, <1>11, <1>12, <1>13, <1>14, <1>15, <1>16
    DEF ChatNext, HandlerStep

\* Every step keeps the handlers' local variables in order.
LEMMA LocalStep ==
  ASSUME RoomsInv, [ChatNext]_chatVars PROVE LocalInv'
<1> USE DEF RoomsInv, ChatTypeOK, LocalInv
<1>a. MaxSession \in Nat /\ ChatTypeOK'
    BY RoomsAssumption, TypeStep
<1>1. ASSUME NEW fd \in Fds, AcceptClient(fd) PROVE LocalInv'
    BY <1>1, <1>a DEF AcceptClient
<1>2. ASSUME NEW fd \in Fds, CloseConnection(fd) PROVE LocalInv'
    BY <1>2, <1>a DEF CloseConnection
<1>3. ASSUME NEW fd \in Fds, Login(fd) PROVE LocalInv'
    BY <1>3, <1>a DEF Login
<1>4. ASSUME NEW fd \in Fds, CreateRoom(fd) PROVE LocalInv'
    BY <1>4, <1>a DEF CreateRoom, Enter
<1>5. ASSUME NEW fd \in Fds, LeaveRoom(fd) PROVE LocalInv'
    BY <1>5, <1>a DEF LeaveRoom, Enter, Removed, AfterLeaving
<1>6. ASSUME NEW fd \in Fds, NEW r \in RoomId, JoinRoom(fd, r) PROVE LocalInv'
    BY <1>6, <1>a DEF JoinRoom, Enter
<1>7. ASSUME NEW fd \in Fds, CreateInsert(fd) PROVE LocalInv'
    BY <1>7, <1>a DEF CreateInsert, InsertFailed, Return
<1>8. ASSUME NEW fd \in Fds, CreateList(fd) PROVE LocalInv'
    BY <1>8, <1>a DEF CreateList
<1>9. ASSUME NEW fd \in Fds, CreateAdd(fd) PROVE LocalInv'
    BY <1>9, <1>a DEF CreateAdd, AddMember, Return
<1>10. ASSUME NEW fd \in Fds, JoinLeaveOld(fd) PROVE LocalInv'
    BY <1>10, <1>a DEF JoinLeaveOld, Removed
<1>11. ASSUME NEW fd \in Fds, JoinAdd(fd) PROVE LocalInv'
    BY <1>11, <1>a DEF JoinAdd, AddMember, Return
<1>12. ASSUME NEW fd \in Fds, CloseLeave(fd) PROVE LocalInv'
    BY <1>12, <1>a DEF CloseLeave, Removed, CleanupChecks, Return
<1>13. ASSUME NEW fd \in Fds, CheckEmpty(fd) PROVE LocalInv'
    BY <1>13, <1>a DEF CheckEmpty, Removable, Return
<1>14. ASSUME NEW fd \in Fds, DeleteRow(fd) PROVE LocalInv'
    BY <1>14, <1>a DEF DeleteRow, Return
<1>15. CASE Restart
    BY <1>15, <1>a DEF Restart, StartIds
<1>16. CASE UNCHANGED chatVars
    BY <1>16 DEF chatVars, sessionVars, roomVars, localVars, history
<1> QED
    BY <1>1, <1>2, <1>3, <1>4, <1>5, <1>6, <1>7, <1>8,
       <1>9, <1>10, <1>11, <1>12, <1>13, <1>14, <1>15, <1>16
    DEF ChatNext, HandlerStep

\* Every step keeps the sessions apart.
LEMMA ApartStep ==
  ASSUME RoomsInv, [ChatNext]_chatVars PROVE ApartInv'
<1> USE DEF RoomsInv, ChatTypeOK, LocalInv, ApartInv
<1>a. MaxSession \in Nat
    BY RoomsAssumption
<1>1. ASSUME NEW fd \in Fds, AcceptClient(fd) PROVE ApartInv'
    BY <1>1, <1>a DEF AcceptClient
<1>2. ASSUME NEW fd \in Fds, CloseConnection(fd) PROVE ApartInv'
    BY <1>2, <1>a DEF CloseConnection
<1>3. ASSUME NEW fd \in Fds, Login(fd) PROVE ApartInv'
    BY <1>3, <1>a DEF Login
<1>4. ASSUME NEW fd \in Fds, CreateRoom(fd) PROVE ApartInv'
    BY <1>4, <1>a DEF CreateRoom, Enter
<1>5. ASSUME NEW fd \in Fds, LeaveRoom(fd) PROVE ApartInv'
    BY <1>5, <1>a DEF LeaveRoom, Enter, Removed, AfterLeaving
<1>6. ASSUME NEW fd \in Fds, NEW r \in RoomId, JoinRoom(fd, r) PROVE ApartInv'
    BY <1>6, <1>a DEF JoinRoom, Enter
<1>7. ASSUME NEW fd \in Fds, CreateInsert(fd) PROVE ApartInv'
  <2>1. conn[fd] = "open"
      BY <1>7, <1>a, HandlerOpen DEF CreateInsert
  <2>2. UNCHANGED <<conn, gone, sessions, nextSession>>
      BY <1>7, <1>a, <2>1, ReturnEffect DEF CreateInsert, InsertFailed
  <2>3. \A gd \in Fds : mine'[gd] \in {0, mine[gd]}
      BY <1>7, <1>a, ReturnEffect DEF CreateInsert, InsertFailed
  <2> QED BY <1>7, <1>a, <2>2, <2>3
<1>8. ASSUME NEW fd \in Fds, CreateList(fd) PROVE ApartInv'
    BY <1>8, <1>a DEF CreateList
<1>9. ASSUME NEW fd \in Fds, CreateAdd(fd) PROVE ApartInv'
  <2>1. conn[fd] = "open"
      BY <1>9, <1>a, HandlerOpen DEF CreateAdd
  <2>2. UNCHANGED <<conn, gone, sessions, nextSession>>
      BY <1>9, <1>a, <2>1, ReturnEffect DEF CreateAdd, InsertFailed
  <2>3. \A gd \in Fds : mine'[gd] \in {0, mine[gd]}
      BY <1>9, <1>a, ReturnEffect DEF CreateAdd, InsertFailed
  <2> QED BY <1>9, <1>a, <2>2, <2>3
<1>10. ASSUME NEW fd \in Fds, JoinLeaveOld(fd) PROVE ApartInv'
    BY <1>10, <1>a DEF JoinLeaveOld, Removed
<1>11. ASSUME NEW fd \in Fds, JoinAdd(fd) PROVE ApartInv'
  <2>1. conn[fd] = "open"
      BY <1>11, <1>a, HandlerOpen DEF JoinAdd
  <2>2. UNCHANGED <<conn, gone, sessions, nextSession>>
      BY <1>11, <1>a, <2>1, ReturnEffect DEF JoinAdd, InsertFailed
  <2>3. \A gd \in Fds : mine'[gd] \in {0, mine[gd]}
      BY <1>11, <1>a, ReturnEffect DEF JoinAdd, InsertFailed
  <2> QED BY <1>11, <1>a, <2>2, <2>3
<1>12. ASSUME NEW fd \in Fds, CloseLeave(fd) PROVE ApartInv'
  <2>1. UNCHANGED <<sessions, nextSession>> /\ mine[fd] # 0
      BY <1>12, <1>a DEF CloseLeave
  <2>2. \/ UNCHANGED <<mine, gone>>
        \/ mine' = [mine EXCEPT ![fd] = 0] /\ gone' = gone
        \/ /\ mine' = [mine EXCEPT ![fd] = 0] /\ gone' = gone \cup {mine[fd]}
           /\ conn[fd] = "closing"
      BY <1>12, <1>a, <2>1, ReturnEffect DEF CloseLeave, CleanupChecks
  <2>3. CASE UNCHANGED <<mine, gone>>
      BY <2>1, <2>3
  <2>4. CASE mine' = [mine EXCEPT ![fd] = 0] /\ gone' = gone
      BY <2>1, <2>4
  <2>5. CASE /\ mine' = [mine EXCEPT ![fd] = 0] /\ gone' = gone \cup {mine[fd]}
             /\ conn[fd] = "closing"
    <3>1. sessions[fd] # mine[fd] /\ mine[fd] < nextSession
        BY <2>1, <2>5
    <3>2. \A gd \in Fds : sessions[gd] # mine[fd]
        BY <2>1, <3>1
    <3>3. \A gd \in Fds : mine'[gd] # mine[fd]
        BY <2>1, <2>5
    <3> QED BY <2>1, <2>5, <3>1, <3>2, <3>3
  <2> QED BY <2>2, <2>3, <2>4, <2>5
<1>13. ASSUME NEW fd \in Fds, CheckEmpty(fd) PROVE ApartInv'
  <2>1. UNCHANGED <<sessions, nextSession>> /\ mine[fd] # 0
      BY <1>13, <1>a DEF CheckEmpty
  <2>2. \/ UNCHANGED <<mine, gone>>
        \/ mine' = [mine EXCEPT ![fd] = 0] /\ gone' = gone
        \/ /\ mine' = [mine EXCEPT ![fd] = 0] /\ gone' = gone \cup {mine[fd]}
           /\ conn[fd] = "closing"
      BY <1>13, <1>a, <2>1, ReturnEffect DEF CheckEmpty, CleanupChecks
  <2>3. CASE UNCHANGED <<mine, gone>>
      BY <2>1, <2>3
  <2>4. CASE mine' = [mine EXCEPT ![fd] = 0] /\ gone' = gone
      BY <2>1, <2>4
  <2>5. CASE /\ mine' = [mine EXCEPT ![fd] = 0] /\ gone' = gone \cup {mine[fd]}
             /\ conn[fd] = "closing"
    <3>1. sessions[fd] # mine[fd] /\ mine[fd] < nextSession
        BY <2>1, <2>5
    <3>2. \A gd \in Fds : sessions[gd] # mine[fd]
        BY <2>1, <3>1
    <3>3. \A gd \in Fds : mine'[gd] # mine[fd]
        BY <2>1, <2>5
    <3> QED BY <2>1, <2>5, <3>1, <3>2, <3>3
  <2> QED BY <2>2, <2>3, <2>4, <2>5
<1>14. ASSUME NEW fd \in Fds, DeleteRow(fd) PROVE ApartInv'
  <2>1. UNCHANGED <<sessions, nextSession>> /\ mine[fd] # 0
      BY <1>14, <1>a DEF DeleteRow
  <2>2. \/ UNCHANGED <<mine, gone>>
        \/ mine' = [mine EXCEPT ![fd] = 0] /\ gone' = gone
        \/ /\ mine' = [mine EXCEPT ![fd] = 0] /\ gone' = gone \cup {mine[fd]}
           /\ conn[fd] = "closing"
      BY <1>14, <1>a, <2>1, ReturnEffect DEF DeleteRow, CleanupChecks
  <2>3. CASE UNCHANGED <<mine, gone>>
      BY <2>1, <2>3
  <2>4. CASE mine' = [mine EXCEPT ![fd] = 0] /\ gone' = gone
      BY <2>1, <2>4
  <2>5. CASE /\ mine' = [mine EXCEPT ![fd] = 0] /\ gone' = gone \cup {mine[fd]}
             /\ conn[fd] = "closing"
    <3>1. sessions[fd] # mine[fd] /\ mine[fd] < nextSession
        BY <2>1, <2>5
    <3>2. \A gd \in Fds : sessions[gd] # mine[fd]
        BY <2>1, <3>1
    <3>3. \A gd \in Fds : mine'[gd] # mine[fd]
        BY <2>1, <2>5
    <3> QED BY <2>1, <2>5, <3>1, <3>2, <3>3
  <2> QED BY <2>2, <2>3, <2>4, <2>5
<1>15. CASE Restart
    BY <1>15, <1>a DEF Restart, StartIds
<1>16. CASE UNCHANGED chatVars
    BY <1>16 DEF chatVars, sessionVars, roomVars, localVars, history
<1> QED
    BY <1>1, <1>2, <1>3, <1>4, <1>5, <1>6, <1>7, <1>8,
       <1>9, <1>10, <1>11, <1>12, <1>13, <1>14, <1>15, <1>16
    DEF ChatNext, HandlerStep

\* Every step keeps the ids of new rooms unused.
LEMMA IdsStep ==
  ASSUME RoomsInv, [ChatNext]_chatVars PROVE IdsInv'
<1> USE DEF RoomsInv, ChatTypeOK, IdsInv, NewRoom
<1>a. MaxRoom \in Nat
    BY RoomsAssumption
<1>1. ASSUME NEW fd \in Fds, AcceptClient(fd) PROVE IdsInv'
    BY <1>1, <1>a DEF AcceptClient
<1>2. ASSUME NEW fd \in Fds, CloseConnection(fd) PROVE IdsInv'
    BY <1>2, <1>a DEF CloseConnection
<1>3. ASSUME NEW fd \in Fds, Login(fd) PROVE IdsInv'
    BY <1>3, <1>a DEF Login
<1>4. ASSUME NEW fd \in Fds, CreateRoom(fd) PROVE IdsInv'
  <2>1. /\ nextRoomId' = nextRoomId + 1 /\ nextRoomId \in Nat
        /\ pc' = [pc EXCEPT ![fd] = "insert"] /\ roomId' = [roomId EXCEPT ![fd] = nextRoomId]
        /\ UNCHANGED <<rooms, roomOf>> /\ pc[fd] = "idle"
      BY <1>4, <1>a DEF CreateRoom, Enter
  <2>t. /\ \A r \in rooms : r \in Nat
        /\ \A s \in Session : roomOf[s] \in Nat
        /\ \A gd \in Fds : roomId[gd] \in Nat
      BY <1>a
  <2>2. /\ \A r \in rooms : r < nextRoomId + 1 /\ r # nextRoomId
        /\ \A s \in Session : roomOf[s] < nextRoomId + 1 /\ roomOf[s] # nextRoomId
        /\ \A gd \in Fds : roomId[gd] < nextRoomId + 1 /\ roomId[gd] # nextRoomId
      BY <2>1, <2>t
  <2> QED BY <2>1, <2>2
<1>5. ASSUME NEW fd \in Fds, LeaveRoom(fd) PROVE IdsInv'
    BY <1>5, <1>a DEF LeaveRoom, Enter, Removed, AfterLeaving
<1>6. ASSUME NEW fd \in Fds, NEW r \in RoomId, JoinRoom(fd, r) PROVE IdsInv'
    BY <1>6, <1>a DEF JoinRoom, Enter
<1>7. ASSUME NEW fd \in Fds, CreateInsert(fd) PROVE IdsInv'
    BY <1>7, <1>a DEF CreateInsert, InsertFailed, Return
<1>8. ASSUME NEW fd \in Fds, CreateList(fd) PROVE IdsInv'
    BY <1>8, <1>a DEF CreateList
<1>9. ASSUME NEW fd \in Fds, CreateAdd(fd) PROVE IdsInv'
    BY <1>9, <1>a DEF CreateAdd, AddMember, Return
<1>10. ASSUME NEW fd \in Fds, JoinLeaveOld(fd) PROVE IdsInv'
    BY <1>10, <1>a DEF JoinLeaveOld, Removed
<1>11. ASSUME NEW fd \in Fds, JoinAdd(fd) PROVE IdsInv'
    BY <1>11, <1>a DEF JoinAdd, AddMember, Return
<1>12. ASSUME NEW fd \in Fds, CloseLeave(fd) PROVE IdsInv'
  <2>1. UNCHANGED <<rooms, roomOf, nextRoomId>> /\ pc[fd] = "closeLeave"
      BY <1>12, <1>a DEF CloseLeave
  <2>2. mine[fd] \in Session
      BY <2>1 DEF LocalInv
  <2>3. \E p \in {"check", "idle"}, r \in {0, roomOf[mine[fd]]} :
          pc' = [pc EXCEPT ![fd] = p] /\ roomId' = [roomId EXCEPT ![fd] = r]
      BY <1>12, <1>a, ReturnEffect DEF CloseLeave, CleanupChecks
  <2>4. 0 < nextRoomId /\ roomOf[mine[fd]] < nextRoomId
      BY <2>2
  <2> QED BY <2>1, <2>2, <2>3, <2>4
<1>13. ASSUME NEW fd \in Fds, CheckEmpty(fd) PROVE IdsInv'
  <2>1. UNCHANGED <<roomOf, nextRoomId>> /\ pc[fd] = "check" /\ rooms' \subseteq rooms
      BY <1>13, <1>a DEF CheckEmpty
  <2>2. \E p \in {"delete", "idle"}, r \in {0, roomId[fd]} :
          pc' = [pc EXCEPT ![fd] = p] /\ roomId' = [roomId EXCEPT ![fd] = r]
      BY <1>13, <1>a, ReturnEffect DEF CheckEmpty
  <2>3. 0 < nextRoomId
      OBVIOUS
  <2> QED BY <2>1, <2>2, <2>3
<1>14. ASSUME NEW fd \in Fds, DeleteRow(fd) PROVE IdsInv'
    BY <1>14, <1>a DEF DeleteRow, Return
<1>15. CASE Restart
    BY <1>15, <1>a DEF Restart, StartIds
<1>16. CASE UNCHANGED chatVars
    BY <1>16 DEF chatVars, sessionVars, roomVars, localVars, history
<1> QED
    BY <1>1, <1>2, <1>3, <1>4, <1>5, <1>6, <1>7, <1>8,
       <1>9, <1>10, <1>11, <1>12, <1>13, <1>14, <1>15, <1>16
    DEF ChatNext, HandlerStep

\* Every step keeps listed rooms in the table.
LEMMA RowsStep ==
  ASSUME RoomsInv, [ChatNext]_chatVars PROVE RowsInv'
<1> USE DEF RoomsInv, ChatTypeOK, IdsInv, NewRoom, RowsInv, RoomsPersisted
<1>1. ASSUME NEW fd \in Fds, AcceptClient(fd) PROVE RowsInv'
    BY <1>1 DEF AcceptClient
<1>2. ASSUME NEW fd \in Fds, CloseConnection(fd) PROVE RowsInv'
    BY <1>2 DEF CloseConnection
<1>3. ASSUME NEW fd \in Fds, Login(fd) PROVE RowsInv'
    BY <1>3 DEF Login
<1>4. ASSUME NEW fd \in Fds, CreateRoom(fd) PROVE RowsInv'
    BY <1>4 DEF CreateRoom, Enter
<1>5. ASSUME NEW fd \in Fds, LeaveRoom(fd) PROVE RowsInv'
    BY <1>5 DEF LeaveRoom, Enter, Removed, AfterLeaving
<1>6. ASSUME NEW fd \in Fds, NEW r \in RoomId, JoinRoom(fd, r) PROVE RowsInv'
    BY <1>6 DEF JoinRoom, Enter
<1>7. ASSUME NEW fd \in Fds, CreateInsert(fd) PROVE RowsInv'
    BY <1>7 DEF CreateInsert, InsertFailed, Return
<1>8. ASSUME NEW fd \in Fds, CreateList(fd) PROVE RowsInv'
    BY <1>8 DEF CreateList
<1>9. ASSUME NEW fd \in Fds, CreateAdd(fd) PROVE RowsInv'
    BY <1>9 DEF CreateAdd, AddMember, Return
<1>10. ASSUME NEW fd \in Fds, JoinLeaveOld(fd) PROVE RowsInv'
    BY <1>10 DEF JoinLeaveOld, Removed
<1>11. ASSUME NEW fd \in Fds, JoinAdd(fd) PROVE RowsInv'
    BY <1>11 DEF JoinAdd, AddMember, Return
<1>12. ASSUME NEW fd \in Fds, CloseLeave(fd) PROVE RowsInv'
    BY <1>12 DEF CloseLeave, Removed, CleanupChecks, Return
<1>13. ASSUME NEW fd \in Fds, CheckEmpty(fd) PROVE RowsInv'
    BY <1>13 DEF CheckEmpty, Removable, Return
<1>14. ASSUME NEW fd \in Fds, DeleteRow(fd) PROVE RowsInv'
    BY <1>14 DEF DeleteRow, Return
<1>15. CASE Restart
    BY <1>15 DEF Restart, StartIds
<1>16. CASE UNCHANGED chatVars
    BY <1>16 DEF chatVars, sessionVars, roomVars, localVars, history
<1> QED
    BY <1>1, <1>2, <1>3, <1>4, <1>5, <1>6, <1>7, <1>8,
       <1>9, <1>10, <1>11, <1>12, <1>13, <1>14, <1>15, <1>16
    DEF ChatNext, HandlerStep

\* Every step keeps sessions and rooms in agreement.
LEMMA BelongStep ==
  ASSUME RoomsInv, [ChatNext]_chatVars PROVE BelongInv'
<1> USE DEF RoomsInv, ChatTypeOK, LocalInv, ApartInv, IdsInv, NewRoom, BelongInv, GoneFromRoom
<1>a. MaxSession \in Nat
    BY RoomsAssumption
<1>1. ASSUME NEW fd \in Fds, AcceptClient(fd) PROVE BelongInv'
    BY <1>1, <1>a DEF AcceptClient
<1>2. ASSUME NEW fd \in Fds, CloseConnection(fd) PROVE BelongInv'
    BY <1>2, <1>a DEF CloseConnection
<1>3. ASSUME NEW fd \in Fds, Login(fd) PROVE BelongInv'
    BY <1>3, <1>a DEF Login
<1>4. ASSUME NEW fd \in Fds, CreateRoom(fd) PROVE BelongInv'
    BY <1>4, <1>a DEF CreateRoom, Enter
<1>5. ASSUME NEW fd \in Fds, LeaveRoom(fd) PROVE BelongInv'
    BY <1>5, <1>a DEF LeaveRoom, Enter, Removed, AfterLeaving
<1>6. ASSUME NEW fd \in Fds, NEW r \in RoomId, JoinRoom(fd, r) PROVE BelongInv'
    BY <1>6, <1>a DEF JoinRoom, Enter
<1>7. ASSUME NEW fd \in Fds, CreateInsert(fd) PROVE BelongInv'
  <2>1. /\ conn[fd] = "open" /\ pc[fd] = "insert"
        /\ UNCHANGED <<sessionVars, rooms, members>>
      BY <1>7, <1>a, HandlerOpen DEF CreateInsert
  <2>2. /\ UNCHANGED <<conn, gone>>
        /\ \E p \in {"idle", "list"}, s \in {0, mine[fd]} :
             pc' = [pc EXCEPT ![fd] = p] /\ mine' = [mine EXCEPT ![fd] = s]
      BY <1>7, <1>a, <2>1, ReturnEffect DEF CreateInsert, InsertFailed
  <2> QED BY <2>1, <2>2
<1>8. ASSUME NEW fd \in Fds, CreateList(fd) PROVE BelongInv'
    BY <1>8, <1>a DEF CreateList
<1>9. ASSUME NEW fd \in Fds, CreateAdd(fd) PROVE BelongInv'
  <2> DEFINE s == mine[fd]
  <2>1. /\ conn[fd] = "open" /\ s = sessions[fd] /\ s \in Session /\ roomId[fd] \in RoomId
        /\ pc[fd] = "create" /\ UNCHANGED <<sessions, nextSession, rooms>>
      BY <1>9, <1>a, HandlerOpen DEF CreateAdd
  <2>2. /\ UNCHANGED <<conn, gone>>
        /\ pc' = [pc EXCEPT ![fd] = "idle"] /\ mine' = [mine EXCEPT ![fd] = 0]
      BY <1>9, <1>a, <2>1, ReturnEffect DEF CreateAdd
  <2>3. /\ members' = [members EXCEPT ![roomId[fd]] = @ \cup {s}]
        /\ roomOf' = [roomOf EXCEPT ![s] = roomId[fd]]
      BY <1>9, <1>a DEF CreateAdd, AddMember
  <2>4. s < nextSession /\ s \notin gone
      BY <2>1
  <2>5. \A gd \in Fds : gd # fd => sessions[gd] # s /\ mine[gd] # s
      BY <2>1
  <2> HIDE DEF s
  <2>6. /\ \A q \in Session : q # s => roomOf'[q] = roomOf[q]
        /\ roomOf'[s] = roomId[fd] /\ s \in members'[roomId[fd]]
        /\ \A r \in RoomId, q \in Session : q # s =>
             (q \in members'[r] <=> q \in members[r])
      BY <2>1, <2>3
  <2>7. \A q \in Session : q >= nextSession' => roomOf'[q] = 0
      BY <2>1, <2>4, <2>6
  <2>8. ASSUME NEW gd \in Fds, conn'[gd] = "open", sessions'[gd] # 0,
               roomOf'[sessions'[gd]] # 0, pc'[gd] # "join"
        PROVE  sessions'[gd] \in members'[roomOf'[sessions'[gd]]]
    <3>1. CASE gd = fd
        BY <2>1, <2>6, <3>1
    <3>2. CASE gd # fd
        BY <2>1, <2>2, <2>5, <2>6, <2>8, <3>2
    <3> QED BY <3>1, <3>2
  <2>9. ASSUME NEW gd \in Fds, pc'[gd] \in {"check", "delete"}
        PROVE  /\ conn'[gd] = "open" => roomOf'[mine'[gd]] = 0
               /\ conn'[gd] = "closing" /\ roomOf'[mine'[gd]] \in rooms'
                    => mine'[gd] \notin members'[roomOf'[mine'[gd]]]
    <3>1. gd # fd /\ mine'[gd] = mine[gd] /\ pc'[gd] = pc[gd] /\ mine[gd] \in Session
        BY <2>2, <2>9
    <3> QED BY <2>1, <2>2, <2>5, <2>6, <2>9, <3>1
  <2>10. GoneFromRoom'
      BY <2>1, <2>2, <2>4, <2>6
  <2> QED BY <2>7, <2>8, <2>9, <2>10
<1>10. ASSUME NEW fd \in Fds, JoinLeaveOld(fd) PROVE BelongInv'
    BY <1>10, <1>a DEF JoinLeaveOld, Removed
<1>11. ASSUME NEW fd \in Fds, JoinAdd(fd) PROVE BelongInv'
  <2> DEFINE s == mine[fd]
  <2>1. /\ conn[fd] = "open" /\ s = sessions[fd] /\ s \in Session /\ roomId[fd] \in RoomId
        /\ pc[fd] = "join" /\ UNCHANGED <<sessions, nextSession, rooms>>
      BY <1>11, <1>a, HandlerOpen DEF JoinAdd
  <2>2. /\ UNCHANGED <<conn, gone>>
        /\ pc' = [pc EXCEPT ![fd] = "idle"] /\ mine' = [mine EXCEPT ![fd] = 0]
      BY <1>11, <1>a, <2>1, ReturnEffect DEF JoinAdd
  <2>3. /\ members' = [members EXCEPT ![roomId[fd]] = @ \cup {s}]
        /\ roomOf' = [roomOf EXCEPT ![s] = roomId[fd]]
      BY <1>11, <1>a DEF JoinAdd, AddMember
  <2>4. s < nextSession /\ s \notin gone
      BY <2>1
  <2>5. \A gd \in Fds : gd # fd => sessions[gd] # s /\ mine[gd] # s
      BY <2>1
  <2> HIDE DEF s
  <2>6. /\ \A q \in Session : q # s => roomOf'[q] = roomOf[q]
        /\ roomOf'[s] = roomId[fd] /\ s \in members'[roomId[fd]]
        /\ \A r \in RoomId, q \in Session : q # s =>
             (q \in members'[r] <=> q \in members[r])
      BY <2>1, <2>3
  <2>7. \A q \in Session : q >= nextSession' => roomOf'[q] = 0
      BY <2>1, <2>4, <2>6
  <2>8. ASSUME NEW gd \in Fds, conn'[gd] = "open", sessions'[gd] # 0,
               roomOf'[sessions'[gd]] # 0, pc'[gd] # "join"
        PROVE  sessions'[gd] \in members'[roomOf'[sessions'[gd]]]
    <3>1. CASE gd = fd
        BY <2>1, <2>6, <3>1
    <3>2. CASE gd # fd
        BY <2>1, <2>2, <2>5, <2>6, <2>8, <3>2
    <3> QED BY <3>1, <3>2
  <2>9. ASSUME NEW gd \in Fds, pc'[gd] \in {"check", "delete"}
        PROVE  /\ conn'[gd] = "open" => roomOf'[mine'[gd]] = 0
               /\ conn'[gd] = "closing" /\ roomOf'[mine'[gd]] \in rooms'
                    => mine'[gd] \notin members'[roomOf'[mine'[gd]]]
    <3>1. gd # fd /\ mine'[gd] = mine[gd] /\ pc'[gd] = pc[gd] /\ mine[gd] \in Session
        BY <2>2, <2>9
    <3> QED BY <2>1, <2>2, <2>5, <2>6, <2>9, <3>1
  <2>10. GoneFromRoom'
      BY <2>1, <2>2, <2>4, <2>6
  <2> QED BY <2>7, <2>8, <2>9, <2>10
<1>12. ASSUME NEW fd \in Fds, CloseLeave(fd) PROVE BelongInv'
  <2> DEFINE s == mine[fd]
             r == roomOf[s]
  <2>1. /\ pc[fd] = "closeLeave" /\ conn[fd] = "closing" /\ s \in Session
        /\ UNCHANGED <<sessions, nextSession, roomOf, rooms>>
        /\ members' = Removed(s, r)
      BY <1>12, <1>a DEF CloseLeave
  <2>2. \/ /\ r # 0 /\ UNCHANGED <<conn, gone, mine>> /\ pc' = [pc EXCEPT ![fd] = "check"]
        \/ /\ r = 0 /\ conn' = [conn EXCEPT ![fd] = "free"] /\ gone' = gone \cup {s}
           /\ pc' = [pc EXCEPT ![fd] = "idle"] /\ mine' = [mine EXCEPT ![fd] = 0]
      BY <1>12, <1>a, <2>1, ReturnEffect DEF CloseLeave, CleanupChecks
  <2>3. \A gd \in Fds : sessions[gd] # s /\ (gd # fd => mine[gd] # s)
      BY <2>1
  <2>4. /\ r \in rooms => s \notin members'[r]
        /\ \A q \in RoomId : /\ members'[q] \subseteq members[q]
                             /\ \A p \in Session : p # s /\ p \in members[q] => p \in members'[q]
      BY <2>1 DEF Removed
  <2>5. r \in RoomId \cup {0} /\ 0 \notin rooms
      BY <2>1
  <2> HIDE DEF s
  <2>6. ASSUME NEW gd \in Fds, conn'[gd] = "open", sessions'[gd] # 0,
               roomOf'[sessions'[gd]] # 0, pc'[gd] # "join"
        PROVE  sessions'[gd] \in members'[roomOf'[sessions'[gd]]]
    <3>1. gd # fd /\ conn[gd] = "open" /\ pc'[gd] = pc[gd]
        BY <2>1, <2>2, <2>6
    <3>2. sessions[gd] \in Session /\ sessions[gd] # s /\ roomOf[sessions[gd]] \in RoomId
        BY <2>1, <2>3, <2>6
    <3>3. sessions[gd] \in members[roomOf[sessions[gd]]]
        BY <2>1, <2>6, <3>1
    <3> QED BY <2>1, <2>4, <3>2, <3>3
  <2>7. ASSUME NEW gd \in Fds, conn'[gd] = "open", pc'[gd] \in {"check", "delete"}
        PROVE  roomOf'[mine'[gd]] = 0
    <3>1. gd # fd
        BY <2>1, <2>2, <2>7
    <3> QED BY <2>1, <2>2, <2>7, <3>1
  <2>8. ASSUME NEW gd \in Fds, conn'[gd] = "closing", pc'[gd] \in {"check", "delete"},
               roomOf'[mine'[gd]] \in rooms'
        PROVE  mine'[gd] \notin members'[roomOf'[mine'[gd]]]
    <3>1. CASE gd = fd
        BY <2>1, <2>2, <2>4, <2>8, <3>1 DEF s
    <3>2. CASE gd # fd
        BY <2>1, <2>2, <2>4, <2>8, <3>2
    <3> QED BY <3>1, <3>2
  <2>9. ASSUME NEW p \in gone', roomOf'[p] \in rooms'
        PROVE  p \notin members'[roomOf'[p]]
    <3>1. CASE p \in gone
        BY <2>1, <2>4, <2>9, <3>1
    <3>2. CASE p = s
        BY <2>1, <2>4, <2>9, <3>2
    <3> QED BY <2>2, <3>1, <3>2
  <2>10. \A q \in Session : q >= nextSession' => roomOf'[q] = 0
      BY <2>1
  <2> QED BY <2>6, <2>7, <2>8, <2>9, <2>10
<1>13. ASSUME NEW fd \in Fds, CheckEmpty(fd) PROVE BelongInv'
  <2> DEFINE s == mine[fd]
  <2>1. /\ pc[fd] = "check" /\ s \in Session /\ rooms' \subseteq rooms
        /\ UNCHANGED <<sessionVars, members>>
      BY <1>13, <1>a DEF CheckEmpty
  <2>2. \/ UNCHANGED <<conn, gone, mine>> /\ pc' = [pc EXCEPT ![fd] = "delete"]
        \/ /\ pc' = [pc EXCEPT ![fd] = "idle"] /\ mine' = [mine EXCEPT ![fd] = 0]
           /\ conn[fd] = "closing" =>
                conn' = [conn EXCEPT ![fd] = "free"] /\ gone' = gone \cup {s}
           /\ conn[fd] # "closing" => UNCHANGED <<conn, gone>>
      BY <1>13, <1>a, <2>1, ReturnEffect DEF CheckEmpty
  <2>3. conn[fd] = "open" => s = sessions[fd] /\ roomOf[s] = 0
      BY <2>1
  <2>4. conn[fd] = "closing" /\ roomOf[s] \in rooms => s \notin members[roomOf[s]]
      BY <2>1
  <2> HIDE DEF s
  <2>5. ASSUME NEW gd \in Fds, conn'[gd] = "open", sessions'[gd] # 0,
               roomOf'[sessions'[gd]] # 0, pc'[gd] # "join"
        PROVE  sessions'[gd] \in members'[roomOf'[sessions'[gd]]]
    <3>1. conn[gd] = "open" /\ pc[gd] # "join"
        BY <2>1, <2>2, <2>5
    <3> QED BY <2>1, <2>5, <3>1
  <2>6. ASSUME NEW gd \in Fds, pc'[gd] \in {"check", "delete"}
        PROVE  /\ conn'[gd] = "open" => roomOf'[mine'[gd]] = 0
               /\ conn'[gd] = "closing" /\ roomOf'[mine'[gd]] \in rooms'
                    => mine'[gd] \notin members'[roomOf'[mine'[gd]]]
    <3>1. mine'[gd] = mine[gd] /\ conn'[gd] = conn[gd] /\ pc[gd] \in {"check", "delete"}
        BY <2>1, <2>2, <2>6
    <3> QED BY <2>1, <3>1
  <2>7. ASSUME NEW q \in gone', roomOf'[q] \in rooms'
        PROVE  q \notin members'[roomOf'[q]]
    <3>1. CASE q \in gone
        BY <2>1, <2>7, <3>1
    <3>2. CASE q = s /\ conn[fd] = "closing"
        BY <2>1, <2>4, <2>7, <3>2
    <3> QED BY <2>2, <2>7, <3>1, <3>2
  <2>8. \A q \in Session : q >= nextSession' => roomOf'[q] = 0
      BY <2>1
  <2> QED BY <2>5, <2>6, <2>7, <2>8
<1>14. ASSUME NEW fd \in Fds, DeleteRow(fd) PROVE BelongInv'
  <2> DEFINE s == mine[fd]
  <2>1. /\ pc[fd] = "delete" /\ s \in Session /\ rooms' \subseteq rooms
        /\ UNCHANGED <<sessionVars, members>>
      BY <1>14, <1>a DEF DeleteRow
  <2>2. /\ pc' = [pc EXCEPT ![fd] = "idle"] /\ mine' = [mine EXCEPT ![fd] = 0]
        /\ conn[fd] = "closing" =>
             conn' = [conn EXCEPT ![fd] = "free"] /\ gone' = gone \cup {s}
        /\ conn[fd] # "closing" => UNCHANGED <<conn, gone>>
      BY <1>14, <1>a, <2>1, ReturnEffect DEF DeleteRow
  <2>3. conn[fd] = "open" => s = sessions[fd] /\ roomOf[s] = 0
      BY <2>1
  <2>4. conn[fd] = "closing" /\ roomOf[s] \in rooms => s \notin members[roomOf[s]]
      BY <2>1
  <2> HIDE DEF s
  <2>5. ASSUME NEW gd \in Fds, conn'[gd] = "open", sessions'[gd] # 0,
               roomOf'[sessions'[gd]] # 0, pc'[gd] # "join"
        PROVE  sessions'[gd] \in members'[roomOf'[sessions'[gd]]]
    <3>1. conn[gd] = "open" /\ pc[gd] # "join"
        BY <2>1, <2>2, <2>5
    <3> QED BY <2>1, <2>5, <3>1
  <2>6. ASSUME NEW gd \in Fds, pc'[gd] \in {"check", "delete"}
        PROVE  /\ conn'[gd] = "open" => roomOf'[mine'[gd]] = 0
               /\ conn'[gd] = "closing" /\ roomOf'[mine'[gd]] \in rooms'
                    => mine'[gd] \notin members'[roomOf'[mine'[gd]]]
    <3>1. mine'[gd] = mine[gd] /\ conn'[gd] = conn[gd] /\ pc[gd] \in {"check", "delete"}
        BY <2>1, <2>2, <2>6
    <3> QED BY <2>1, <3>1
  <2>7. ASSUME NEW q \in gone', roomOf'[q] \in rooms'
        PROVE  q \notin members'[roomOf'[q]]
    <3>1. CASE q \in gone
        BY <2>1, <2>7, <3>1
    <3>2. CASE q = s /\ conn[fd] = "closing"
        BY <2>1, <2>4, <2>7, <3>2
    <3> QED BY <2>2, <2>7, <3>1, <3>2
  <2>8. \A q \in Session : q >= nextSession' => roomOf'[q] = 0
      BY <2>1
  <2> QED BY <2>5, <2>6, <2>7, <2>8
<1>15. CASE Restart
    BY <1>15, <1>a DEF Restart, StartIds
<1>16. CASE UNCHANGED chatVars
    BY <1>16 DEF chatVars, sessionVars, roomVars, localVars, history
<1> QED
    BY <1>1, <1>2, <1>3, <1>4, <1>5, <1>6, <1>7, <1>8,
       <1>9, <1>10, <1>11, <1>12, <1>13, <1>14, <1>15, <1>16
    DEF ChatNext, HandlerStep

\* Every step keeps empty rooms watched.
LEMMA EmptyStep ==
  ASSUME RoomsInv, [ChatNext]_chatVars PROVE EmptyInv'
<1> USE DEF RoomsInv, ChatTypeOK, LocalInv, IdsInv, EmptyInv
<1>1. ASSUME NEW fd \in Fds, AcceptClient(fd) PROVE EmptyInv'
    BY <1>1 DEF AcceptClient
<1>2. ASSUME NEW fd \in Fds, CloseConnection(fd) PROVE EmptyInv'
    BY <1>2 DEF CloseConnection
<1>3. ASSUME NEW fd \in Fds, Login(fd) PROVE EmptyInv'
    BY <1>3 DEF Login
<1>4. ASSUME NEW fd \in Fds, CreateRoom(fd) PROVE EmptyInv'
    BY <1>4 DEF CreateRoom, Enter
<1>5. ASSUME NEW fd \in Fds, LeaveRoom(fd) PROVE EmptyInv'
  <2> DEFINE s == sessions[fd]
  <2>1. /\ s \in Session /\ UNCHANGED <<rooms, deserted>> /\ pc[fd] = "idle"
        /\ members' = Removed(s, roomOf[s])
        /\ pc' = [pc EXCEPT ![fd] = "check"] /\ roomId' = [roomId EXCEPT ![fd] = roomOf[s]]
      BY <1>5 DEF LeaveRoom, Enter
  <2> HIDE DEF s
  <2> SUFFICES ASSUME NEW r \in rooms, members'[r] = {}
               PROVE  \/ r \in deserted'
                      \/ \E gd \in Fds : pc'[gd] \in {"create", "check"} /\ roomId'[gd] = r
      BY <2>1
  <2>2. CASE r = roomOf[s]
      BY <2>1, <2>2
  <2>3. CASE r # roomOf[s]
    <3>1. members[r] = {}
        BY <2>1, <2>3 DEF Removed
    <3> QED BY <2>1, <3>1
  <2> QED BY <2>2, <2>3
<1>6. ASSUME NEW fd \in Fds, NEW r \in RoomId, JoinRoom(fd, r) PROVE EmptyInv'
    BY <1>6 DEF JoinRoom, Enter
<1>7. ASSUME NEW fd \in Fds, CreateInsert(fd) PROVE EmptyInv'
    BY <1>7 DEF CreateInsert, InsertFailed, Return
<1>8. ASSUME NEW fd \in Fds, CreateList(fd) PROVE EmptyInv'
    BY <1>8 DEF CreateList
<1>9. ASSUME NEW fd \in Fds, CreateAdd(fd) PROVE EmptyInv'
  <2>1. /\ pc[fd] = "create" /\ roomId[fd] \in RoomId /\ mine[fd] \in Session
        /\ rooms' = rooms /\ deserted' = deserted \ {roomId[fd]}
        /\ members' = [members EXCEPT ![roomId[fd]] = @ \cup {mine[fd]}]
        /\ pc' = [pc EXCEPT ![fd] = "idle"] /\ roomId' = [roomId EXCEPT ![fd] = 0]
      BY <1>9, HandlerOpen, ReturnEffect DEF CreateAdd, AddMember
  <2> SUFFICES ASSUME NEW r \in rooms, members'[r] = {}
               PROVE  \/ r \in deserted'
                      \/ \E gd \in Fds : pc'[gd] \in {"create", "check"} /\ roomId'[gd] = r
      BY <2>1
  <2>2. mine[fd] \in members'[roomId[fd]]
      BY <2>1
  <2>3. r # roomId[fd]
      BY <2>2
  <2>4. members[r] = {}
      BY <2>1, <2>3
  <2> QED BY <2>1, <2>3, <2>4
<1>10. ASSUME NEW fd \in Fds, JoinLeaveOld(fd) PROVE EmptyInv'
  <2> DEFINE s == mine[fd]
             old == roomOf[s]
  <2>1. /\ pc[fd] = "leaveOld" /\ UNCHANGED <<rooms, roomId>>
        /\ members' = Removed(s, old) /\ pc' = [pc EXCEPT ![fd] = "join"]
        /\ deserted' = deserted \cup
             {q \in RoomId \cap {old} : s \in members[q] /\ members'[q] = {}}
      BY <1>10 DEF JoinLeaveOld
  <2> HIDE DEF s, old
  <2> SUFFICES ASSUME NEW r \in rooms, members'[r] = {}
               PROVE  \/ r \in deserted'
                      \/ \E gd \in Fds : pc'[gd] \in {"create", "check"} /\ roomId'[gd] = r
      BY <2>1
  <2>2. CASE r = old /\ s \in members[r]
      BY <2>1, <2>2
  <2>3. CASE ~(r = old /\ s \in members[r])
    <3>1. ASSUME NEW p \in members[r] PROVE p \in members'[r]
      <4>1. members'[r] = IF r = old THEN members[r] \ {s} ELSE members[r]
          BY <2>1 DEF Removed
      <4>2. CASE r = old
          BY <4>1, <4>2, <2>3
      <4>3. CASE r # old
          BY <4>1, <4>3
      <4> QED BY <4>2, <4>3
    <3>2. members[r] = {}
        BY <3>1
    <3> QED BY <2>1, <3>2
  <2> QED BY <2>2, <2>3
<1>11. ASSUME NEW fd \in Fds, JoinAdd(fd) PROVE EmptyInv'
  <2>1. /\ pc[fd] = "join" /\ roomId[fd] \in RoomId /\ mine[fd] \in Session
        /\ rooms' = rooms /\ deserted' = deserted \ {roomId[fd]}
        /\ members' = [members EXCEPT ![roomId[fd]] = @ \cup {mine[fd]}]
        /\ pc' = [pc EXCEPT ![fd] = "idle"] /\ roomId' = [roomId EXCEPT ![fd] = 0]
      BY <1>11, HandlerOpen, ReturnEffect DEF JoinAdd, AddMember
  <2> SUFFICES ASSUME NEW r \in rooms, members'[r] = {}
               PROVE  \/ r \in deserted'
                      \/ \E gd \in Fds : pc'[gd] \in {"create", "check"} /\ roomId'[gd] = r
      BY <2>1
  <2>2. mine[fd] \in members'[roomId[fd]]
      BY <2>1
  <2>3. r # roomId[fd]
      BY <2>2
  <2>4. members[r] = {}
      BY <2>1, <2>3
  <2> QED BY <2>1, <2>3, <2>4
<1>12. ASSUME NEW fd \in Fds, CloseLeave(fd) PROVE EmptyInv'
  <2> DEFINE s == mine[fd]
             old == roomOf[s]
  <2>1. /\ pc[fd] = "closeLeave" /\ UNCHANGED <<rooms, deserted>>
        /\ members' = Removed(s, old)
      BY <1>12 DEF CloseLeave
  <2>2. /\ old # 0 => /\ pc' = [pc EXCEPT ![fd] = "check"]
                      /\ roomId' = [roomId EXCEPT ![fd] = old]
        /\ old = 0 => /\ pc' = [pc EXCEPT ![fd] = "idle"]
                      /\ roomId' = [roomId EXCEPT ![fd] = 0]
      BY <1>12, ReturnEffect DEF CloseLeave, CleanupChecks
  <2> HIDE DEF s, old
  <2> SUFFICES ASSUME NEW r \in rooms, members'[r] = {}
               PROVE  \/ r \in deserted'
                      \/ \E gd \in Fds : pc'[gd] \in {"create", "check"} /\ roomId'[gd] = r
      BY <2>1
  <2>3. CASE r = old
      BY <2>1, <2>2, <2>3
  <2>4. CASE r # old
    <3>1. members[r] = {}
        BY <2>1, <2>4 DEF Removed
    <3>2. \A gd \in Fds : pc[gd] \in {"create", "check"} =>
            pc'[gd] = pc[gd] /\ roomId'[gd] = roomId[gd]
        BY <2>1, <2>2
    <3> QED BY <2>1, <3>1, <3>2
  <2> QED BY <2>3, <2>4
<1>13. ASSUME NEW fd \in Fds, CheckEmpty(fd) PROVE EmptyInv'
  <2>1. pc[fd] = "check" /\ UNCHANGED <<members, deserted>>
      BY <1>13 DEF CheckEmpty
  <2>2. \/ Removable(roomId[fd]) /\ rooms' = rooms \ {roomId[fd]}
        \/ ~Removable(roomId[fd]) /\ rooms' = rooms
      BY <1>13 DEF CheckEmpty
  <2>3. \A gd \in Fds : gd # fd => pc'[gd] = pc[gd] /\ roomId'[gd] = roomId[gd]
      BY <1>13, ReturnEffect DEF CheckEmpty
  <2> SUFFICES ASSUME NEW r \in rooms', members'[r] = {}
               PROVE  \/ r \in deserted'
                      \/ \E gd \in Fds : pc'[gd] \in {"create", "check"} /\ roomId'[gd] = r
      OBVIOUS
  <2>4. r \in rooms /\ r # roomId[fd]
      BY <2>1, <2>2 DEF Removable
  <2> QED BY <2>1, <2>3, <2>4
<1>14. ASSUME NEW fd \in Fds, DeleteRow(fd) PROVE EmptyInv'
    BY <1>14 DEF DeleteRow, Return
<1>15. CASE Restart
    BY <1>15 DEF Restart, StartIds
<1>16. CASE UNCHANGED chatVars
    BY <1>16 DEF chatVars, sessionVars, roomVars, localVars, history
<1> QED
    BY <1>1, <1>2, <1>3, <1>4, <1>5, <1>6, <1>7, <1>8,
       <1>9, <1>10, <1>11, <1>12, <1>13, <1>14, <1>15, <1>16
    DEF ChatNext, HandlerStep

\* Before the first step there are no rooms, members or rows.
LEMMA RoomsInit == ChatInit => RoomsInv
<1> SUFFICES ASSUME ChatInit PROVE RoomsInv
    OBVIOUS
<1>a. MaxSession \in Nat /\ MaxRoom \in Nat /\ MaxCrash \in Nat
    BY RoomsAssumption
<1> USE DEF ChatInit
<1>1. ChatTypeOK
    BY <1>a DEF ChatTypeOK, Place
<1>2. LocalInv /\ ApartInv
    BY DEF LocalInv, ApartInv
<1>3. IdsInv /\ RowsInv
    BY DEF IdsInv, RowsInv, NewRoom, RoomsPersisted
<1>4. BelongInv /\ EmptyInv
    BY DEF BelongInv, GoneFromRoom, EmptyInv
<1> QED
    BY <1>1, <1>2, <1>3, <1>4 DEF RoomsInv

\* RoomsInv is an invariant for any number of connections, sessions, rooms and
\* restarts.
THEOREM RoomsInvariance == ChatSpec => []RoomsInv
<1>1. ChatInit => RoomsInv
    BY RoomsInit
<1>2. RoomsInv /\ [ChatNext]_chatVars => RoomsInv'
    BY TypeStep, LocalStep, ApartStep, IdsStep, RowsStep, BelongStep, EmptyStep
    DEF RoomsInv
<1> QED
    BY <1>1, <1>2, PTL DEF ChatSpec

\* Sessions, rooms and connections agree: between two requests a session is a
\* member of the room it names, a session that is gone is not, and no two
\* connections share a session.
THEOREM MembershipHolds == ChatSpec => []MembershipInv
<1>1. RoomsInv => MembershipInv
  <2> SUFFICES ASSUME RoomsInv PROVE MembershipInv
      OBVIOUS
  <2>1. InOwnRoom
      BY DEF RoomsInv, BelongInv, InOwnRoom
  <2>2. SessionsOfConnections
      BY DEF RoomsInv, ChatTypeOK, LocalInv, ApartInv, SessionsOfConnections
  <2> QED BY <2>1, <2>2 DEF RoomsInv, BelongInv, MembershipInv
<1> QED
    BY <1>1, RoomsInvariance, PTL

\* A room that can be joined has a row in the table rooms, whatever fails and
\* however often the server is restarted.
THEOREM RoomsPersistedHolds == ChatSpec => []RoomsPersisted
<1>1. RoomsInv => RoomsPersisted
    BY DEF RoomsInv, RowsInv
<1> QED
    BY <1>1, RoomsInvariance, PTL

\* When no handler runs, an empty room that is listed is one whose last member
\* joined another room.
THEOREM EmptyRoomsGoHolds == ChatSpec => []EmptyRoomsGo
<1>1. RoomsInv => EmptyRoomsGo
    BY DEF RoomsInv, EmptyInv, EmptyRoomsGo
<1> QED
    BY <1>1, RoomsInvariance, PTL
=============================================================================
