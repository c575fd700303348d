---------------------------- MODULE GatewayProofs ----------------------------
(***************************************************************************)
(* Proofs about the gateway (Gateway), for any clients and addresses and   *)
(* any number of descriptors, links and requests: a request is answered at *)
(* most once, and backend_fds holds the numbers of the links that are in   *)
(* backends or about to be removed, but for those that the monitor erased  *)
(* before they were entered.                                               *)
(*                                                                         *)
(* AnsweredOnce becomes inductive with the ids that are still to be given  *)
(* out: they are in no table and unanswered.  NumbersFollowLinks needs     *)
(* that a link is in one list at a time and is never made twice, and what  *)
(* became of the link that is being entered.                               *)
(***************************************************************************)
EXTENDS Gateway, TLAPS

\* An id is new, in the table, timed out, or done; it is answered when it leaves.
TableInv ==
  \A q \in Req :
    /\ answers[q] <= 1
    /\ q \in pending \cup overdue => answers[q] = 0
    /\ q \notin pending \cap overdue
    /\ q >= nextId => q \notin pending \cup overdue /\ answers[q] = 0

\* A link is made once, and is in one list at a time; one link is being entered.
LinksInv ==
  /\ \A n \in Number : sock[n] \in Link => addr[sock[n]] # 0
  /\ \A l \in backends \cup building \cup entering \cup toRemove \cup removed : addr[l] # 0
  /\ backends \cap building = {} /\ entering \cap building = {}
  /\ (backends \cup building) \cap (toRemove \cup removed) = {}
  /\ \A k, l \in entering : k = l
  /\ mon # "remove" => toRemove = {}

\* The link that is being entered is still in a list, or the monitor has been faster.
EnteringInv ==
  \A n \in Number : sock[n] \in entering =>
    sock[n] \in backends \cup toRemove \/ n \in overtaken

NumbersInv == NumbersFollowLinks /\ EnteringInv

\* A handler that has entered its request in the table has the request's id.
HandInv == \A p \in Peer : hand[p].at = "tabled" => hand[p].id \in Req

GatewayInv == GatewayTypeOK /\ TableInv /\ HandInv /\ LinksInv /\ NumbersInv

\* What the constants are.
LEMMA Constants ==
  /\ MaxFd \in Nat /\ MaxLink \in Nat /\ MaxReq \in Nat
  /\ Clients \cap Link = {} /\ 0 \notin Clients /\ 0 \notin Link /\ 0 \notin Addrs
<1>1. MaxLink \in Nat /\ Clients \cap (0..MaxLink) = {}
    BY GatewayAssumption
<1>2. \A l \in Link : l \in 0..MaxLink /\ l # 0
    BY <1>1 DEF Link
<1>3. 0 \in 0..MaxLink
    BY <1>1
<1> QED BY <1>1, <1>2, <1>3, GatewayAssumption

\* Every step keeps the types.
LEMMA TypeStep ==
  ASSUME GatewayInv, [GatewayNext]_gatewayVars
  PROVE  GatewayTypeOK'
<1> USE DEF GatewayInv, GatewayTypeOK, linkVars, listVars, monVars, tableVars, flightVars
<1>a. /\ MaxFd \in Nat /\ MaxLink \in Nat /\ MaxReq \in Nat
      /\ Clients \cap Link = {} /\ 0 \notin Clients /\ 0 \notin Link /\ 0 \notin Addrs
    BY Constants
<1>1. CASE Refresh
    BY <1>1, <1>a DEF Refresh
<1>2. CASE MonitorScan
    BY <1>2, <1>a DEF MonitorScan
<1>3. CASE MonitorRemoved
    BY <1>3, <1>a DEF MonitorRemoved
<1>4. CASE MonitorEnd
    BY <1>4, <1>a DEF MonitorEnd
<1>5. ASSUME NEW a \in Addrs, MonitorSkip(a) PROVE GatewayTypeOK'
    BY <1>5, <1>a DEF MonitorSkip
<1>6. ASSUME NEW c \in Clients, NEW n \in Number, ClientConnects(c, n) PROVE GatewayTypeOK'
  <2>1. /\ sock' \in [Number -> Peer \cup {0}]
        /\ clientState' \in [Clients -> {"new", "open", "closed"}]
      BY <1>6, <1>a DEF ClientConnects, Peer
  <2> QED BY <1>6, <1>a, <2>1 DEF ClientConnects
<1>7. ASSUME NEW c \in Clients, ClientCloses(c) PROVE GatewayTypeOK'
    BY <1>7, <1>a DEF ClientCloses
<1>8. ASSUME NEW c \in Clients, ClientRequest(c) PROVE GatewayTypeOK'
  <2>1. PICK k \in backends : hand' = [hand EXCEPT ![c] = [at |-> "picked", link |-> k, id |-> 0]]
      BY <1>8, <1>a DEF ClientRequest, Pick
  <2>2. [at |-> "picked", link |-> k, id |-> 0] \in [at : {"idle", "picked", "tabled"},
            link : Link \cup {0}, id : Req \cup {0}]
      BY <2>1
  <2>3. hand' \in [Peer -> [at : {"idle", "picked", "tabled"}, link : Link \cup {0},
            id : Req \cup {0}]]
      BY <2>1, <2>2
  <2> QED BY <1>8, <1>a, <2>3 DEF ClientRequest
<1>9. ASSUME NEW p \in Peer, EnterTable(p) PROVE GatewayTypeOK'
  <2>1. nextId \in Req /\ nextId' \in 1..(MaxReq + 1)
      BY <1>9, <1>a DEF EnterTable, Req
  <2>2. hand[p] \in [at : {"idle", "picked", "tabled"}, link : Link \cup {0}, id : Req \cup {0}]
      OBVIOUS
  <2>r. [hand[p] EXCEPT !.at = "tabled", !.id = nextId] \in [at : {"idle", "picked",
            "tabled"}, link : Link \cup {0}, id : Req \cup {0}]
      BY <2>1, <2>2
  <2>3. hand' \in [Peer -> [at : {"idle", "picked", "tabled"}, link : Link \cup {0},
            id : Req \cup {0}]]
      BY <1>9, <1>a, <2>r DEF EnterTable
  <2>4. clientConn' \in [Req -> Peer \cup {0}] /\ pending' \subseteq Req
      BY <1>9, <1>a, <2>1 DEF EnterTable
  <2> QED BY <1>9, <1>a, <2>1, <2>3, <2>4 DEF EnterTable
<1>10. ASSUME NEW p \in Peer, Forward(p) PROVE GatewayTypeOK'
  <2>1. hand[p] \in [at : {"idle", "picked", "tabled"}, link : Link \cup {0}, id : Req \cup {0}]
      OBVIOUS
  <2>2. hand' \in [Peer -> [at : {"idle", "picked", "tabled"}, link : Link \cup {0},
            id : Req \cup {0}]]
      BY <1>10, <1>a DEF Forward, NoWork
  <2>3. hand[p].link \in Link \cup {0} /\ hand[p].id \in Req \cup {0}
      BY <2>1
  <2>4. hand[p].id \in Req
      BY <1>10, <1>a DEF Forward, HandInv
  <2>5. sent' \subseteq Link \X Req
      BY <1>10, <1>a, <2>3, <2>4 DEF Forward
  <2> QED BY <1>10, <1>a, <2>2, <2>5 DEF Forward
<1>11. ASSUME NEW l \in Link, LinkDown(l) PROVE GatewayTypeOK'
    BY <1>11, <1>a DEF LinkDown
<1>12. ASSUME NEW l \in Link, TakenForRequest(l) PROVE GatewayTypeOK'
  <2>1. PICK k \in backends : hand' = [hand EXCEPT ![l] = [at |-> "picked", link |-> k, id |-> 0]]
      BY <1>12, <1>a DEF TakenForRequest, Pick
  <2>2. [at |-> "picked", link |-> k, id |-> 0] \in [at : {"idle", "picked", "tabled"},
            link : Link \cup {0}, id : Req \cup {0}]
      BY <2>1
  <2>3. hand' \in [Peer -> [at : {"idle", "picked", "tabled"}, link : Link \cup {0},
            id : Req \cup {0}]]
      BY <2>1, <2>2
  <2> QED BY <1>12, <1>a, <2>3 DEF TakenForRequest
<1>13. ASSUME NEW l \in Link, Pong(l) PROVE GatewayTypeOK'
    BY <1>13, <1>a DEF Pong
<1>14. ASSUME NEW l \in Link, NoPong(l) PROVE GatewayTypeOK'
    BY <1>14, <1>a DEF NoPong
<1>15. ASSUME NEW l \in Link, MonitorRemove(l) PROVE GatewayTypeOK'
    BY <1>15, <1>a DEF MonitorRemove, NumberErased, NumberOf
<1>16. ASSUME NEW l \in Link, Build(l) PROVE GatewayTypeOK'
    BY <1>16, <1>a DEF Build
<1>24. ASSUME NEW l \in Link, InsertNumber(l) PROVE GatewayTypeOK'
    BY <1>24, <1>a DEF InsertNumber, NumberOf
<1>17. ASSUME NEW l \in Link, LinkDestroyed(l) PROVE GatewayTypeOK'
    BY <1>17, <1>a DEF LinkDestroyed
<1>18. ASSUME NEW l \in Link, NEW q \in Req, BackendAnswers(l, q) PROVE GatewayTypeOK'
    BY <1>18, <1>a DEF BackendAnswers
<1>19. ASSUME NEW l \in Link, NEW q \in Req, Response(l, q) PROVE GatewayTypeOK'
    BY <1>19, <1>a DEF Response, TakenFromTable, Answered
<1>25. ASSUME NEW c \in Clients, NEW q \in Req, TakenForBackend(c, q) PROVE GatewayTypeOK'
    BY <1>25, <1>a DEF TakenForBackend, TakenFromTable, Answered
<1>20. ASSUME NEW a \in Addrs, NEW l \in Link, NEW n \in Number, MonitorConnect(a, l, n)
       PROVE GatewayTypeOK'
  <2>1. sock' \in [Number -> Peer \cup {0}]
      BY <1>20, <1>a DEF MonitorConnect, Peer
  <2>2. addr' \in [Link -> Addrs \cup {0}]
      BY <1>20, <1>a DEF MonitorConnect
  <2> QED BY <1>20, <1>a, <2>1, <2>2 DEF MonitorConnect
<1>21. ASSUME NEW q \in Req, Expire(q) PROVE GatewayTypeOK'
    BY <1>21, <1>a DEF Expire
<1>22. ASSUME NEW q \in Req, SendTimeout(q) PROVE GatewayTypeOK'
    BY <1>22, <1>a DEF SendTimeout, Answered
<1>23. CASE UNCHANGED gatewayVars
    BY <1>23, <1>a DEF gatewayVars
<1> QED
    BY <1>1, <1>2, <1>3, <1>4, <1>5, <1>6, <1>7, <1>8, <1>9, <1>10, <1>11,
       <1>12, <1>13, <1>14, <1>15, <1>16, <1>17, <1>18, <1>19, <1>20, <1>21,
       <1>22, <1>23, <1>24, <1>25
    DEF GatewayNext

\* Every step answers a request only when it takes it out of the table.
LEMMA TableStep ==
  ASSUME GatewayInv, [GatewayNext]_gatewayVars
  PROVE  TableInv'
<1> USE DEF GatewayInv, TableInv, linkVars, listVars, monVars, tableVars, flightVars
<1>a. /\ MaxFd \in Nat /\ MaxLink \in Nat /\ MaxReq \in Nat
      /\ Clients \cap Link = {} /\ 0 \notin Clients /\ 0 \notin Link /\ 0 \notin Addrs
    BY Constants
<1>1. CASE Refresh
    BY <1>1, <1>a DEF Refresh
<1>2. CASE MonitorScan
    BY <1>2, <1>a DEF MonitorScan
<1>3. CASE MonitorRemoved
    BY <1>3, <1>a DEF MonitorRemoved
<1>4. CASE MonitorEnd
    BY <1>4, <1>a DEF MonitorEnd
<1>5. ASSUME NEW a \in Addrs, MonitorSkip(a) PROVE TableInv'
    BY <1>5, <1>a DEF MonitorSkip
<1>6. ASSUME NEW c \in Clients, NEW n \in Number, ClientConnects(c, n) PROVE TableInv'
    BY <1>6, <1>a DEF ClientConnects, FreeFd
<1>7. ASSUME NEW c \in Clients, ClientCloses(c) PROVE TableInv'
    BY <1>7, <1>a DEF ClientCloses
<1>8. ASSUME NEW c \in Clients, ClientRequest(c) PROVE TableInv'
    BY <1>8, <1>a DEF ClientRequest, Pick
<1>9. ASSUME NEW p \in Peer, EnterTable(p) PROVE TableInv'
  <2>1. nextId \in Nat /\ nextId' = nextId + 1 /\ pending' = pending \cup {nextId}
      BY <1>9, <1>a DEF EnterTable, GatewayTypeOK
  <2>2. UNCHANGED <<overdue, answers>>
      BY <1>9, <1>a DEF EnterTable
  <2>3. \A q \in Req : q \in Nat
      BY DEF Req
  <2>4. \A q \in Req : q >= nextId + 1 => q >= nextId /\ q # nextId
      BY <2>1, <2>3
  <2> QED BY <2>1, <2>2, <2>3, <2>4
<1>10. ASSUME NEW p \in Peer, Forward(p) PROVE TableInv'
    BY <1>10, <1>a DEF Forward
<1>11. ASSUME NEW l \in Link, LinkDown(l) PROVE TableInv'
    BY <1>11, <1>a DEF LinkDown
<1>12. ASSUME NEW l \in Link, TakenForRequest(l) PROVE TableInv'
    BY <1>12, <1>a DEF TakenForRequest, Pick
<1>13. ASSUME NEW l \in Link, Pong(l) PROVE TableInv'
    BY <1>13, <1>a DEF Pong
<1>14. ASSUME NEW l \in Link, NoPong(l) PROVE TableInv'
    BY <1>14, <1>a DEF NoPong
<1>15. ASSUME NEW l \in Link, MonitorRemove(l) PROVE TableInv'
    BY <1>15, <1>a DEF MonitorRemove, NumberErased, NumberOf
<1>16. ASSUME NEW l \in Link, Build(l) PROVE TableInv'
    BY <1>16, <1>a DEF Build
<1>24. ASSUME NEW l \in Link, InsertNumber(l) PROVE TableInv'
    BY <1>24, <1>a DEF InsertNumber, NumberOf
<1>17. ASSUME NEW l \in Link, LinkDestroyed(l) PROVE TableInv'
    BY <1>17, <1>a DEF LinkDestroyed
<1>18. ASSUME NEW l \in Link, NEW q \in Req, BackendAnswers(l, q) PROVE TableInv'
    BY <1>18, <1>a DEF BackendAnswers
<1>19. ASSUME NEW l \in Link, NEW q \in Req, Response(l, q) PROVE TableInv'
    BY <1>19, <1>a DEF Response, TakenFromTable, Answered
<1>25. ASSUME NEW c \in Clients, NEW q \in Req, TakenForBackend(c, q) PROVE TableInv'
    BY <1>25, <1>a DEF TakenForBackend, TakenFromTable, Answered
<1>20. ASSUME NEW a \in Addrs, NEW l \in Link, NEW n \in Number, MonitorConnect(a, l, n)
       PROVE TableInv'
    BY <1>20, <1>a DEF MonitorConnect, FreeFd
<1>21. ASSUME NEW q \in Req, Expire(q) PROVE TableInv'
    BY <1>21, <1>a DEF Expire
<1>22. ASSUME NEW q \in Req, SendTimeout(q) PROVE TableInv'
    BY <1>22, <1>a DEF SendTimeout, Answered
<1>23. CASE UNCHANGED gatewayVars
    BY <1>23, <1>a DEF gatewayVars
<1> QED
    BY <1>1, <1>2, <1>3, <1>4, <1>5, <1>6, <1>7, <1>8, <1>9, <1>10, <1>11,
       <1>12, <1>13, <1>14, <1>15, <1>16, <1>17, <1>18, <1>19, <1>20, <1>21,
       <1>22, <1>23, <1>24, <1>25
    DEF GatewayNext

\* Every step keeps the ids in hand.
LEMMA HandStep ==
  ASSUME GatewayInv, [GatewayNext]_gatewayVars
  PROVE  HandInv'
<1> USE DEF GatewayInv, HandInv, linkVars, listVars, monVars, tableVars, flightVars
<1>a. /\ MaxFd \in Nat /\ MaxLink \in Nat /\ MaxReq \in Nat
      /\ Clients \cap Link = {} /\ 0 \notin Clients /\ 0 \notin Link /\ 0 \notin Addrs
    BY Constants
<1>1. CASE Refresh
    BY <1>1, <1>a DEF Refresh
<1>2. CASE MonitorScan
    BY <1>2, <1>a DEF MonitorScan
<1>3. CASE MonitorRemoved
    BY <1>3, <1>a DEF MonitorRemoved
<1>4. CASE MonitorEnd
    BY <1>4, <1>a DEF MonitorEnd
<1>5. ASSUME NEW a \in Addrs, MonitorSkip(a) PROVE HandInv'
    BY <1>5, <1>a DEF MonitorSkip
<1>6. ASSUME NEW c \in Clients, NEW n \in Number, ClientConnects(c, n) PROVE HandInv'
    BY <1>6, <1>a DEF ClientConnects, FreeFd
<1>7. ASSUME NEW c \in Clients, ClientCloses(c) PROVE HandInv'
    BY <1>7, <1>a DEF ClientCloses
<1>8. ASSUME NEW c \in Clients, ClientRequest(c) PROVE HandInv'
  <2>t. hand \in [Peer -> [at : {"idle", "picked", "tabled"}, link : Link \cup {0},
            id : Req \cup {0}]]
      BY DEF GatewayTypeOK
  <2>1. PICK k \in backends : hand' = [hand EXCEPT ![c] = [at |-> "picked", link |-> k, id |-> 0]]
      BY <1>8, <1>a DEF ClientRequest, Pick
  <2> QED BY <2>1, <2>t
<1>9. ASSUME NEW p \in Peer, EnterTable(p) PROVE HandInv'
  <2>t. hand \in [Peer -> [at : {"idle", "picked", "tabled"}, link : Link \cup {0},
            id : Req \cup {0}]]
      BY DEF GatewayTypeOK
  <2>1. nextId \in Req
      BY <1>9, <1>a DEF EnterTable, Req, GatewayTypeOK
  <2> QED BY <1>9, <1>a, <2>1, <2>t DEF EnterTable
<1>10. ASSUME NEW p \in Peer, Forward(p) PROVE HandInv'
  <2>t. hand \in [Peer -> [at : {"idle", "picked", "tabled"}, link : Link \cup {0},
            id : Req \cup {0}]]
      BY DEF GatewayTypeOK
  <2> QED BY <1>10, <1>a, <2>t DEF Forward, NoWork
<1>11. ASSUME NEW l \in Link, LinkDown(l) PROVE HandInv'
    BY <1>11, <1>a DEF LinkDown
<1>12. ASSUME NEW l \in Link, TakenForRequest(l) PROVE HandInv'
  <2>t. hand \in [Peer -> [at : {"idle", "picked", "tabled"}, link : Link \cup {0},
            id : Req \cup {0}]]
      BY DEF GatewayTypeOK
  <2>1. PICK k \in backends : hand' = [hand EXCEPT ![l] = [at |-> "picked", link |-> k, id |-> 0]]
      BY <1>12, <1>a DEF TakenForRequest, Pick
  <2> QED BY <2>1, <2>t
<1>13. ASSUME NEW l \in Link, Pong(l) PROVE HandInv'
    BY <1>13, <1>a DEF Pong
<1>14. ASSUME NEW l \in Link, NoPong(l) PROVE HandInv'
    BY <1>14, <1>a DEF NoPong
<1>15. ASSUME NEW l \in Link, MonitorRemove(l) PROVE HandInv'
    BY <1>15, <1>a DEF MonitorRemove, NumberErased, NumberOf
<1>16. ASSUME NEW l \in Link, Build(l) PROVE HandInv'
    BY <1>16, <1>a DEF Build
<1>24. ASSUME NEW l \in Link, InsertNumber(l) PROVE HandInv'
    BY <1>24, <1>a DEF InsertNumber, NumberOf
<1>17. ASSUME NEW l \in Link, LinkDestroyed(l) PROVE HandInv'
    BY <1>17, <1>a DEF LinkDestroyed
<1>18. ASSUME NEW l \in Link, NEW q \in Req, BackendAnswers(l, q) PROVE HandInv'
    BY <1>18, <1>a DEF BackendAnswers
<1>19. ASSUME NEW l \in Link, NEW q \in Req, Response(l, q) PROVE HandInv'
    BY <1>19, <1>a DEF Response, TakenFromTable, Answered
<1>25. ASSUME NEW c \in Clients, NEW q \in Req, TakenForBackend(c, q) PROVE HandInv'
    BY <1>25, <1>a DEF TakenForBackend, TakenFromTable, Answered
<1>20. ASSUME NEW a \in Addrs, NEW l \in Link, NEW n \in Number, MonitorConnect(a, l, n)
       PROVE HandInv'
    BY <1>20, <1>a DEF MonitorConnect, FreeFd
<1>21. ASSUME NEW q \in Req, Expire(q) PROVE HandInv'
    BY <1>21, <1>a DEF Expire
<1>22. ASSUME NEW q \in Req, SendTimeout(q) PROVE HandInv'
    BY <1>22, <1>a DEF SendTimeout, Answered
<1>23. CASE UNCHANGED gatewayVars
    BY <1>23, <1>a DEF gatewayVars
<1> QED
    BY <1>1, <1>2, <1>3, <1>4, <1>5, <1>6, <1>7, <1>8, <1>9, <1>10, <1>11,
       <1>12, <1>13, <1>14, <1>15, <1>16, <1>17, <1>18, <1>19, <1>20, <1>21,
       <1>22, <1>23, <1>24, <1>25
    DEF GatewayNext

\* Every step keeps a link in one list.
LEMMA LinksStep ==
  ASSUME GatewayInv, [GatewayNext]_gatewayVars
  PROVE  LinksInv'
<1> USE DEF GatewayInv, LinksInv, linkVars, listVars, monVars, tableVars, flightVars
<1>a. /\ MaxFd \in Nat /\ MaxLink \in Nat /\ MaxReq \in Nat
      /\ Clients \cap Link = {} /\ 0 \notin Clients /\ 0 \notin Link /\ 0 \notin Addrs
    BY Constants
<1>1. CASE Refresh
    BY <1>1, <1>a DEF Refresh
<1>2. CASE MonitorScan
    BY <1>2, <1>a DEF MonitorScan
<1>3. CASE MonitorRemoved
    BY <1>3, <1>a DEF MonitorRemoved
<1>4. CASE MonitorEnd
    BY <1>4, <1>a DEF MonitorEnd
<1>5. ASSUME NEW a \in Addrs, MonitorSkip(a) PROVE LinksInv'
    BY <1>5, <1>a DEF MonitorSkip
<1>6. ASSUME NEW c \in Clients, NEW n \in Number, ClientConnects(c, n) PROVE LinksInv'
    BY <1>6, <1>a DEF ClientConnects, FreeFd
<1>7. ASSUME NEW c \in Clients, ClientCloses(c) PROVE LinksInv'
    BY <1>7, <1>a DEF ClientCloses
<1>8. ASSUME NEW c \in Clients, ClientRequest(c) PROVE LinksInv'
    BY <1>8, <1>a DEF ClientRequest, Pick
<1>9. ASSUME NEW p \in Peer, EnterTable(p) PROVE LinksInv'
    BY <1>9, <1>a DEF EnterTable
<1>10. ASSUME NEW p \in Peer, Forward(p) PROVE LinksInv'
    BY <1>10, <1>a DEF Forward
<1>11. ASSUME NEW l \in Link, LinkDown(l) PROVE LinksInv'
    BY <1>11, <1>a DEF LinkDown
<1>12. ASSUME NEW l \in Link, TakenForRequest(l) PROVE LinksInv'
    BY <1>12, <1>a DEF TakenForRequest, Pick
<1>13. ASSUME NEW l \in Link, Pong(l) PROVE LinksInv'
    BY <1>13, <1>a DEF Pong
<1>14. ASSUME NEW l \in Link, NoPong(l) PROVE LinksInv'
    BY <1>14, <1>a DEF NoPong
<1>15. ASSUME NEW l \in Link, MonitorRemove(l) PROVE LinksInv'
    BY <1>15, <1>a DEF MonitorRemove, NumberErased, NumberOf
<1>16. ASSUME NEW l \in Link, Build(l) PROVE LinksInv'
    BY <1>16, <1>a DEF Build, LoopFree
<1>24. ASSUME NEW l \in Link, InsertNumber(l) PROVE LinksInv'
    BY <1>24, <1>a DEF InsertNumber, NumberOf
<1>17. ASSUME NEW l \in Link, LinkDestroyed(l) PROVE LinksInv'
    BY <1>17, <1>a DEF LinkDestroyed
<1>18. ASSUME NEW l \in Link, NEW q \in Req, BackendAnswers(l, q) PROVE LinksInv'
    BY <1>18, <1>a DEF BackendAnswers
<1>19. ASSUME NEW l \in Link, NEW q \in Req, Response(l, q) PROVE LinksInv'
    BY <1>19, <1>a DEF Response, TakenFromTable, Answered
<1>25. ASSUME NEW c \in Clients, NEW q \in Req, TakenForBackend(c, q) PROVE LinksInv'
    BY <1>25, <1>a DEF TakenForBackend, TakenFromTable, Answered
<1>20. ASSUME NEW a \in Addrs, NEW l \in Link, NEW n \in Number, MonitorConnect(a, l, n)
       PROVE LinksInv'
  <2>t. /\ sock \in [Number -> Peer \cup {0}] /\ addr \in [Link -> Addrs \cup {0}]
        /\ backends \subseteq Link /\ building \subseteq Link /\ backendFds \subseteq Number
        /\ toRemove \subseteq Link /\ removed \subseteq Link /\ entering \subseteq Link
      BY DEF GatewayTypeOK
  <2>1. /\ addr[l] = 0 /\ building' = building \cup {l}
        /\ sock' = [sock EXCEPT ![n] = l] /\ addr' = [addr EXCEPT ![l] = a]
        /\ UNCHANGED <<backends, entering, toRemove, removed, mon>>
      BY <1>20, <1>a DEF MonitorConnect
  <2>2. addr'[l] # 0 /\ \A k \in Link : k # l => addr'[k] = addr[k]
      BY <2>1, <2>t, <1>a
  <2>3. l \notin backends \cup building \cup entering \cup toRemove \cup removed
      BY <2>1
  <2>4. \A m \in Number : sock'[m] \in Link => addr'[sock'[m]] # 0
      BY <2>1, <2>2, <2>t
  <2>5. \A k \in backends' \cup building' \cup entering' \cup toRemove' \cup removed' :
          addr'[k] # 0
      BY <2>1, <2>2, <2>t
  <2> QED BY <2>1, <2>3, <2>4, <2>5
<1>21. ASSUME NEW q \in Req, Expire(q) PROVE LinksInv'
    BY <1>21, <1>a DEF Expire
<1>22. ASSUME NEW q \in Req, SendTimeout(q) PROVE LinksInv'
    BY <1>22, <1>a DEF SendTimeout, Answered
<1>23. CASE UNCHANGED gatewayVars
    BY <1>23, <1>a DEF gatewayVars
<1> QED
    BY <1>1, <1>2, <1>3, <1>4, <1>5, <1>6, <1>7, <1>8, <1>9, <1>10, <1>11,
       <1>12, <1>13, <1>14, <1>15, <1>16, <1>17, <1>18, <1>19, <1>20, <1>21,
       <1>22, <1>23, <1>24, <1>25
    DEF GatewayNext

\* Every step keeps the numbers with their links.
LEMMA NumbersStep ==
  ASSUME GatewayInv, [GatewayNext]_gatewayVars
  PROVE  NumbersInv'
<1> USE DEF GatewayInv, NumbersInv, NumbersFollowLinks, EnteringInv, linkVars,
            listVars, monVars, tableVars, flightVars
<1>a. /\ MaxFd \in Nat /\ MaxLink \in Nat /\ MaxReq \in Nat
      /\ Clients \cap Link = {} /\ 0 \notin Clients /\ 0 \notin Link /\ 0 \notin Addrs
    BY Constants
<1>1. CASE Refresh
    BY <1>1, <1>a DEF Refresh
<1>2. CASE MonitorScan
  <2>t. /\ sock \in [Number -> Peer \cup {0}] /\ addr \in [Link -> Addrs \cup {0}]
        /\ backends \subseteq Link /\ building \subseteq Link /\ backendFds \subseteq Number
        /\ entering \subseteq Link
        /\ toRemove \subseteq Link /\ removed \subseteq Link
      BY DEF GatewayTypeOK
  <2>1. /\ mon = "idle" /\ toRemove' = {l \in backends : addr[l] \notin instances}
        /\ backends' = backends \ toRemove' /\ UNCHANGED <<sock, backendFds, entering, overtaken>>
      BY <1>2, <1>a DEF MonitorScan
  <2>2. toRemove = {}
      BY <2>1 DEF LinksInv
  <2>3. backends' \cup toRemove' = backends
      BY <2>1
  <2> QED BY <2>1, <2>2, <2>3
<1>3. CASE MonitorRemoved
    BY <1>3, <1>a DEF MonitorRemoved
<1>4. CASE MonitorEnd
    BY <1>4, <1>a DEF MonitorEnd
<1>5. ASSUME NEW a \in Addrs, MonitorSkip(a) PROVE NumbersInv'
    BY <1>5, <1>a DEF MonitorSkip
<1>6. ASSUME NEW c \in Clients, NEW n \in Number, ClientConnects(c, n) PROVE NumbersInv'
  <2>t. /\ sock \in [Number -> Peer \cup {0}] /\ addr \in [Link -> Addrs \cup {0}]
        /\ backends \subseteq Link /\ building \subseteq Link /\ backendFds \subseteq Number
        /\ entering \subseteq Link
        /\ toRemove \subseteq Link /\ removed \subseteq Link
      BY DEF GatewayTypeOK
  <2>1. sock[n] = 0 /\ sock' = [sock EXCEPT ![n] = c] /\ UNCHANGED <<backends, backendFds,
            entering, overtaken, toRemove>>
      BY <1>6, <1>a DEF ClientConnects, FreeFd
  <2>2. /\ c \notin backends \cup toRemove \cup entering
        /\ 0 \notin backends \cup toRemove \cup entering
      BY <2>t, <1>a
  <2>3. \A m \in Number : m # n => sock'[m] = sock[m]
      BY <2>1, <2>t
  <2>4. sock'[n] = c
      BY <2>1, <2>t
  <2> QED BY <2>1, <2>2, <2>3, <2>4
<1>7. ASSUME NEW c \in Clients, ClientCloses(c) PROVE NumbersInv'
  <2>t. /\ sock \in [Number -> Peer \cup {0}] /\ addr \in [Link -> Addrs \cup {0}]
        /\ backends \subseteq Link /\ building \subseteq Link /\ backendFds \subseteq Number
        /\ entering \subseteq Link
        /\ toRemove \subseteq Link /\ removed \subseteq Link
      BY DEF GatewayTypeOK
  <2>1. /\ sock' = [n \in Number |-> IF sock[n] = c THEN 0 ELSE sock[n]]
        /\ UNCHANGED <<backends, backendFds, entering, overtaken, toRemove>>
      BY <1>7, <1>a DEF ClientCloses
  <2>2. /\ c \notin backends \cup toRemove \cup entering
        /\ 0 \notin backends \cup toRemove \cup entering
      BY <2>t, <1>a
  <2>3. \A m \in Number : sock'[m] = sock[m] \/ (sock[m] = c /\ sock'[m] = 0)
      BY <2>1
  <2> QED BY <2>1, <2>2, <2>3
<1>8. ASSUME NEW c \in Clients, ClientRequest(c) PROVE NumbersInv'
    BY <1>8, <1>a DEF ClientRequest, Pick
<1>9. ASSUME NEW p \in Peer, EnterTable(p) PROVE NumbersInv'
    BY <1>9, <1>a DEF EnterTable
<1>10. ASSUME NEW p \in Peer, Forward(p) PROVE NumbersInv'
    BY <1>10, <1>a DEF Forward
<1>11. ASSUME NEW l \in Link, LinkDown(l) PROVE NumbersInv'
    BY <1>11, <1>a DEF LinkDown
<1>12. ASSUME NEW l \in Link, TakenForRequest(l) PROVE NumbersInv'
    BY <1>12, <1>a DEF TakenForRequest, Pick
<1>13. ASSUME NEW l \in Link, Pong(l) PROVE NumbersInv'
    BY <1>13, <1>a DEF Pong
<1>14. ASSUME NEW l \in Link, NoPong(l) PROVE NumbersInv'
    BY <1>14, <1>a DEF NoPong
<1>15. ASSUME NEW l \in Link, MonitorRemove(l) PROVE NumbersInv'
  <2>t. /\ sock \in [Number -> Peer \cup {0}] /\ addr \in [Link -> Addrs \cup {0}]
        /\ backends \subseteq Link /\ building \subseteq Link /\ backendFds \subseteq Number
        /\ entering \subseteq Link
        /\ toRemove \subseteq Link /\ removed \subseteq Link
      BY DEF GatewayTypeOK
  <2>1. /\ l \in toRemove /\ backendFds' = backendFds \ NumberOf(l)
        /\ overtaken' = IF l \in entering THEN overtaken \cup NumberOf(l)
                        ELSE overtaken \ NumberOf(l)
        /\ toRemove' = toRemove \ {l} /\ UNCHANGED <<sock, backends, entering>>
      BY <1>15, <1>a DEF MonitorRemove, NumberErased
  <2>2. l \notin backends
      BY <2>1 DEF LinksInv
  <2>3. \A n \in Number : n \in NumberOf(l) <=> sock[n] = l
      BY DEF NumberOf
  <2> QED BY <2>1, <2>2, <2>3
<1>16. ASSUME NEW l \in Link, Build(l) PROVE NumbersInv'
    BY <1>16, <1>a DEF Build, LoopFree
<1>24. ASSUME NEW l \in Link, InsertNumber(l) PROVE NumbersInv'
    BY <1>24, <1>a DEF InsertNumber, NumberOf, LinksInv
<1>17. ASSUME NEW l \in Link, LinkDestroyed(l) PROVE NumbersInv'
  <2>t. /\ sock \in [Number -> Peer \cup {0}] /\ addr \in [Link -> Addrs \cup {0}]
        /\ backends \subseteq Link /\ building \subseteq Link /\ backendFds \subseteq Number
        /\ entering \subseteq Link
        /\ toRemove \subseteq Link /\ removed \subseteq Link
      BY DEF GatewayTypeOK
  <2>1. /\ sock' = [n \in Number |-> IF sock[n] = l THEN 0 ELSE sock[n]]
        /\ l \notin backends \cup toRemove \cup entering
        /\ UNCHANGED <<backends, backendFds, entering, overtaken, toRemove>>
      BY <1>17, <1>a DEF LinkDestroyed
  <2>2. 0 \notin backends \cup toRemove \cup entering
      BY <2>t, <1>a
  <2>3. \A m \in Number : sock'[m] = sock[m] \/ (sock[m] = l /\ sock'[m] = 0)
      BY <2>1
  <2> QED BY <2>1, <2>2, <2>3
<1>18. ASSUME NEW l \in Link, NEW q \in Req, BackendAnswers(l, q) PROVE NumbersInv'
    BY <1>18, <1>a DEF BackendAnswers
<1>19. ASSUME NEW l \in Link, NEW q \in Req, Response(l, q) PROVE NumbersInv'
    BY <1>19, <1>a DEF Response, TakenFromTable, Answered
<1>25. ASSUME NEW c \in Clients, NEW q \in Req, TakenForBackend(c, q) PROVE NumbersInv'
    BY <1>25, <1>a DEF TakenForBackend, TakenFromTable, Answered
<1>20. ASSUME NEW a \in Addrs, NEW l \in Link, NEW n \in Number, MonitorConnect(a, l, n)
       PROVE NumbersInv'
  <2>t. /\ sock \in [Number -> Peer \cup {0}] /\ addr \in [Link -> Addrs \cup {0}]
        /\ backends \subseteq Link /\ building \subseteq Link /\ backendFds \subseteq Number
        /\ entering \subseteq Link
        /\ toRemove \subseteq Link /\ removed \subseteq Link
      BY DEF GatewayTypeOK
  <2>1. /\ sock[n] = 0 /\ addr[l] = 0 /\ sock' = [sock EXCEPT ![n] = l]
        /\ UNCHANGED <<backends, backendFds, entering, overtaken, toRemove>>
      BY <1>20, <1>a DEF MonitorConnect, FreeFd
  <2>2. /\ l \notin backends \cup toRemove \cup entering
        /\ 0 \notin backends \cup toRemove \cup entering
      BY <2>1, <2>t, <1>a DEF LinksInv
  <2>3. sock'[n] = l /\ \A m \in Number : m # n => sock'[m] = sock[m]
      BY <2>1, <2>t
  <2> QED BY <2>1, <2>2, <2>3
<1>21. ASSUME NEW q \in Req, Expire(q) PROVE NumbersInv'
    BY <1>21, <1>a DEF Expire
<1>22. ASSUME NEW q \in Req, SendTimeout(q) PROVE NumbersInv'
    BY <1>22, <1>a DEF SendTimeout, Answered
<1>23. CASE UNCHANGED gatewayVars
    BY <1>23, <1>a DEF gatewayVars
<1> QED
    BY <1>1, <1>2, <1>3, <1>4, <1>5, <1>6, <1>7, <1>8, <1>9, <1>10, <1>11,
       <1>12, <1>13, <1>14, <1>15, <1>16, <1>17, <1>18, <1>19, <1>20, <1>21,
       <1>22, <1>23, <1>24, <1>25
    DEF GatewayNext

\* At the start no number is in use and no id given out.
LEMMA GatewayHoldsInitially == GatewayInit => GatewayInv
<1> SUFFICES ASSUME GatewayInit PROVE GatewayInv
    OBVIOUS
<1>a. MaxReq \in Nat
    BY GatewayAssumption
<1>1. GatewayTypeOK
  <2>1. 1 \in 1..(MaxReq + 1)
      BY <1>a
  <2> QED BY <2>1 DEF GatewayInit, GatewayTypeOK, NoWork
<1>2. TableInv
    BY DEF GatewayInit, TableInv
<1>5. HandInv
    BY DEF GatewayInit, HandInv, NoWork
<1>3. LinksInv
    BY GatewayAssumption DEF GatewayInit, LinksInv, Link
<1>4. NumbersInv
    BY DEF GatewayInit, NumbersInv, NumbersFollowLinks, EnteringInv
<1> QED BY <1>1, <1>2, <1>3, <1>4, <1>5 DEF GatewayInv

\* GatewayInv is an invariant for every value of the constants.
THEOREM GatewayInvariance == GatewaySpec => []GatewayInv
<1>1. GatewayInv /\ [GatewayNext]_gatewayVars => GatewayInv'
    BY TypeStep, TableStep, HandStep, LinksStep, NumbersStep DEF GatewayInv
<1> QED
    BY <1>1, GatewayHoldsInitially, PTL DEF GatewaySpec

\* Nobody is answered twice: a response that comes while the cleanup thread has
\* collected its id finds nothing in the table.
THEOREM AnsweredOnceHolds == GatewaySpec => []AnsweredOnce
<1>1. GatewayInv => AnsweredOnce
    BY DEF GatewayInv, TableInv, AnsweredOnce
<1> QED
    BY <1>1, GatewayInvariance, PTL

\* A link is recognised by its number from the end of its callback until it is
\* removed, whichever numbers are used again, and a number of nothing else is in
\* backend_fds unless the monitor had erased it before it was entered.
THEOREM NumbersFollowLinksHolds == GatewaySpec => []NumbersFollowLinks
<1>1. GatewayInv => NumbersFollowLinks
    BY DEF GatewayInv, NumbersInv
<1> QED
    BY <1>1, GatewayInvariance, PTL
=============================================================================
