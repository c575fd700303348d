------------------------------- MODULE Gateway -------------------------------
(***************************************************************************)
(* The gateway: client requests are given a new id, entered in the table   *)
(* pending and forwarded over one of the links to the back ends; responses *)
(* are matched by id.  Beside the workers and the main loop, which carry   *)
(* the requests and the responses, there are the monitor thread, which     *)
(* follows the service registry, the health thread and the cleanup thread, *)
(* which times requests out.                                               *)
(*                                                                         *)
(* A link is one outbound Connection; sock says which socket the kernel    *)
(* has under a number.  A link's object lives as long as a shared pointer  *)
(* to it does (backends, the monitor's to_remove, a handler that has       *)
(* picked it), and its number is closed by the destructor, whatever became *)
(* of the connection before.  Round robin is a choice among the healthy    *)
(* back ends, time is a choice of what is overdue.  What the gateway does  *)
(* at its start is a first pass of the monitor.  Metrics are left out.     *)
(*                                                                         *)
(* The callback that builds a link enters it in backends and its number in *)
(* backend_fds, each under a mutex of its own: the other threads may run   *)
(* in between, the loop does nothing else.                                 *)
(***************************************************************************)
EXTENDS Integers, FiniteSets

CONSTANTS
  Clients,      \* client connections
  Addrs,        \* addresses of back ends
  MaxFd,        \* bound: the descriptor numbers
  MaxLink,      \* bound: links that are made
  MaxReq        \* bound: the new ids

ASSUME GatewayAssumption ==
  /\ MaxFd \in Nat /\ MaxLink \in Nat /\ MaxReq \in Nat
  /\ Clients \cap (0..MaxLink) = {} /\ 0 \notin Addrs

Link == 1..MaxLink
Req == 1..MaxReq
Number == 1..MaxFd
Peer == Clients \cup Link     \* connections whose messages are handled

VARIABLES
  instances,    \* ServiceRegistry::instances_
  sock,         \* the connection behind every number, 0 for none
  clientState,       \* "new", "open" or "closed"
  addr,         \* address of every link that was made, or 0
  linksUp,           \* links whose connection is established
  health,       \* "new": no pong yet, "good" or "bad"
  building,     \* links whose callback waits in the loop's queue
  backends,     \* the entries of backends
  backendFds,   \* backend_fds
  entering,     \* the link whose callback is between the two lists
  overtaken,    \* history: numbers erased before they were entered
  mon,          \* place of the monitor thread
  snap,         \* addresses its pass has still to look at
  toRemove,     \* entries of to_remove that are still to be worked off
  removed,      \* entries of to_remove that are done, but still held
  hand,         \* what the handler of every peer is doing
  nextId,       \* next_new_id
  pending,      \* the ids in pending
  clientConn,       \* client_conn of every id
  overdue,      \* timeouts of the cleanup thread
  sent, back,   \* requests and responses on their way, by link
  answers       \* history: messages sent to the client for every id

linkVars == <<addr, linksUp, health, building>>
listVars == <<backends, backendFds, entering, overtaken>>
monVars == <<mon, snap, toRemove, removed>>
tableVars == <<nextId, pending, clientConn, overdue>>
flightVars == <<sent, back, answers>>

gatewayVars == <<instances, sock, clientState, linkVars, listVars, monVars, hand, tableVars,
                 flightVars>>

NoWork == [at |-> "idle", link |-> 0, id |-> 0]

GatewayTypeOK ==
  /\ instances \subseteq Addrs
  /\ sock \in [Number -> Peer \cup {0}]
  /\ clientState \in [Clients -> {"new", "open", "closed"}]
  /\ addr \in [Link -> Addrs \cup {0}] /\ linksUp \subseteq Link
  /\ health \in [Link -> {"new", "good", "bad"}] /\ building \subseteq Link
  /\ backends \subseteq Link /\ backendFds \subseteq Number
  /\ entering \subseteq Link /\ overtaken \subseteq Number
  /\ mon \in {"idle", "remove", "connect"}
  /\ snap \subseteq Addrs /\ toRemove \subseteq Link /\ removed \subseteq Link
  /\ hand \in [Peer -> [at : {"idle", "picked", "tabled"},
                        link : Link \cup {0}, id : Req \cup {0}]]
  /\ nextId \in 1..(MaxReq + 1) /\ pending \subseteq Req
  /\ clientConn \in [Req -> Peer \cup {0}] /\ overdue \subseteq Req
  /\ sent \subseteq Link \X Req /\ back \subseteq Link \X Req
  /\ answers \in [Req -> Nat]

GatewayInit ==
  /\ instances = {}
  /\ sock = [n \in Number |-> 0]
  /\ clientState = [c \in Clients |-> "new"]
  /\ addr = [l \in Link |-> 0] /\ linksUp = {} /\ building = {}
  /\ health = [l \in Link |-> "new"]
  /\ backends = {} /\ backendFds = {} /\ entering = {} /\ overtaken = {}
  /\ mon = "idle" /\ snap = {} /\ toRemove = {} /\ removed = {}
  /\ hand = [p \in Peer |-> NoWork]
  /\ nextId = 1 /\ pending = {} /\ overdue = {}
  /\ clientConn = [q \in Req |-> 0]
  /\ sent = {} /\ back = {} /\ answers = [q \in Req |-> 0]

-----------------------------------------------------------------------------
(* Clients, back ends and the registry *)

\* ServiceRegistry::Refresh(): back ends register in Redis, and their keys
\* expire when they no longer do.
Refresh ==
  /\ instances' \in (SUBSET Addrs) \ {instances}
  /\ UNCHANGED <<sock, clientState, linkVars, listVars, monVars, hand, tableVars, flightVars>>

\* The kernel gives out the lowest free number.
FreeFd(n) == sock[n] = 0 /\ \A m \in Number : m < n => sock[m] # 0

\* The server accepts a client.
ClientConnects(c, n) ==
  /\ clientState[c] = "new" /\ FreeFd(n)
  /\ clientState' = [clientState EXCEPT ![c] = "open"]
  /\ sock' = [sock EXCEPT ![n] = c]
  /\ UNCHANGED <<instances, linkVars, listVars, monVars, hand, tableVars, flightVars>>

\* A client's connection is closed after its handler, and its number with it.
ClientCloses(c) ==
  /\ clientState[c] = "open" /\ hand[c] = NoWork
  /\ clientState' = [clientState EXCEPT ![c] = "closed"]
  /\ sock' = [n \in Number |-> IF sock[n] = c THEN 0 ELSE sock[n]]
  /\ UNCHANGED <<instances, linkVars, listVars, monVars, hand, tableVars, flightVars>>

\* A back end answers a request; ChatService does so once.
BackendAnswers(l, q) ==
  /\ <<l, q>> \in sent /\ l \in linksUp
  /\ sent' = sent \ {<<l, q>>} /\ back' = back \cup {<<l, q>>}
  /\ UNCHANGED <<instances, sock, clientState, linkVars, listVars, monVars, hand,
                 tableVars, answers>>

\* The loop is in no link's handler, and not in the callback that builds a link.
LoopFree == entering = {} /\ \A l \in Link : hand[l] = NoWork

\* A link's connection ends: the back end died, or the callback posted by
\* Connection::close() ran.  The entry in backends stays.
LinkDown(l) ==
  /\ l \in linksUp \ building /\ LoopFree
  /\ linksUp' = linksUp \ {l}
  /\ sent' = {m \in sent : m[1] # l} /\ back' = {m \in back : m[1] # l}
  /\ UNCHANGED <<instances, sock, clientState, addr, health, building, listVars, monVars,
                 hand, tableVars, answers>>

-----------------------------------------------------------------------------
(* The business handler: on workers for clients, in the loop for links *)

\* Is the message from a back end?  Only the number tells.
IsBackend(p) == \E n \in backendFds : sock[n] = p

\* pick_backend(): any healthy entry.
Pick(p) ==
  \E l \in backends :
    /\ health[l] # "bad"
    /\ hand' = [hand EXCEPT ![p] = [at |-> "picked", link |-> l, id |-> 0]]

\* A client's request.  Without a healthy back end it is dropped.
ClientRequest(c) ==
  /\ clientState[c] = "open" /\ hand[c] = NoWork /\ ~IsBackend(c)
  /\ Pick(c)
  /\ UNCHANGED <<instances, sock, clientState, linkVars, listVars, monVars, tableVars,
                 flightVars>>

\* A response, or the answer to a heartbeat, on a link that the monitor is about
\* to close.  Its number is no longer in backend_fds, so that it is taken for a
\* request and forwarded, or dropped.
TakenForRequest(l) ==
  /\ l \in linksUp \ building /\ LoopFree /\ ~IsBackend(l)
  /\ back' \in {back} \cup {back \ {m} : m \in {k \in back : k[1] = l}}
  /\ Pick(l)
  /\ UNCHANGED <<instances, sock, clientState, linkVars, listVars, monVars, tableVars,
                 sent, answers>>

\* The new id, and the entry in pending.
EnterTable(p) ==
  /\ hand[p].at = "picked" /\ nextId <= MaxReq
  /\ nextId' = nextId + 1
  /\ pending' = pending \cup {nextId}
  /\ clientConn' = [clientConn EXCEPT ![nextId] = p]
  /\ hand' = [hand EXCEPT ![p].at = "tabled", ![p].id = nextId]
  /\ UNCHANGED <<instances, sock, clientState, linkVars, listVars, monVars, overdue, flightVars>>

\* backend->sendResponse(): nothing is sent on a link that is down.
Forward(p) ==
  /\ hand[p].at = "tabled"
  /\ sent' = IF hand[p].link \in linksUp THEN sent \cup {<<hand[p].link, hand[p].id>>}
             ELSE sent
  /\ hand' = [hand EXCEPT ![p] = NoWork]
  /\ UNCHANGED <<instances, sock, clientState, linkVars, listVars, monVars, tableVars, back,
                 answers>>

\* client_conn can be locked and takes a message.
Reachable(p) == IF p \in Clients THEN clientState[p] = "open" ELSE p \in linksUp

\* Requests whose entry was taken out of the table are answered.
Answered(Q) ==
  /\ answers' = [q \in Req |-> IF q \in Q /\ Reachable(clientConn[q]) THEN answers[q] + 1
                               ELSE answers[q]]
  /\ clientConn' = [q \in Req |-> IF q \in Q THEN 0 ELSE clientConn[q]]

\* The entry is read and left for the cleanup thread.
LeftInTable(q) == pending

\* Found: the entry is erased in the critical section that found it.
TakenFromTable(q) == pending \ {q}

\* A response on a link: found, it goes to the client with its own id again; an
\* unknown id is logged.
Response(l, q) ==
  /\ <<l, q>> \in back /\ LoopFree /\ IsBackend(l)
  /\ back' = back \ {<<l, q>>}
  /\ pending' = TakenFromTable(q)
  /\ Answered({q} \cap pending)
  /\ UNCHANGED <<instances, sock, clientState, linkVars, listVars, monVars, hand, nextId,
                 overdue, sent>>

\* A client whose number is in backend_fds: its message is taken for a response, and
\* answers whatever request has its id.
TakenForBackend(c, q) ==
  /\ clientState[c] = "open" /\ hand[c] = NoWork /\ IsBackend(c) /\ q \in pending
  /\ pending' = TakenFromTable(q)
  /\ Answered({q})
  /\ UNCHANGED <<instances, sock, clientState, linkVars, listVars, monVars, hand, nextId,
                 overdue, sent, back>>

\* The answer to a heartbeat.
Pong(l) ==
  /\ l \in linksUp \cap backends /\ LoopFree /\ IsBackend(l) /\ health[l] # "good"
  /\ health' = [health EXCEPT ![l] = "good"]
  /\ UNCHANGED <<instances, sock, clientState, addr, linksUp, building, listVars, monVars, hand,
                 tableVars, flightVars>>

\* The health thread: the last pong is too old.  There was one: a back end that
\* never answered is not looked at.
NoPong(l) ==
  /\ l \in backends /\ health[l] = "good"
  /\ health' = [health EXCEPT ![l] = "bad"]
  /\ UNCHANGED <<instances, sock, clientState, addr, linksUp, building, listVars, monVars, hand,
                 tableVars, flightVars>>

-----------------------------------------------------------------------------
(* The monitor *)

\* A pass begins: entries whose address has disappeared leave backends.  A pass
\* that has nothing to do is left out.
MonitorScan ==
  /\ mon = "idle" /\ instances # {addr[l] : l \in backends}
  /\ snap' = instances
  /\ toRemove' = {l \in backends : addr[l] \notin instances}
  /\ backends' = backends \ toRemove'
  /\ health' = [l \in Link |-> IF l \in toRemove' THEN "new" ELSE health[l]]
  /\ mon' = "remove"
  /\ UNCHANGED <<instances, sock, clientState, addr, linksUp, building, backendFds, entering,
                 overtaken, removed, hand, tableVars, flightVars>>

\* The number is left to the close callback, which does not know backend_fds.
NumberKept(l) == backendFds

\* The numbers of a link (one, while it has its socket).
NumberOf(l) == {n \in Number : sock[n] = l}

\* backend_fds.erase(fd), which does nothing if the number is not there yet.
NumberErased(l) == backendFds \ NumberOf(l)

\* For each of them backend_fds.erase(), then close(), which only posts.
MonitorRemove(l) ==
  /\ mon = "remove" /\ l \in toRemove
  /\ backendFds' = NumberErased(l)
  /\ overtaken' = IF l \in entering THEN overtaken \cup NumberOf(l)
                  ELSE overtaken \ NumberOf(l)
  /\ toRemove' = toRemove \ {l} /\ removed' = removed \cup {l}
  /\ UNCHANGED <<instances, sock, clientState, linkVars, backends, entering, mon, snap, hand,
                 tableVars, flightVars>>

MonitorRemoved ==
  /\ mon = "remove" /\ toRemove = {}
  /\ mon' = "connect"
  /\ UNCHANGED <<instances, sock, clientState, linkVars, listVars, snap, toRemove, removed,
                 hand, tableVars, flightVars>>

HasAddr(a) == \E l \in backends : addr[l] = a

\* Connect to a new address and post the rest to the loop.
MonitorConnect(a, l, n) ==
  /\ mon = "connect" /\ a \in snap /\ ~HasAddr(a)
  /\ addr[l] = 0 /\ \A k \in Link : k < l => addr[k] # 0
  /\ FreeFd(n)
  /\ sock' = [sock EXCEPT ![n] = l]
  /\ addr' = [addr EXCEPT ![l] = a]
  /\ linksUp' = linksUp \cup {l} /\ building' = building \cup {l}
  /\ snap' = snap \ {a}
  /\ UNCHANGED <<instances, clientState, health, listVars, mon, toRemove, removed, hand,
                 tableVars, flightVars>>

\* The address is known, or the connection attempt failed.
MonitorSkip(a) ==
  /\ mon = "connect" /\ a \in snap
  /\ snap' = snap \ {a}
  /\ UNCHANGED <<instances, sock, clientState, linkVars, listVars, mon, toRemove, removed, hand,
                 tableVars, flightVars>>

\* The pass ends and to_remove goes out of scope.
MonitorEnd ==
  /\ mon = "connect" /\ snap = {}
  /\ mon' = "idle" /\ removed' = {}
  /\ UNCHANGED <<instances, sock, clientState, linkVars, listVars, snap, toRemove, hand,
                 tableVars, flightVars>>

\* The posted callback: build the connection and enter it in backends...
Build(l) ==
  /\ l \in building /\ LoopFree
  /\ building' = building \ {l}
  /\ backends' = backends \cup {l} /\ entering' = {l}
  /\ UNCHANGED <<instances, sock, clientState, addr, linksUp, health, backendFds, overtaken,
                 monVars, hand, tableVars, flightVars>>

\* ...then its number in backend_fds, whether or not the link is still in backends.
InsertNumber(l) ==
  /\ l \in entering
  /\ backendFds' = backendFds \cup NumberOf(l) /\ entering' = {}
  /\ UNCHANGED <<instances, sock, clientState, linkVars, backends, overtaken, monVars, hand,
                 tableVars, flightVars>>

\* ~Connection(), when nothing holds the link any more: its number is free.
LinkDestroyed(l) ==
  /\ \E n \in Number : sock[n] = l
  /\ l \notin backends \cup building \cup entering \cup toRemove \cup removed
  /\ hand[l] = NoWork /\ \A p \in Peer : hand[p].link # l
  /\ sock' = [n \in Number |-> IF sock[n] = l THEN 0 ELSE sock[n]]
  /\ linksUp' = linksUp \ {l}
  /\ sent' = {m \in sent : m[1] # l} /\ back' = {m \in back : m[1] # l}
  /\ UNCHANGED <<instances, clientState, addr, health, building, listVars, monVars, hand,
                 tableVars, answers>>

-----------------------------------------------------------------------------
(* The cleanup thread *)

\* Under pending_mutex: an overdue entry is collected and erased.
Expire(q) ==
  /\ q \in pending
  /\ pending' = pending \ {q}
  /\ overdue' = overdue \cup {q}
  /\ UNCHANGED <<instances, sock, clientState, linkVars, listVars, monVars, hand, nextId,
                 clientConn, flightVars>>

\* ...and answered with TIMEOUT outside the lock.
SendTimeout(q) ==
  /\ q \in overdue
  /\ overdue' = overdue \ {q}
  /\ Answered({q})
  /\ UNCHANGED <<instances, sock, clientState, linkVars, listVars, monVars, hand, nextId,
                 pending, sent, back>>

GatewayNext ==
  \/ \E a \in Addrs : MonitorSkip(a)
  \/ Refresh \/ MonitorScan \/ MonitorRemoved \/ MonitorEnd
  \/ \E c \in Clients : ClientCloses(c) \/ ClientRequest(c)
  \/ \E c \in Clients, n \in Number : ClientConnects(c, n)
  \/ \E p \in Peer : EnterTable(p) \/ Forward(p)
  \/ \E l \in Link : \/ LinkDown(l) \/ TakenForRequest(l) \/ Pong(l) \/ NoPong(l)
                     \/ MonitorRemove(l) \/ Build(l) \/ InsertNumber(l)
                     \/ LinkDestroyed(l)
  \/ \E c \in Clients, q \in Req : TakenForBackend(c, q)
  \/ \E l \in Link, q \in Req : BackendAnswers(l, q) \/ Response(l, q)
  \/ \E a \in Addrs, l \in Link, n \in Number : MonitorConnect(a, l, n)
  \/ \E q \in Req : Expire(q) \/ SendTimeout(q)

GatewaySpec == GatewayInit /\ [][GatewayNext]_gatewayVars

-----------------------------------------------------------------------------
\* A request is answered at most once, with the back end's response or with
\* TIMEOUT, although a response may arrive while the cleanup thread is at work,
\* and one that is still in the table has not been answered.
AnsweredOnce ==
  /\ GatewayTypeOK
  /\ \A q \in Req : /\ answers[q] <= 1
                    /\ q \in pending \cup overdue => answers[q] = 0
                    /\ q \notin pending \cap overdue

\* backend_fds follows the lists, whichever numbers are used again: a link in
\* backends or still to be removed is recognised by its number once its callback has
\* ended, and a number of nothing else is in the set, but for one that the monitor
\* erased before the callback had entered it (see NoClientIsBackend).
NumbersFollowLinks ==
  \A n \in Number :
    /\ sock[n] \in (backends \cup toRemove) \ entering => n \in backendFds
    /\ n \in backendFds => sock[n] \in backends \cup toRemove \/ n \in overtaken

\* backend_fds tells back ends from clients, as its comment says: no client, also one
\* that is given the number of a former link, is taken for a back end.  Its messages
\* would be looked up in the table instead of being forwarded.
NoClientIsBackend == \A c \in Clients : ~IsBackend(c)
=============================================================================
