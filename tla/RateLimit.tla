------------------------------ MODULE RateLimit ------------------------------
(***************************************************************************)
(* Admission of requests: ChatService::handleMessage() asks a global token *)
(* bucket, then the bucket of the session or, before login, of the         *)
(* descriptor; onConnectionClosed() removes the buckets of a connection    *)
(* (TokenBucket behind the interface RateLimiter).                         *)
(*                                                                         *)
(* One critical section of a limiter's mutex_ is one step.  Tokens are     *)
(* counted in units of which a request costs Cost, so that the double      *)
(* arithmetic of refill() is exact; time is counted in ticks.              *)
(* Heartbeats pass both limiters and are left out.                         *)
(*                                                                         *)
(* Connection shows that a connection's handlers are serial and that its   *)
(* cleanup follows the last of them and precedes the reuse of its number.  *)
(***************************************************************************)
EXTENDS Integers, FiniteSets

CONSTANTS
  LimitFds,            \* descriptor numbers
  Cost,           \* units in one token
  Rate,           \* units a user's bucket gains per tick
  Capacity,       \* units a user's bucket holds
  GlobalRate, GlobalCapacity,   \* the same of the global bucket
  MaxTime,        \* bound: ticks
  MaxLogin      \* bound: logins

ASSUME RateAssumption ==
  /\ {Cost, Rate, Capacity, GlobalRate, GlobalCapacity} \subseteq Nat \ {0}
  /\ {MaxTime, MaxLogin} \subseteq Nat

\* "fd:n" and "user:id".
Key == ({"fd"} \X LimitFds) \cup ({"user"} \X (1..MaxLogin))

VARIABLES
  now,          \* steady_clock
  global,       \* the bucket "global" of global_limiter_
  buckets,      \* buckets_ of user_limiter_: a function on the keys it has
  session,      \* sessions_: the id of the session under a number, 0 for none
  logins,       \* next_session_id_ - 1
  place,        \* where each connection is
  replaced,     \* history: sessions that a second login on their connection replaced
  admitted      \* history: requests both limiters let through

vars == <<now, global, buckets, session, logins, place, replaced, admitted>>

Bucket == [tokens : Nat, last : 0..MaxTime, born : 0..MaxTime, granted : Nat]

TypeOK ==
  /\ now \in 0..MaxTime /\ global \in Bucket
  /\ DOMAIN buckets \subseteq Key /\ \A k \in DOMAIN buckets : buckets[k] \in Bucket
  /\ session \in [LimitFds -> 0..MaxLogin] /\ logins \in 0..MaxLogin
  /\ place \in [LimitFds -> {"free", "idle", "user", "dispatch", "closeSession"}]
  /\ replaced \subseteq 1..MaxLogin /\ admitted \in Nat

\* A full bucket, as tryAcquire() makes it at the first request for its key.
Fresh(capacity) == [tokens |-> capacity, last |-> now, born |-> now, granted |-> 0]

Init ==
  /\ now = 0 /\ global = Fresh(GlobalCapacity)
  /\ buckets = [k \in {} |-> Fresh(Capacity)]
  /\ session = [fd \in LimitFds |-> 0] /\ logins = 0
  /\ place = [fd \in LimitFds |-> "free"]
  /\ replaced = {} /\ admitted = 0

-----------------------------------------------------------------------------
(* TokenBucket *)

\* A refill that forgets last_refill.
RefillAgain(b, rate, capacity) ==
  LET sum == b.tokens + (now - b.last) * rate
  IN  [b EXCEPT !.tokens = IF sum < capacity THEN sum ELSE capacity]

\* refill()
Refill(b, rate, capacity) ==
  LET sum == b.tokens + (now - b.last) * rate
  IN  [b EXCEPT !.tokens = IF sum < capacity THEN sum ELSE capacity, !.last = now]

\* The end of tryAcquire(): one token if there is one.
Take(b) ==
  IF b.tokens >= Cost
  THEN [b EXCEPT !.tokens = @ - Cost, !.granted = @ + 1]
  ELSE b

\* buckets_.find(key), a new bucket if there is none.
Found(k) == IF k \in DOMAIN buckets THEN buckets[k] ELSE Fresh(Capacity)

\* buckets_ with key k bound to b, and without key k.
Bound(k, b) == [j \in DOMAIN buckets \cup {k} |-> IF j = k THEN b ELSE buckets[j]]
Erased(k) == [j \in DOMAIN buckets \ {k} |-> buckets[j]]

-----------------------------------------------------------------------------
(* handleMessage() *)

Goto(fd, p) == place' = [place EXCEPT ![fd] = p]

\* The global limiter.  A request it refuses is answered RATE_LIMITED.
AcquireGlobal(fd) ==
  /\ place[fd] = "idle"
  /\ LET b == Refill(global, GlobalRate, GlobalCapacity) IN
       /\ global' = Take(b)
       /\ IF b.tokens >= Cost THEN Goto(fd, "user") ELSE UNCHANGED place
  /\ UNCHANGED <<now, buckets, session, logins, replaced, admitted>>

\* The key is the session's id once there is one.
KeyOf(fd) == IF session[fd] # 0 THEN <<"user", session[fd]>> ELSE <<"fd", fd>>

\* The user's limiter.  A request it refuses has used up a global token.
AcquireUser(fd) ==
  /\ place[fd] = "user"
  /\ LET k == KeyOf(fd)
         b == Refill(Found(k), Rate, Capacity)
     IN  /\ buckets' = Bound(k, Take(b))
         /\ IF b.tokens >= Cost
              THEN Goto(fd, "dispatch") /\ admitted' = admitted + 1
              ELSE Goto(fd, "idle") /\ UNCHANGED admitted
  /\ UNCHANGED <<now, global, session, logins, replaced>>

\* The handler: a login that succeeds makes a session with an id of its own; any
\* other request changes nothing here.
Dispatch(fd) ==
  /\ place[fd] = "dispatch"
  /\ Goto(fd, "idle")
  /\ \/ UNCHANGED <<session, logins, replaced>>
     \/ /\ logins < MaxLogin
        /\ logins' = logins + 1
        /\ session' = [session EXCEPT ![fd] = logins + 1]
        /\ replaced' = replaced \cup ({session[fd]} \ {0})
  /\ UNCHANGED <<now, global, buckets, admitted>>

-----------------------------------------------------------------------------
(* Connections *)

Accept(fd) ==
  /\ place[fd] = "free"
  /\ Goto(fd, "idle")
  /\ UNCHANGED <<now, global, buckets, session, logins, replaced, admitted>>

\* onConnectionClosed(): removeKey("fd:n")...
CloseFd(fd) ==
  /\ place[fd] = "idle"
  /\ buckets' = Erased(<<"fd", fd>>)
  /\ Goto(fd, "closeSession")
  /\ UNCHANGED <<now, global, session, logins, replaced, admitted>>

\* ...the session is taken out of sessions_, and its bucket is forgotten.
CloseSessionOnly(fd) ==
  /\ place[fd] = "closeSession"
  /\ session' = [session EXCEPT ![fd] = 0]
  /\ Goto(fd, "free")
  /\ UNCHANGED <<now, global, buckets, logins, replaced, admitted>>

\* ...then the session is taken out of sessions_ and its bucket removed.  The two
\* are one step: no other connection uses the id of this session.
CloseSession(fd) ==
  /\ place[fd] = "closeSession"
  /\ session' = [session EXCEPT ![fd] = 0]
  /\ buckets' = IF session[fd] = 0 THEN buckets ELSE Erased(<<"user", session[fd]>>)
  /\ Goto(fd, "free")
  /\ UNCHANGED <<now, global, logins, replaced, admitted>>

Tick ==
  /\ now < MaxTime /\ now' = now + 1
  /\ UNCHANGED <<global, buckets, session, logins, place, replaced, admitted>>

Next ==
  \/ \E fd \in LimitFds :
       \/ Accept(fd) \/ AcquireGlobal(fd) \/ AcquireUser(fd) \/ Dispatch(fd)
       \/ CloseFd(fd) \/ CloseSession(fd)
  \/ Tick

Spec == Init /\ [][Next]_vars

-----------------------------------------------------------------------------
(* Properties *)

\* What a bucket has granted since it was made, and what it still holds, never
\* exceed its capacity and what its rate has brought since then.
Bounded(b, rate, capacity) ==
  /\ b.tokens <= capacity /\ b.born <= b.last /\ b.last <= now
  /\ b.granted * Cost + b.tokens <= capacity + rate * (b.last - b.born)

\* Both limiters keep their promise however the requests of the connections
\* interleave, and so the service as a whole admits no more than the global
\* bucket grants.
RateBound ==
  /\ TypeOK
  /\ Bounded(global, GlobalRate, GlobalCapacity)
  /\ \A k \in DOMAIN buckets : Bounded(buckets[k], Rate, Capacity)
  /\ admitted <= global.granted

\* RateLimiter.h: removeKey() keeps the buckets from growing without bound.  A
\* bucket belongs to a connection that is open or to its session; only a session
\* that a second login on its connection replaced leaves its bucket behind.
BucketsFollowConnections ==
  \A k \in DOMAIN buckets :
    \/ k[1] = "fd" /\ place[k[2]] \in {"idle", "user", "dispatch"}
    \/ k[1] = "user" /\ (k[2] \in replaced \/ \E fd \in LimitFds : session[fd] = k[2])
=============================================================================
