--------------------------- MODULE RequestsProofs ---------------------------
(***************************************************************************)
(* Proofs about the two ends of a request, for every value of the          *)
(* constants.                                                              *)
(*                                                                         *)
(* RateLimit: any set of descriptors, any cost, rates and capacities, any  *)
(* number of logins and ticks.                                             *)
(*                                                                         *)
(* QtClient: any rooms and any number of requests.  What the controls of   *)
(* the window and the frames under way will come to is followed through    *)
(* every step; the box that reports an error, whose own event loop runs    *)
(* the slots again, is where this is not obvious.                          *)
(***************************************************************************)
EXTENDS RateLimit, QtClient, SequenceTheorems, FiniteSetTheorems, WellFoundedInduction, TLAPS

-----------------------------------------------------------------------------
(* The rate limits *)

\* The requests that hold a global token and have not been admitted yet.
Waiting == {fd \in LimitFds : place[fd] = "user"}

\* RateBound with what it rests on: every token the global bucket granted is
\* with a request that was admitted, refused or still waits for the user's
\* limiter, and the global bucket is as old as the server.
RateInv ==
  /\ RateBound
  /\ IsFiniteSet(Waiting) /\ admitted + Cardinality(Waiting) <= global.granted
  /\ global.born = 0

-----------------------------------------------------------------------------
(* The bucket *)

\* Tokens brought in two intervals are those brought in both together.
LEMMA Distribute ==
  ASSUME NEW r \in Int, NEW x \in Int, NEW y \in Int
  PROVE  r * x + y * r = r * (x + y)
OBVIOUS

\* The product of two naturals, which the solver does not type by itself.
LEMMA ProductNat ==
  ASSUME NEW x \in Nat, NEW y \in Nat PROVE x * y \in Nat
OBVIOUS

\* The assumption on the constants, by its parts.
LEMMA Constants ==
  /\ Cost \in Nat /\ Cost > 0 /\ Rate \in Nat /\ Capacity \in Nat
  /\ GlobalRate \in Nat /\ GlobalCapacity \in Nat
  /\ MaxTime \in Nat /\ MaxLogin \in Nat
BY RateAssumption

\* A new bucket is full and has granted nothing.
LEMMA FreshBounded ==
  ASSUME now \in 0..MaxTime, NEW rate \in Nat, NEW capacity \in Nat
  PROVE  /\ Fresh(capacity) \in Bucket
         /\ Bounded(Fresh(capacity), rate, capacity)
<1>1. Fresh(capacity) \in Bucket
    BY Constants DEF Fresh, Bucket
<1>2. 0 * Cost = 0 /\ rate * (now - now) = 0
    BY Constants
<1> QED
    BY <1>1, <1>2, Constants DEF Fresh, Bounded

\* refill() brings the bucket up to date, and no more than the rate allows.
LEMMA RefillBounded ==
  ASSUME now \in 0..MaxTime, NEW rate \in Nat, NEW capacity \in Nat,
         NEW b \in Bucket, Bounded(b, rate, capacity)
  PROVE  /\ Refill(b, rate, capacity) \in Bucket
         /\ Bounded(Refill(b, rate, capacity), rate, capacity)
         /\ Refill(b, rate, capacity).granted = b.granted
         /\ Refill(b, rate, capacity).born = b.born
<1> DEFINE r == Refill(b, rate, capacity)
           gain == (now - b.last) * rate
           spent == b.granted * Cost
<1>t. /\ b.tokens \in Nat /\ b.last \in Nat /\ b.born \in Nat /\ b.granted \in Nat
      /\ b.last <= now /\ b.born <= b.last /\ now \in Nat
    BY Constants DEF Bucket, Bounded
<1>1. gain \in Nat /\ spent \in Nat
  <2>1. now - b.last \in Nat
      BY <1>t
  <2> QED BY <2>1, <1>t, Constants, ProductNat
<1>2. /\ r.last = now /\ r.born = b.born /\ r.granted = b.granted
      /\ r.tokens = IF b.tokens + gain < capacity THEN b.tokens + gain ELSE capacity
    BY DEF Refill, Bucket
<1>3. r \in Bucket
  <2>1. r.tokens \in Nat
    <3> HIDE DEF gain
    <3> QED BY <1>1, <1>2, <1>t
  <2>2. ASSUME NEW n \in Nat PROVE [b EXCEPT !.tokens = n, !.last = now] \in Bucket
      BY DEF Bucket
  <2> QED BY <2>1, <2>2, <1>2 DEF Refill
<1>4. rate * (b.last - b.born) + gain = rate * (now - b.born)
  <2>1. /\ b.last - b.born \in Int /\ now - b.last \in Int
        /\ (b.last - b.born) + (now - b.last) = now - b.born
      BY <1>t
  <2> QED BY <2>1, Distribute
<1>5. spent + r.tokens <= capacity + rate * (now - b.born)
  <2>1. spent + b.tokens <= capacity + rate * (b.last - b.born)
      BY DEF Bounded
  <2>2. rate * (b.last - b.born) \in Int /\ rate * (now - b.born) \in Int
      BY <1>t
  <2>3. r.tokens <= b.tokens + gain
    <3> HIDE DEF gain
    <3> QED BY <1>1, <1>2, <1>t
  <2>4. r.tokens \in Nat
      BY <1>3 DEF Bucket
  <2> HIDE DEF gain, spent, r
  <2> DEFINE A == rate * (b.last - b.born)
             B == rate * (now - b.born)
  <2>5. A \in Int /\ B \in Int /\ A + gain = B /\ spent + b.tokens <= capacity + A
      BY <1>4, <2>1, <2>2
  <2> HIDE DEF A, B
  <2>6. spent + r.tokens <= capacity + B
      BY <1>1, <1>t, <2>3, <2>4, <2>5
  <2> QED BY <2>6 DEF B
<1>6. r.tokens <= capacity
  <2> HIDE DEF gain
  <2> QED BY <1>1, <1>2, <1>t
<1> HIDE DEF r
<1> QED
    BY <1>2, <1>3, <1>5, <1>6, <1>t DEF Bounded, r

\* tryAcquire() turns a token into a grant, so the bound is kept.
LEMMA TakeBounded ==
  ASSUME now \in 0..MaxTime, NEW rate \in Nat, NEW capacity \in Nat,
         NEW b \in Bucket, Bounded(b, rate, capacity)
  PROVE  /\ Take(b) \in Bucket
         /\ Bounded(Take(b), rate, capacity)
         /\ Take(b).granted = IF b.tokens >= Cost THEN b.granted + 1 ELSE b.granted
         /\ Take(b).born = b.born
<1>t. b.tokens \in Nat /\ b.granted \in Nat /\ b.last \in Nat /\ b.born \in Nat
    BY Constants DEF Bucket
<1>1. CASE ~(b.tokens >= Cost)
    BY <1>1 DEF Take
<1>2. CASE b.tokens >= Cost
  <2> DEFINE r == Take(b)
  <2>1. /\ r.tokens = b.tokens - Cost /\ r.granted = b.granted + 1
        /\ r.last = b.last /\ r.born = b.born
        /\ r = [tokens |-> b.tokens - Cost, last |-> b.last, born |-> b.born,
                granted |-> b.granted + 1]
      BY <1>2 DEF Take, Bucket
  <2>2. r.tokens \in Nat /\ r.granted \in Nat
      BY <1>2, <1>t, <2>1, Constants
  <2>3. r \in Bucket
    <3> HIDE DEF r
    <3> QED BY <2>1, <2>2 DEF Bucket
  <2>4. r.granted * Cost + r.tokens = b.granted * Cost + b.tokens
    <3>1. (b.granted + 1) * Cost = b.granted * Cost + Cost
        BY <1>t, Constants
    <3>2. b.granted * Cost \in Int
        BY <1>t, Constants
    <3> DEFINE g == b.granted * Cost
    <3> HIDE DEF g, r
    <3>3. g + Cost + (b.tokens - Cost) = g + b.tokens
        BY <3>2, <1>t, Constants DEF g
    <3> QED BY <3>1, <3>3, <2>1 DEF g
  <2>5. r.tokens <= capacity
    <3> HIDE DEF r
    <3> QED BY <2>1, <1>t, Constants DEF Bounded
  <2> HIDE DEF r
  <2> QED BY <1>2, <2>1, <2>3, <2>4, <2>5 DEF Bounded, r
<1> QED BY <1>1, <1>2
-----------------------------------------------------------------------------
(* The limiters *)

\* Every step keeps the types and the bounds.
LEMMA RateStep ==
  ASSUME RateInv, [Next]_vars PROVE RateInv'
<1> USE DEF RateInv, RateBound, Goto
<1>t. TypeOK /\ now \in 0..MaxTime
    BY DEF TypeOK
<1>f. Cardinality(Waiting) \in Nat
    BY FS_CardinalityType
<1>1. ASSUME NEW fd \in LimitFds, Accept(fd) PROVE RateInv'
  <2>1. TypeOK'
      BY <1>1, <1>t DEF Accept, TypeOK, Bucket
  <2>2. Waiting' = Waiting
      BY <1>1, <1>t DEF Accept, TypeOK, Waiting
  <2> QED BY <1>1, <2>1, <2>2 DEF Accept, Bounded
<1>2. ASSUME NEW fd \in LimitFds, AcquireGlobal(fd) PROVE RateInv'
  <2> DEFINE b == Refill(global, GlobalRate, GlobalCapacity)
  <2>1. /\ b \in Bucket /\ Bounded(b, GlobalRate, GlobalCapacity)
        /\ b.granted = global.granted /\ b.born = 0
      BY <1>t, RefillBounded, Constants DEF TypeOK
  <2>2. /\ global' = Take(b) /\ global' \in Bucket
        /\ Bounded(Take(b), GlobalRate, GlobalCapacity)
        /\ global'.granted = IF b.tokens >= Cost THEN b.granted + 1 ELSE b.granted
        /\ global'.born = 0
    <3> HIDE DEF b
    <3>1. global' = Take(b)
        BY <1>2 DEF AcquireGlobal, b
    <3> QED BY <3>1, <2>1, <1>t, TakeBounded, Constants
  <2>u. UNCHANGED <<now, buckets, session, logins, replaced, admitted>>
      BY <1>2 DEF AcquireGlobal
  <2>3. TypeOK'
    <3>1. place' \in [LimitFds -> {"free", "idle", "user", "dispatch", "closeSession"}]
        BY <1>2, <1>t DEF AcquireGlobal, TypeOK
    <3> QED BY <2>2, <2>u, <3>1, <1>t DEF TypeOK
  <2>4. CASE b.tokens >= Cost
    <3>1. fd \notin Waiting /\ Waiting' = Waiting \cup {fd}
        BY <1>2, <2>4, <1>t DEF AcquireGlobal, TypeOK, Waiting
    <3>2. IsFiniteSet(Waiting') /\ Cardinality(Waiting') = Cardinality(Waiting) + 1
        BY <3>1, FS_AddElement
    <3>3. global.granted \in Nat /\ admitted \in Nat
        BY <1>t DEF TypeOK, Bucket
    <3>4. admitted' + Cardinality(Waiting') <= global'.granted
        BY <3>2, <3>3, <2>1, <2>2, <2>4, <2>u, <1>f
    <3>5. admitted' <= global'.granted
        BY <3>3, <2>1, <2>2, <2>4, <2>u
    <3> QED BY <2>2, <2>3, <2>u, <3>2, <3>4, <3>5 DEF Bounded
  <2>5. CASE ~(b.tokens >= Cost)
    <3>1. Waiting' = Waiting
        BY <1>2, <2>5 DEF AcquireGlobal, Waiting
    <3> QED BY <2>1, <2>2, <2>3, <2>5, <2>u, <3>1 DEF Bounded
  <2> QED BY <2>4, <2>5
<1>3. ASSUME NEW fd \in LimitFds, AcquireUser(fd) PROVE RateInv'
  <2> DEFINE k == KeyOf(fd)
             b == Refill(Found(k), Rate, Capacity)
  <2>u. UNCHANGED <<now, global, session, logins, replaced>>
      BY <1>3 DEF AcquireUser
  <2>k. k \in Key
      BY <1>t, Constants DEF TypeOK, KeyOf, Key
  <2>1. Found(k) \in Bucket /\ Bounded(Found(k), Rate, Capacity)
    <3>1. CASE k \in DOMAIN buckets
        BY <3>1, <1>t DEF Found, TypeOK
    <3>2. CASE k \notin DOMAIN buckets
        BY <3>2, <1>t, FreshBounded, Constants DEF Found
    <3> QED BY <3>1, <3>2
  <2>2. Take(b) \in Bucket /\ Bounded(Take(b), Rate, Capacity)
    <3>1. b \in Bucket /\ Bounded(b, Rate, Capacity)
        BY <2>1, <1>t, RefillBounded, Constants
    <3> HIDE DEF b
    <3> QED BY <3>1, <1>t, TakeBounded, Constants
  <2>3. buckets' = Bound(k, Take(b))
      BY <1>3 DEF AcquireUser
  <2>4. /\ DOMAIN buckets' = DOMAIN buckets \cup {k}
        /\ \A j \in DOMAIN buckets' :
             buckets'[j] = IF j = k THEN Take(b) ELSE buckets[j]
    <3> HIDE DEF k, b
    <3> QED BY <2>3 DEF Bound
  <2>5. /\ DOMAIN buckets' \subseteq Key
        /\ \A j \in DOMAIN buckets' :
             buckets'[j] \in Bucket /\ Bounded(buckets'[j], Rate, Capacity)
    <3> HIDE DEF k, b
    <3> QED BY <2>k, <2>2, <2>4, <1>t DEF TypeOK
  <2>6. /\ place[fd] = "user"
        /\ \/ place' = [place EXCEPT ![fd] = "dispatch"] /\ admitted' = admitted + 1
           \/ place' = [place EXCEPT ![fd] = "idle"] /\ admitted' = admitted
      BY <1>3 DEF AcquireUser
  <2>7. TypeOK'
    <3>1. place' \in [LimitFds -> {"free", "idle", "user", "dispatch", "closeSession"}]
        BY <2>6, <1>t DEF TypeOK
    <3>2. admitted' \in Nat
        BY <2>6, <1>t DEF TypeOK
    <3> QED BY <2>5, <2>u, <3>1, <3>2, <1>t DEF TypeOK
  <2>8. fd \in Waiting /\ Waiting' = Waiting \ {fd}
      BY <2>6, <1>t DEF TypeOK, Waiting
  <2>9. IsFiniteSet(Waiting') /\ Cardinality(Waiting') = Cardinality(Waiting) - 1
      BY <2>8, FS_RemoveElement
  <2>10. global.granted \in Nat /\ admitted \in Nat
      BY <1>t DEF TypeOK, Bucket
  <2>11. Cardinality(Waiting') \in Nat
      BY <2>9, FS_CardinalityType
  <2>12. /\ admitted' + Cardinality(Waiting') <= global'.granted
         /\ admitted' <= global'.granted
      BY <2>6, <2>9, <2>10, <2>11, <2>u, <1>f
  <2>13. Bounded(global, GlobalRate, GlobalCapacity)' /\ global'.born = 0
      BY <2>u DEF Bounded
  <2>14. \A j \in DOMAIN buckets' : Bounded(buckets[j], Rate, Capacity)'
      BY <2>5, <2>u DEF Bounded
  <2> QED BY <2>7, <2>9, <2>12, <2>13, <2>14
<1>4. ASSUME NEW fd \in LimitFds, Dispatch(fd) PROVE RateInv'
  <2>1. TypeOK'
    <3>1. /\ session \in [LimitFds -> 0..MaxLogin] /\ logins \in 0..MaxLogin
          /\ replaced \subseteq 1..MaxLogin /\ MaxLogin \in Nat
        BY <1>t, Constants DEF TypeOK
    <3>2. /\ session' \in [LimitFds -> 0..MaxLogin] /\ logins' \in 0..MaxLogin
          /\ replaced' \subseteq 1..MaxLogin
      <4>1. CASE UNCHANGED <<session, logins, replaced>>
          BY <3>1, <4>1
      <4>2. CASE /\ logins < MaxLogin /\ logins' = logins + 1
                 /\ session' = [session EXCEPT ![fd] = logins + 1]
                 /\ replaced' = replaced \cup ({session[fd]} \ {0})
        <5>1. logins + 1 \in 0..MaxLogin /\ session[fd] \in 0..MaxLogin
            BY <3>1, <4>2
        <5>2. {session[fd]} \ {0} \subseteq 1..MaxLogin
            BY <3>1, <5>1
        <5> QED BY <3>1, <4>2, <5>1, <5>2
      <4> QED BY <1>4, <4>1, <4>2 DEF Dispatch
    <3>3. place' \in [LimitFds -> {"free", "idle", "user", "dispatch", "closeSession"}]
        BY <1>4, <1>t DEF Dispatch, TypeOK
    <3>4. UNCHANGED <<now, global, buckets, admitted>>
        BY <1>4 DEF Dispatch
    <3> QED BY <1>t, <3>2, <3>3, <3>4 DEF TypeOK
  <2>2. Waiting' = Waiting
      BY <1>4, <1>t DEF Dispatch, TypeOK, Waiting
  <2> QED BY <1>4, <2>1, <2>2 DEF Dispatch, Bounded
<1>5. ASSUME NEW fd \in LimitFds, CloseFd(fd) PROVE RateInv'
  <2>1. /\ DOMAIN buckets' \subseteq DOMAIN buckets
        /\ \A k \in DOMAIN buckets' : buckets'[k] = buckets[k]
      BY <1>5 DEF CloseFd, Erased
  <2>2. TypeOK'
      BY <1>5, <1>t, <2>1 DEF CloseFd, TypeOK
  <2>3. Waiting' = Waiting
      BY <1>5, <1>t DEF CloseFd, TypeOK, Waiting
  <2> QED BY <1>5, <2>1, <2>2, <2>3 DEF CloseFd, Bounded
<1>6. ASSUME NEW fd \in LimitFds, CloseSession(fd) PROVE RateInv'
  <2>1. /\ DOMAIN buckets' \subseteq DOMAIN buckets
        /\ \A k \in DOMAIN buckets' : buckets'[k] = buckets[k]
      BY <1>6 DEF CloseSession, Erased
  <2>2. TypeOK'
      BY <1>6, <1>t, <2>1, Constants DEF CloseSession, TypeOK
  <2>3. Waiting' = Waiting
      BY <1>6, <1>t DEF CloseSession, TypeOK, Waiting
  <2> QED BY <1>6, <2>1, <2>2, <2>3 DEF CloseSession, Bounded
<1>7. CASE Tick
  <2>1. now' = now + 1 /\ now' \in 0..MaxTime /\ now \in Nat
      BY <1>7, <1>t, Constants DEF Tick
  <2>u. UNCHANGED <<global, buckets, session, logins, place, replaced, admitted>>
      BY <1>7 DEF Tick
  <2>2. TypeOK'
      BY <2>1, <2>u, <1>t DEF TypeOK
  <2>3. ASSUME NEW c \in Bucket, NEW rate, NEW capacity, Bounded(c, rate, capacity)
        PROVE  /\ c.tokens <= capacity /\ c.born <= c.last /\ c.last <= now'
               /\ c.granted * Cost + c.tokens <= capacity + rate * (c.last - c.born)
    <3>1. c.last \in Nat
        BY Constants DEF Bucket
    <3>2. c.last <= now'
        BY <2>1, <2>3, <3>1 DEF Bounded
    <3> QED BY <2>3, <3>2 DEF Bounded
  <2>4. Bounded(global, GlobalRate, GlobalCapacity)'
      BY <2>3, <2>u, <1>t DEF Bounded, TypeOK
  <2>5. \A k \in DOMAIN buckets' : Bounded(buckets[k], Rate, Capacity)'
      BY <2>3, <2>u, <1>t DEF Bounded, TypeOK
  <2> QED BY <2>2, <2>4, <2>5, <2>u DEF Waiting
<1>8. CASE UNCHANGED vars
    BY <1>8 DEF vars, TypeOK, Bounded, Waiting
<1> QED
    BY <1>1, <1>2, <1>3, <1>4, <1>5, <1>6, <1>7, <1>8 DEF Next

\* Before the first step the global bucket is full and there is no other.
LEMMA RateInit == Init => RateInv
<1> SUFFICES ASSUME Init PROVE RateInv
    OBVIOUS
<1>1. now \in 0..MaxTime /\ now = 0
    BY Constants DEF Init
<1>2. global \in Bucket /\ Bounded(global, GlobalRate, GlobalCapacity)
    BY <1>1, FreshBounded, Constants DEF Init
<1>3. DOMAIN buckets = {}
    BY DEF Init
<1>4. TypeOK
    BY <1>1, <1>2, <1>3, Constants DEF Init, TypeOK
<1>5. Waiting = {}
    BY DEF Init, Waiting
<1>6. IsFiniteSet(Waiting) /\ Cardinality(Waiting) = 0
    BY <1>5, FS_EmptySet
<1>7. global.granted = 0 /\ global.born = 0 /\ admitted = 0
    BY <1>1 DEF Init, Fresh
<1> QED
    BY <1>2, <1>3, <1>4, <1>6, <1>7 DEF RateInv, RateBound

\* RateInv is an invariant for every set of descriptors and every setting of the
\* two token buckets.
THEOREM RateInvariance == Spec => []RateInv
<1>1. Init => RateInv
    BY RateInit
<1>2. RateInv /\ [Next]_vars => RateInv'
    BY RateStep
<1> QED
    BY <1>1, <1>2, PTL DEF Spec

\* Both limiters keep their promise, and the service admits no request without a
\* token of the global bucket.
THEOREM RateBoundHolds == Spec => []RateBound
<1>1. RateInv => RateBound
    BY DEF RateInv
<1> QED
    BY <1>1, RateInvariance, PTL

\* The service as a whole: from its start to any moment it has admitted at most
\* the global bucket's capacity and what the global rate has brought since.
AdmittedBound == admitted * Cost <= GlobalCapacity + GlobalRate * now

\* tryConsume() of the global limiter comes before every admission: the service as a
\* whole keeps to the rate of the global bucket.
THEOREM AdmittedBoundHolds == Spec => []AdmittedBound
<1>1. RateInv => AdmittedBound
  <2> SUFFICES ASSUME RateInv PROVE AdmittedBound
      OBVIOUS
  <2> DEFINE g == global.granted
             l == global.last
  <2>1. /\ now \in Nat /\ admitted \in Nat /\ g \in Nat /\ l \in Nat
        /\ global.tokens \in Nat /\ global.born = 0 /\ admitted <= g /\ l <= now
      BY Constants DEF RateInv, RateBound, TypeOK, Bucket, Bounded
  <2>2. g * Cost + global.tokens <= GlobalCapacity + GlobalRate * l
    <3>1. l - 0 = l
        BY <2>1
    <3> QED BY <2>1, <3>1 DEF RateInv, RateBound, Bounded
  <2>3. ASSUME NEW x \in Nat, NEW y \in Nat, NEW z \in Nat, x <= y
        PROVE  x * z <= y * z /\ x * z \in Nat /\ y * z \in Nat
    <3>1. PICK d \in Nat : y = x + d
      <4>1. y - x \in Nat /\ y = x + (y - x)
          BY <2>3
      <4> QED BY <4>1
    <3>2. y * z = x * z + d * z
        BY <3>1
    <3>3. d * z \in Nat /\ x * z \in Nat /\ y * z \in Nat
        BY <3>1, ProductNat
    <3> QED BY <3>2, <3>3
  <2>4. admitted * Cost <= g * Cost /\ admitted * Cost \in Nat /\ g * Cost \in Nat
      BY <2>1, <2>3, Constants
  <2>5. l * GlobalRate <= now * GlobalRate /\ l * GlobalRate \in Nat
        /\ now * GlobalRate \in Nat
      BY <2>1, <2>3, Constants
  <2>6. l * GlobalRate = GlobalRate * l /\ now * GlobalRate = GlobalRate * now
      BY <2>1, Constants
  <2> DEFINE A == admitted * Cost
             G == g * Cost
             L == GlobalRate * l
             N == GlobalRate * now
  <2>7. /\ A \in Nat /\ G \in Nat /\ L \in Nat /\ N \in Nat
        /\ A <= G /\ L <= N /\ G + global.tokens <= GlobalCapacity + L
      BY <2>2, <2>4, <2>5, <2>6
  <2> HIDE DEF A, G, L, N, g, l
  <2>8. A <= GlobalCapacity + N
      BY <2>7, <2>1, Constants
  <2> QED BY <2>8 DEF AdmittedBound, A, N
<1> QED
    BY <1>1, RateInvariance, PTL

-----------------------------------------------------------------------------
(* removeKey() *)

\* What a step needs to know of the buckets.
FollowInv == TypeOK /\ BucketsFollowConnections

\* A bucket is made for an open connection or for its session, and goes with it.
LEMMA FollowStep ==
  ASSUME FollowInv, [Next]_vars, TypeOK' PROVE BucketsFollowConnections'
<1> USE DEF FollowInv, Goto
<1> DEFINE Kept(k) ==
      \/ k[1] = "fd" /\ place'[k[2]] \in {"idle", "user", "dispatch"}
      \/ k[1] = "user" /\ (k[2] \in replaced' \/ \E fd \in LimitFds : session'[fd] = k[2])
<1> SUFFICES ASSUME NEW k \in DOMAIN buckets' PROVE Kept(k)
    BY DEF BucketsFollowConnections
<1>t. /\ place \in [LimitFds -> {"free", "idle", "user", "dispatch", "closeSession"}]
      /\ session \in [LimitFds -> 0..MaxLogin] /\ logins \in 0..MaxLogin
    BY DEF TypeOK
<1>k. \/ k[1] = "fd" /\ k[2] \in LimitFds /\ k = <<"fd", k[2]>>
      \/ k[1] = "user" /\ k[2] \in 1..MaxLogin /\ k = <<"user", k[2]>>
    BY DEF TypeOK, Key
<1>o. k \in DOMAIN buckets =>
        \/ k[1] = "fd" /\ place[k[2]] \in {"idle", "user", "dispatch"}
        \/ k[1] = "user" /\ (k[2] \in replaced \/ \E fd \in LimitFds : session[fd] = k[2])
    BY DEF BucketsFollowConnections
<1>1. ASSUME NEW fd \in LimitFds, Accept(fd) PROVE Kept(k)
    BY <1>1, <1>t, <1>k, <1>o DEF Accept
<1>2. ASSUME NEW fd \in LimitFds, AcquireGlobal(fd) PROVE Kept(k)
    BY <1>2, <1>t, <1>k, <1>o DEF AcquireGlobal
<1>3. ASSUME NEW fd \in LimitFds, AcquireUser(fd) PROVE Kept(k)
  <2>1. /\ k \in DOMAIN buckets \/ k = KeyOf(fd)
        /\ UNCHANGED <<session, replaced>> /\ place[fd] = "user"
        /\ \E p \in {"idle", "dispatch"} : place' = [place EXCEPT ![fd] = p]
      BY <1>3 DEF AcquireUser, Bound
  <2>2. CASE k \in DOMAIN buckets
      BY <2>1, <2>2, <1>t, <1>k, <1>o
  <2>3. CASE k = KeyOf(fd) /\ session[fd] # 0
      BY <2>1, <2>3 DEF KeyOf
  <2>4. CASE k = KeyOf(fd) /\ session[fd] = 0
    <3>1. k = <<"fd", fd>>
        BY <2>4 DEF KeyOf
    <3> QED BY <2>1, <3>1, <1>t
  <2> QED BY <2>1, <2>2, <2>3, <2>4
<1>4. ASSUME NEW fd \in LimitFds, Dispatch(fd) PROVE Kept(k)
  <2>1. buckets' = buckets /\ place' = [place EXCEPT ![fd] = "idle"]
      BY <1>4 DEF Dispatch
  <2>2. CASE UNCHANGED <<session, replaced>>
      BY <2>1, <2>2, <1>t, <1>k, <1>o
  <2>3. CASE /\ session' = [session EXCEPT ![fd] = logins + 1]
             /\ replaced' = replaced \cup ({session[fd]} \ {0})
    <3>1. CASE k[1] = "fd"
        BY <2>1, <3>1, <1>t, <1>k, <1>o
    <3>2. CASE k[1] = "user"
      <4>1. k[2] # 0
          BY <3>2, <1>k
      <4> QED BY <2>1, <2>3, <3>2, <4>1, <1>t, <1>o
    <3> QED BY <3>1, <3>2, <1>k
  <2> QED BY <2>2, <2>3, <1>4 DEF Dispatch
<1>5. ASSUME NEW fd \in LimitFds, CloseFd(fd) PROVE Kept(k)
  <2>1. /\ k \in DOMAIN buckets /\ k # <<"fd", fd>> /\ UNCHANGED <<session, replaced>>
        /\ place' = [place EXCEPT ![fd] = "closeSession"]
      BY <1>5 DEF CloseFd, Erased
  <2> QED BY <2>1, <1>t, <1>k, <1>o
<1>6. ASSUME NEW fd \in LimitFds, CloseSession(fd) PROVE Kept(k)
  <2>1. /\ k \in DOMAIN buckets /\ replaced' = replaced
        /\ session[fd] # 0 => k # <<"user", session[fd]>>
        /\ session' = [session EXCEPT ![fd] = 0]
        /\ place[fd] = "closeSession" /\ place' = [place EXCEPT ![fd] = "free"]
      BY <1>6 DEF CloseSession, Erased
  <2>2. CASE k[1] = "fd"
      BY <2>1, <2>2, <1>t, <1>k, <1>o
  <2>3. CASE k[1] = "user"
    <3>1. k[2] # 0 /\ k[2] # session[fd]
        BY <2>1, <2>3, <1>k
    <3> QED BY <2>1, <2>3, <3>1, <1>t, <1>o
  <2> QED BY <2>2, <2>3, <1>k
<1>7. CASE Tick
    BY <1>7, <1>o DEF Tick
<1>8. CASE UNCHANGED vars
    BY <1>8, <1>o DEF vars
<1> QED
    BY <1>1, <1>2, <1>3, <1>4, <1>5, <1>6, <1>7, <1>8 DEF Next

\* No bucket outlives its connection and its session, but for a session that a
\* second login replaced.
THEOREM BucketsFollowHolds == Spec => []BucketsFollowConnections
<1>1. RateInv => TypeOK
    BY DEF RateInv, RateBound
<1>2. Init => BucketsFollowConnections
    BY DEF Init, BucketsFollowConnections
<1>3. /\ BucketsFollowConnections /\ TypeOK /\ TypeOK' /\ [Next]_vars
      => BucketsFollowConnections'
    BY FollowStep DEF FollowInv
<1> QED
    BY <1>1, <1>2, <1>3, RateInvariance, PTL DEF Spec

-----------------------------------------------------------------------------
(* The Qt client *)

\* The frames between the client and the server, and those that decide the controls.
FrameType == {"login", "create", "join", "leave", "send", "heartbeat", "error", "ok",
              "fail", "note", "created", "joined", "left"}
ClientFrames == [type : FrameType, room : Nat]
Decides(f) == f.type \in {"created", "joined", "left"}

\* The order along which a last position is found.
Less == {ss \in Nat \X Nat : ss[1] < ss[2]}

\* It is well founded.
LEMMA LessWF == IsWellFoundedOn(Less, Nat)
BY NatLessThanWellFounded DEF Less, OpToRel

\* A set of positions that is not empty has a last one.
LEMMA LastPosition ==
  ASSUME NEW n \in Nat, NEW T \in SUBSET (1..n), T # {}
  PROVE  \E i \in T : \A j \in T : j <= i
<1> DEFINE R == {n - i : i \in T}
<1>1. R \in SUBSET Nat /\ R # {}
  <2>1. \A i \in T : n - i \in Nat
      OBVIOUS
  <2> QED BY <2>1
<1>2. \E x \in R : \A y \in R : ~ (<<y, x>> \in Less)
    BY <1>1, LessWF, WFMin
<1>3. PICK i \in T : \A y \in R : ~ (<<y, n - i>> \in Less)
    BY <1>2
<1>4. ASSUME NEW j \in T PROVE j <= i
  <2>1. n - j \in R /\ n - j \in Nat /\ n - i \in Nat
      BY <1>1
  <2>2. ~ (n - j < n - i)
      BY <1>3, <2>1 DEF Less
  <2> QED BY <2>2
<1> QED BY <1>4

\* The last deciding frame decides.
LEMMA SettledLast ==
  ASSUME NEW fs \in Seq(ClientFrames), NEW e, NEW k \in 1..Len(fs), Decides(fs[k]),
         \A j \in 1..Len(fs) : Decides(fs[j]) => j <= k
  PROVE  Settled(fs, e) = (fs[k].type # "left")
<1> DEFINE D == {i \in 1..Len(fs) : fs[i].type \in {"created", "joined", "left"}}
<1> DEFINE last == CHOOSE i \in D : \A j \in D : j <= i
<1>1. k \in D /\ \A j \in D : j <= k
    BY DEF Decides
<1>2. last \in D /\ \A j \in D : j <= last
    BY <1>1
<1>3. last = k
    BY <1>1, <1>2
<1>4. Settled(fs, e) = IF D = {} THEN e ELSE fs[last].type # "left"
    BY DEF Settled
<1> QED BY <1>1, <1>3, <1>4

\* Without one the controls stay as they are.
LEMMA SettledNone ==
  ASSUME NEW fs \in Seq(ClientFrames), NEW e, \A j \in 1..Len(fs) : ~Decides(fs[j])
  PROVE  Settled(fs, e) = e
BY DEF Settled, Decides

\* There is a last deciding frame, or none.
LEMMA LastDecides ==
  ASSUME NEW fs \in Seq(ClientFrames), \E j \in 1..Len(fs) : Decides(fs[j])
  PROVE  \E k \in 1..Len(fs) :
           Decides(fs[k]) /\ \A j \in 1..Len(fs) : Decides(fs[j]) => j <= k
<1> DEFINE T == {j \in 1..Len(fs) : Decides(fs[j])}
<1>1. Len(fs) \in Nat /\ T \in SUBSET (1..Len(fs)) /\ T # {}
    OBVIOUS
<1>2. PICK k \in T : \A j \in T : j <= k
    BY <1>1, LastPosition
<1> QED BY <1>2

\* An answer that decides settles the controls, whatever came before it.
LEMMA SettledByAnswer ==
  ASSUME NEW fs \in Seq(ClientFrames), NEW gs \in Seq(ClientFrames), NEW e,
         gs # <<>>, Decides(gs[Len(gs)])
  PROVE  Settled(fs \o gs, e) = (gs[Len(gs)].type # "left")
<1>1. /\ fs \o gs \in Seq(ClientFrames) /\ Len(fs \o gs) = Len(fs) + Len(gs)
      /\ (fs \o gs)[Len(fs) + Len(gs)] = gs[Len(gs)]
    BY ConcatProperties
<1>2. /\ Len(fs \o gs) \in 1..Len(fs \o gs)
      /\ \A j \in 1..Len(fs \o gs) : j <= Len(fs \o gs)
    BY <1>1
<1>3. Settled(fs \o gs, e) = ((fs \o gs)[Len(fs \o gs)].type # "left")
    BY <1>1, <1>2, SettledLast
<1> QED BY <1>1, <1>3

\* Answers that do not decide leave everything as it was.
LEMMA SettledByOthers ==
  ASSUME NEW fs \in Seq(ClientFrames), NEW gs \in Seq(ClientFrames), NEW e,
         \A j \in 1..Len(gs) : ~Decides(gs[j])
  PROVE  Settled(fs \o gs, e) = Settled(fs, e)
<1>1. /\ fs \o gs \in Seq(ClientFrames) /\ Len(fs \o gs) = Len(fs) + Len(gs)
      /\ \A i \in 1..Len(fs) : (fs \o gs)[i] = fs[i]
      /\ \A i \in (Len(fs) + 1)..(Len(fs) + Len(gs)) : ~Decides((fs \o gs)[i])
  <2>1. \A i \in (Len(fs) + 1)..(Len(fs) + Len(gs)) : i - Len(fs) \in 1..Len(gs)
      OBVIOUS
  <2> QED BY <2>1, ConcatProperties
<1>2. CASE \E j \in 1..Len(fs) : Decides(fs[j])
  <2>1. PICK k \in 1..Len(fs) :
          Decides(fs[k]) /\ \A j \in 1..Len(fs) : Decides(fs[j]) => j <= k
      BY <1>2, LastDecides
  <2>2. Settled(fs, e) = (fs[k].type # "left")
      BY <2>1, SettledLast
  <2>3. \A j \in 1..Len(fs \o gs) : Decides((fs \o gs)[j]) => j <= k
      BY <1>1, <2>1
  <2>4. k \in 1..Len(fs \o gs) /\ (fs \o gs)[k] = fs[k]
      BY <1>1
  <2>5. Settled(fs \o gs, e) = ((fs \o gs)[k].type # "left")
      BY <1>1, <2>1, <2>3, <2>4, SettledLast
  <2> QED BY <2>2, <2>4, <2>5
<1>3. CASE \A j \in 1..Len(fs) : ~Decides(fs[j])
  <2>1. \A j \in 1..Len(fs \o gs) : ~Decides((fs \o gs)[j])
      BY <1>1, <1>3
  <2> QED BY <1>1, <1>3, <2>1, SettledNone
<1> QED BY <1>2, <1>3

\* Handling the first frame the way it decides leaves the outcome the same.
LEMMA SettledTail ==
  ASSUME NEW fs \in Seq(ClientFrames), fs # <<>>, NEW e, NEW e2,
         IF Decides(Head(fs)) THEN e2 = (Head(fs).type # "left") ELSE e2 = e
  PROVE  Settled(Tail(fs), e2) = Settled(fs, e)
<1>1. /\ Tail(fs) \in Seq(ClientFrames) /\ Len(Tail(fs)) = Len(fs) - 1
      /\ \A i \in 1..Len(Tail(fs)) : Tail(fs)[i] = fs[i + 1]
      /\ Head(fs) = fs[1] /\ Len(fs) \in Nat /\ Len(fs) > 0
    BY HeadTailProperties
<1>2. \A j \in 2..Len(fs) : j - 1 \in 1..Len(Tail(fs)) /\ Tail(fs)[j - 1] = fs[j]
  <2> TAKE j \in 2..Len(fs)
  <2>1. j - 1 \in 1..Len(Tail(fs)) /\ (j - 1) + 1 = j
      BY <1>1
  <2> QED BY <1>1, <2>1
<1>3. CASE \E j \in 1..Len(Tail(fs)) : Decides(Tail(fs)[j])
  <2>1. PICK k \in 1..Len(Tail(fs)) :
          /\ Decides(Tail(fs)[k])
          /\ \A j \in 1..Len(Tail(fs)) : Decides(Tail(fs)[j]) => j <= k
      BY <1>1, <1>3, LastDecides
  <2>2. Settled(Tail(fs), e2) = (Tail(fs)[k].type # "left")
      BY <1>1, <2>1, SettledLast
  <2>3. k + 1 \in 1..Len(fs) /\ fs[k + 1] = Tail(fs)[k]
      BY <1>1
  <2>4. \A j \in 1..Len(fs) : Decides(fs[j]) => j <= k + 1
    <3> SUFFICES ASSUME NEW j \in 2..Len(fs), Decides(fs[j]) PROVE j <= k + 1
        BY <1>1
    <3> QED BY <1>2, <2>1
  <2>5. Settled(fs, e) = (fs[k + 1].type # "left")
      BY <2>1, <2>3, <2>4, SettledLast
  <2> QED BY <2>2, <2>3, <2>5
<1>4. CASE \A j \in 1..Len(Tail(fs)) : ~Decides(Tail(fs)[j])
  <2>1. Settled(Tail(fs), e2) = e2
      BY <1>1, <1>4, SettledNone
  <2>2. \A j \in 2..Len(fs) : ~Decides(fs[j])
      BY <1>2, <1>4
  <2>3. CASE Decides(Head(fs))
    <3>1. Settled(fs, e) = (fs[1].type # "left")
      <4>1. 1 \in 1..Len(fs) /\ \A j \in 1..Len(fs) : Decides(fs[j]) => j <= 1
          BY <1>1, <2>2
      <4> QED BY <1>1, <2>3, <4>1, SettledLast
    <3> QED BY <1>1, <2>1, <2>3, <3>1
  <2>4. CASE ~Decides(Head(fs))
    <3>1. \A j \in 1..Len(fs) : ~Decides(fs[j])
        BY <1>1, <2>2, <2>4
    <3> QED BY <2>1, <2>4, <3>1, SettledNone
  <2> QED BY <2>3, <2>4
<1> QED BY <1>3, <1>4

-----------------------------------------------------------------------------
(* The inductive invariant *)

\* The types of the client, of what is under way, and of the session.
ClientTypeOK ==
  /\ window \in {"login", "chat"} /\ link \in {"off", "connecting", "on", "broken"}
  /\ up \in Seq(ClientFrames) /\ down \in Seq(ClientFrames)
  /\ recvBuf \in Seq(ClientFrames) /\ parsing \in BOOLEAN
  /\ boxes \in Seq({"welcome", "parse", "network"})
  /\ currentRoomId \in Nat /\ input \in BOOLEAN /\ leaveBtn \in BOOLEAN
  /\ heartbeat \in BOOLEAN /\ requestId \in Nat
  /\ room \in Nat /\ serverRooms \in SUBSET (Nat \ {0}) /\ nextRoom \in Nat \ {0}

\* A login window has one request, or one answer, or one box about an answer;
\* none of them is about a room.
LoginInv ==
  window = "login" =>
    /\ Len(up) + Len(down) + Len(recvBuf) <= 1
    /\ \A i \in 1..Len(up) : up[i].type = "login"
    /\ \A i \in 1..Len(down) : ~Decides(down[i])
    /\ \A i \in 1..Len(recvBuf) : ~Decides(recvBuf[i])
    /\ recvBuf # <<>> => parsing
    /\ \A i, j \in 1..Len(boxes) : boxes[i] # "network" /\ boxes[j] # "network" => i = j
    /\ \A i \in 1..Len(boxes) :
         boxes[i] # "network" => up = <<>> /\ down = <<>> /\ recvBuf = <<>>
    /\ ~input /\ ~heartbeat /\ room = 0

\* Connecting, nothing is on its way and no box is open; the box of a network
\* error stands only while there is no connection; the welcome only once.
BoxInv ==
  /\ link = "connecting" =>
       /\ window = "login" /\ ~parsing /\ boxes = <<>>
       /\ up = <<>> /\ down = <<>> /\ recvBuf = <<>>
  /\ \A i \in 1..Len(boxes) :
       /\ boxes[i] = "network" => link \in {"broken", "off"}
       /\ boxes[i] = "welcome" => window = "login"

\* What UiAgrees needs to be kept by every step.
ClientInv == ClientTypeOK /\ LoginInv /\ BoxInv /\ UiAgrees

-----------------------------------------------------------------------------
\* A frame of a known type.
LEMMA FrameTyped ==
  ASSUME NEW t \in FrameType, NEW r \in Nat
  PROVE  /\ Frame(t, r) \in ClientFrames /\ Frame(t, r).type = t /\ Frame(t, r).room = r
         /\ <<Frame(t, r)>> \in Seq(ClientFrames) /\ Len(<<Frame(t, r)>>) = 1
         /\ <<Frame(t, r)>>[1] = Frame(t, r)
BY DEF Frame, ClientFrames

\* The invariant holds when the login window opens.
LEMMA InitClient == ClientInit => ClientInv
<1> SUFFICES ASSUME ClientInit PROVE ClientInv
    OBVIOUS
<1>1. ClientTypeOK
  <2>1. <<>> \in Seq(ClientFrames) /\ <<>> \in Seq({"welcome", "parse", "network"})
      OBVIOUS
  <2>2. {} \in SUBSET (Nat \ {0}) /\ 0 \in Nat /\ 1 \in Nat \ {0}
      OBVIOUS
  <2> QED BY <2>1, <2>2 DEF ClientInit, ClientTypeOK
<1>2. LoginInv /\ BoxInv
    BY DEF ClientInit, LoginInv, BoxInv
<1>3. UiAgrees
    BY DEF ClientInit, UiAgrees
<1> QED BY <1>1, <1>2, <1>3 DEF ClientInv

\* A request from the chat window changes nothing the controls depend on.
LEMMA RequestStep ==
  ASSUME ClientInv, window = "chat", NEW f \in ClientFrames, sendPacket(f),
         currentRoomId' \in Nat,
         UNCHANGED <<window, boxes, link, down, recvBuf, parsing, input, leaveBtn,
                     heartbeat, room, serverRooms, nextRoom>>
  PROVE  ClientInv'
<1>1. up' \in Seq(ClientFrames) /\ requestId' \in Nat
    BY AppendProperties DEF ClientInv, ClientTypeOK, sendPacket
<1>2. ClientTypeOK'
    BY <1>1 DEF ClientInv, ClientTypeOK
<1>3. LoginInv' /\ BoxInv'
    BY DEF ClientInv, LoginInv, BoxInv
<1>4. UiAgrees'
    BY DEF ClientInv, UiAgrees
<1> QED BY <1>2, <1>3, <1>4 DEF ClientInv

\* The answer to the first request is appended to what is on its way; to the
\* login window it is one frame that is not about a room.
LEMMA AnswerStep ==
  ASSUME ClientInv, up # <<>>, NEW fs \in Seq(ClientFrames), Answer(fs),
         room' \in Nat, serverRooms' \in SUBSET (Nat \ {0}), nextRoom' \in Nat \ {0},
         window = "login" => Len(fs) = 1 /\ ~Decides(fs[1]) /\ room' = 0
  PROVE  /\ ClientTypeOK' /\ LoginInv' /\ BoxInv'
         /\ recvBuf' \o down' = (recvBuf \o down) \o fs
<1>0. /\ window' = window /\ boxes' = boxes /\ link' = link /\ recvBuf' = recvBuf
      /\ parsing' = parsing /\ currentRoomId' = currentRoomId /\ input' = input
      /\ leaveBtn' = leaveBtn /\ heartbeat' = heartbeat /\ requestId' = requestId
      /\ up' = Tail(up) /\ down' = down \o fs
    BY DEF Answer, login, ui
<1>1. /\ up' \in Seq(ClientFrames) /\ Len(up') = Len(up) - 1
      /\ \A i \in 1..Len(up') : up'[i] = up[i + 1]
    BY <1>0, HeadTailProperties DEF ClientInv, ClientTypeOK
<1>2. /\ down' \in Seq(ClientFrames) /\ Len(down') = Len(down) + Len(fs)
      /\ \A i \in 1..(Len(down) + Len(fs)) :
           down'[i] = IF i <= Len(down) THEN down[i] ELSE fs[i - Len(down)]
    BY <1>0, ConcatProperties DEF ClientInv, ClientTypeOK
<1>3. ClientTypeOK'
    BY <1>0, <1>1, <1>2 DEF ClientInv, ClientTypeOK
<1>4. LoginInv'
  <2> SUFFICES ASSUME window = "login" PROVE LoginInv'
      BY <1>0 DEF LoginInv
  <2>1. Len(up) = 1 /\ Len(down) = 0 /\ Len(recvBuf) = 0 /\ recvBuf = <<>> /\ down = <<>>
      BY DEF ClientInv, ClientTypeOK, LoginInv
  <2>2. Len(up') = 0 /\ Len(down') = 1 /\ Len(fs) = 1
      BY <1>1, <1>2, <2>1
  <2>3. down'[1] = fs[1]
      BY <1>2, <2>1, <2>2
  <2>4. \A i \in 1..Len(boxes) : boxes[i] = "network"
      BY <2>1 DEF ClientInv, LoginInv
  <2> QED BY <1>0, <2>1, <2>2, <2>3, <2>4 DEF ClientInv, ClientTypeOK, LoginInv
<1>5. BoxInv'
    BY <1>0 DEF ClientInv, BoxInv
<1>6. recvBuf' \o down' = (recvBuf \o down) \o fs
  <2>1. recvBuf \in Seq(ClientFrames) /\ down \in Seq(ClientFrames)
      BY DEF ClientInv, ClientTypeOK
  <2>2. (recvBuf \o down) \o fs = recvBuf \o (down \o fs)
      BY <2>1, ConcatAssociative
  <2> QED BY <1>0, <2>2
<1> QED BY <1>3, <1>4, <1>5, <1>6

\* What is asked in the login window is a login.
LEMMA LoginAsks ==
  ASSUME ClientInv, up # <<>>, window = "login"
  PROVE  Head(up).type = "login"
<1>1. Head(up) = up[1] /\ 1 \in 1..Len(up)
    BY DEF ClientInv, ClientTypeOK
<1> QED BY <1>1 DEF ClientInv, LoginInv

\* An answer of one frame that is not about a room.
LEMMA PlainAnswerStep ==
  ASSUME ClientInv, up # <<>>, NEW t \in FrameType, t \notin {"created", "joined", "left"},
         Answer(<<Frame(t, 0)>>), room' = room,
         serverRooms' \in SUBSET (Nat \ {0}), nextRoom' \in Nat \ {0}
  PROVE  ClientInv'
<1> DEFINE fs == <<Frame(t, 0)>>
<1>1. /\ fs \in Seq(ClientFrames) /\ Len(fs) = 1
      /\ \A j \in 1..Len(fs) : ~Decides(fs[j])
    BY FrameTyped DEF Decides
<1>2. room' \in Nat /\ (window = "login" => room' = 0)
    BY DEF ClientInv, ClientTypeOK, LoginInv
<1>3. /\ ClientTypeOK' /\ LoginInv' /\ BoxInv'
      /\ recvBuf' \o down' = (recvBuf \o down) \o fs
    <2>1. Answer(fs) /\ ~Decides(fs[1])
        BY <1>1
    <2> HIDE DEF fs
    <2> QED BY <1>1, <1>2, <2>1, AnswerStep
<1>4. Settled((recvBuf \o down) \o fs, input) = Settled(recvBuf \o down, input)
    <2>1. recvBuf \o down \in Seq(ClientFrames)
        BY ConcatProperties DEF ClientInv, ClientTypeOK
    <2> HIDE DEF fs
    <2> QED BY <1>1, <2>1, SettledByOthers
<1>5. input' = input /\ link' = link
    BY DEF Answer, ui
<1>6. UiAgrees'
    BY <1>3, <1>4, <1>5 DEF ClientInv, UiAgrees
<1> QED BY <1>3, <1>6 DEF ClientInv

\* An answer to the chat window that ends with a frame about a room.
LEMMA RoomAnswerStep ==
  ASSUME ClientInv, up # <<>>, window = "chat", NEW fs \in Seq(ClientFrames), fs # <<>>,
         Answer(fs), Decides(fs[Len(fs)]), room' \in Nat,
         (fs[Len(fs)].type # "left") = (room' # 0),
         serverRooms' \in SUBSET (Nat \ {0}), nextRoom' \in Nat \ {0}
  PROVE  ClientInv'
<1>1. /\ ClientTypeOK' /\ LoginInv' /\ BoxInv'
      /\ recvBuf' \o down' = (recvBuf \o down) \o fs
    BY AnswerStep
<1>2. recvBuf \o down \in Seq(ClientFrames)
    BY ConcatProperties DEF ClientInv, ClientTypeOK
<1>3. Settled((recvBuf \o down) \o fs, input') = (fs[Len(fs)].type # "left")
    BY <1>2, SettledByAnswer
<1>4. UiAgrees'
    BY <1>1, <1>3 DEF UiAgrees
<1> QED BY <1>1, <1>4 DEF ClientInv

-----------------------------------------------------------------------------
(* The login window *)

\* The user asks for a connection.
LEMMA LoginClickedStep == ClientInv /\ LoginClicked => ClientInv'
<1> SUFFICES ASSUME ClientInv, LoginClicked PROVE ClientInv'
    OBVIOUS
<1>1. recvBuf = <<>> /\ recvBuf' = <<>> /\ boxes = <<>> /\ ~parsing /\ room = 0
    BY DEF LoginClicked, Idle, ClientInv, LoginInv
<1>2. <<>> \in Seq(ClientFrames)
    OBVIOUS
<1>3. ClientTypeOK'
    BY <1>1, <1>2 DEF LoginClicked, ClientInv, ClientTypeOK, login, ui
<1>4. LoginInv' /\ BoxInv'
    BY <1>1 DEF LoginClicked, ClientInv, ClientTypeOK, LoginInv, BoxInv, login, ui
<1>5. UiAgrees'
    BY DEF LoginClicked, UiAgrees
<1> QED BY <1>3, <1>4, <1>5 DEF ClientInv

\* The socket connects: the chat window opens and logs in.
LEMMA LoginConnectedStep == ClientInv /\ LoginConnected => ClientInv'
<1> SUFFICES ASSUME ClientInv, LoginConnected PROVE ClientInv'
    OBVIOUS
<1>0. /\ window' = window /\ boxes' = boxes /\ down' = down /\ recvBuf' = recvBuf
      /\ parsing' = parsing /\ currentRoomId' = currentRoomId /\ input' = input
      /\ leaveBtn' = leaveBtn /\ heartbeat' = heartbeat /\ requestId' = requestId
      /\ room' = room /\ serverRooms' = serverRooms /\ nextRoom' = nextRoom
      /\ link' = "on" /\ up' = <<Frame("login", 0)>>
    BY DEF LoginConnected, login, ui, server
<1>1. /\ window = "login" /\ boxes = <<>> /\ down = <<>> /\ recvBuf = <<>>
      /\ ~input /\ room = 0
    BY DEF LoginConnected, ClientInv, LoginInv, BoxInv
<1>2. up' \in Seq(ClientFrames) /\ Len(up') = 1 /\ up'[1].type = "login"
    BY <1>0, FrameTyped DEF FrameType
<1>3. ClientTypeOK'
    BY <1>0, <1>2 DEF ClientInv, ClientTypeOK
<1>4. LoginInv' /\ BoxInv'
    BY <1>0, <1>1, <1>2 DEF ClientInv, ClientTypeOK, LoginInv, BoxInv
<1>5. UiAgrees'
  <2>1. <<>> \in Seq(ClientFrames) /\ Len(<<>>) = 0 /\ <<>> \o <<>> = <<>>
      OBVIOUS
  <2>3. Settled(<<>>, FALSE) = FALSE
    <3>1. \A j \in 1..Len(<<>>) : ~Decides(<<>>[j])
        BY <2>1
    <3> QED BY <2>1, <3>1, SettledNone
  <2>2. input = FALSE
      BY <1>1 DEF ClientInv, ClientTypeOK
  <2> QED BY <1>0, <1>1, <2>1, <2>2, <2>3 DEF UiAgrees
<1> QED BY <1>3, <1>4, <1>5 DEF ClientInv

\* The user's requests and the heartbeat.
LEMMA RequestsStep ==
  ASSUME ClientInv,
         \/ onCreateRoom \/ onLeaveRoom \/ onSendMessage \/ sendHeartbeat
         \/ \E r \in 0..MaxServerRoom : onJoinRoom(r)
  PROVE  ClientInv'
<1>1. CASE onCreateRoom
  <2>1. Frame("create", 0) \in ClientFrames
      BY FrameTyped DEF FrameType
  <2>2. currentRoomId \in Nat
      BY DEF ClientInv, ClientTypeOK
  <2> QED BY <1>1, <2>1, <2>2, RequestStep DEF onCreateRoom, Chatting, login, server
<1>2. CASE onLeaveRoom
  <2>1. Frame("leave", 0) \in ClientFrames
      BY FrameTyped DEF FrameType
  <2>2. currentRoomId \in Nat
      BY DEF ClientInv, ClientTypeOK
  <2> QED BY <1>2, <2>1, <2>2, RequestStep DEF onLeaveRoom, Chatting, login, server
<1>3. CASE onSendMessage
  <2>1. Frame("send", 0) \in ClientFrames
      BY FrameTyped DEF FrameType
  <2>2. currentRoomId \in Nat
      BY DEF ClientInv, ClientTypeOK
  <2> QED BY <1>3, <2>1, <2>2, RequestStep DEF onSendMessage, Chatting, login, server
<1>4. CASE sendHeartbeat
  <2>1. Frame("heartbeat", 0) \in ClientFrames
      BY FrameTyped DEF FrameType
  <2>2. currentRoomId \in Nat /\ window = "chat"
      BY <1>4 DEF ClientInv, ClientTypeOK, LoginInv, sendHeartbeat
  <2> QED BY <1>4, <2>1, <2>2, RequestStep DEF sendHeartbeat, login, server
<1>5. ASSUME NEW r \in 0..MaxServerRoom, onJoinRoom(r) PROVE ClientInv'
  <2>1. r \in Nat /\ Frame("join", r) \in ClientFrames
      BY ClientAssumption, FrameTyped DEF FrameType
  <2> QED BY <1>5, <2>1, RequestStep DEF onJoinRoom, Chatting, login, server
<1> QED BY <1>1, <1>2, <1>3, <1>4, <1>5

\* Other users' rooms.
LEMMA OthersStep ==
  ASSUME ClientInv, OthersCreate \/ \E r \in serverRooms : OthersLeave(r)
  PROVE  ClientInv'
<1>0. /\ window' = window /\ boxes' = boxes /\ down' = down /\ recvBuf' = recvBuf
      /\ parsing' = parsing /\ currentRoomId' = currentRoomId /\ input' = input
      /\ leaveBtn' = leaveBtn /\ heartbeat' = heartbeat /\ requestId' = requestId
      /\ room' = room /\ link' = link /\ up' = up
    BY DEF OthersCreate, OthersLeave, login, traffic, ui
<1>1. serverRooms' \in SUBSET (Nat \ {0}) /\ nextRoom' \in Nat \ {0}
  <2>1. serverRooms \in SUBSET (Nat \ {0}) /\ nextRoom \in Nat \ {0}
      BY DEF ClientInv, ClientTypeOK
  <2>2. CASE OthersCreate
    <3>1. serverRooms' = serverRooms \cup {nextRoom} /\ nextRoom' = nextRoom + 1
        BY <2>2 DEF OthersCreate
    <3> QED BY <2>1, <3>1
  <2>3. ASSUME NEW r \in serverRooms, OthersLeave(r)
        PROVE  serverRooms' \in SUBSET (Nat \ {0}) /\ nextRoom' \in Nat \ {0}
    <3>1. serverRooms' = serverRooms \ {r} /\ nextRoom' = nextRoom
        BY <2>3 DEF OthersLeave
    <3> QED BY <2>1, <3>1
  <2> QED BY <2>2, <2>3
<1>2. ClientTypeOK'
    BY <1>0, <1>1 DEF ClientInv, ClientTypeOK
<1>3. LoginInv' /\ BoxInv' /\ UiAgrees'
    BY <1>0 DEF ClientInv, LoginInv, BoxInv, UiAgrees
<1> QED BY <1>2, <1>3 DEF ClientInv

\* The server's answers.
LEMMA AnswersStep ==
  ASSUME ClientInv,
         \/ Refuse \/ handleLogin \/ handleCreateRoom \/ handleJoinRoom
         \/ handleLeaveRoom \/ handleSendMessage \/ handleHeartbeat
  PROVE  ClientInv'
<1>0. room \in Nat /\ serverRooms \in SUBSET (Nat \ {0}) /\ nextRoom \in Nat \ {0}
    BY DEF ClientInv, ClientTypeOK
<1>1. CASE Refuse
    BY <1>0, <1>1, PlainAnswerStep DEF Refuse, server, FrameType
<1>2. CASE handleLogin
    BY <1>0, <1>2, PlainAnswerStep DEF handleLogin, Asked, server, FrameType
<1>3. CASE handleCreateRoom
  <2>1. window = "chat" /\ up # <<>>
      BY <1>3, LoginAsks DEF handleCreateRoom, Asked, ClientInv, ClientTypeOK
  <2>2. nextRoom' \in Nat \ {0}
      BY <1>0, <1>3 DEF handleCreateRoom
  <2>3. CASE Answer(<<Frame("note", 0)>>) /\ UNCHANGED <<room, serverRooms>>
      BY <1>0, <2>1, <2>2, <2>3, PlainAnswerStep DEF FrameType
  <2>4. CASE /\ Answer(<<Frame("created", nextRoom)>>)
             /\ serverRooms' = serverRooms \cup {nextRoom} /\ room' = nextRoom
    <3> DEFINE fs == <<Frame("created", nextRoom)>>
    <3>1. /\ fs \in Seq(ClientFrames) /\ Len(fs) = 1 /\ fs # <<>>
          /\ fs[Len(fs)].type = "created"
        BY <1>0, FrameTyped DEF FrameType
    <3>2. /\ room' \in Nat /\ (fs[Len(fs)].type # "left") = (room' # 0)
          /\ serverRooms' \in SUBSET (Nat \ {0}) /\ Answer(fs)
        BY <1>0, <2>4, <3>1
    <3> HIDE DEF fs
    <3> QED BY <2>1, <2>2, <3>1, <3>2, RoomAnswerStep DEF Decides
  <2> QED BY <1>3, <2>3, <2>4 DEF handleCreateRoom
<1>4. CASE handleJoinRoom
  <2>1. window = "chat" /\ up # <<>>
      BY <1>4, LoginAsks DEF handleJoinRoom, Asked, ClientInv, ClientTypeOK
  <2>2. serverRooms' \in SUBSET (Nat \ {0}) /\ nextRoom' \in Nat \ {0}
      BY <1>0, <1>4 DEF handleJoinRoom
  <2>3. CASE Answer(<<Frame("error", 0)>>) /\ UNCHANGED room
      BY <1>0, <2>1, <2>2, <2>3, PlainAnswerStep DEF FrameType
  <2>4. CASE Head(up).room \in serverRooms /\ room' = Head(up).room
             /\ Answer(<<Note, Frame("joined", 0)>>)
    <3> DEFINE fs == <<Note, Frame("joined", 0)>>
    <3>1. /\ fs \in Seq(ClientFrames) /\ Len(fs) = 2 /\ fs # <<>>
          /\ fs[Len(fs)].type = "joined"
      <4>1. Note \in ClientFrames /\ Frame("joined", 0) \in ClientFrames
          BY FrameTyped DEF FrameType, Note
      <4>2. fs \in Seq(ClientFrames) /\ Len(fs) = 2 /\ fs[2] = Frame("joined", 0)
          BY <4>1
      <4> QED BY <4>2, FrameTyped DEF FrameType
    <3>2. /\ room' \in Nat /\ (fs[Len(fs)].type # "left") = (room' # 0) /\ Answer(fs)
        BY <1>0, <2>4, <3>1
    <3> HIDE DEF fs
    <3> QED BY <2>1, <2>2, <3>1, <3>2, RoomAnswerStep DEF Decides
  <2> QED BY <1>4, <2>3, <2>4 DEF handleJoinRoom
<1>5. CASE handleLeaveRoom
  <2>1. window = "chat" /\ up # <<>>
      BY <1>5, LoginAsks DEF handleLeaveRoom, Asked, ClientInv, ClientTypeOK
  <2> DEFINE fs == <<Frame("left", 0)>>
  <2>2. /\ fs \in Seq(ClientFrames) /\ Len(fs) = 1 /\ fs # <<>> /\ fs[Len(fs)].type = "left"
      BY FrameTyped DEF FrameType
  <2>3. /\ room' \in Nat /\ (fs[Len(fs)].type # "left") = (room' # 0) /\ Answer(fs)
        /\ serverRooms' \in SUBSET (Nat \ {0}) /\ nextRoom' \in Nat \ {0}
      BY <1>0, <1>5, <2>2 DEF handleLeaveRoom
  <2> HIDE DEF fs
  <2> QED BY <2>1, <2>2, <2>3, RoomAnswerStep DEF Decides
<1>6. CASE handleSendMessage
  <2>1. window = "chat" /\ up # <<>>
      BY <1>6, LoginAsks DEF handleSendMessage, Asked, ClientInv, ClientTypeOK
  <2>2. CASE Answer(<<Frame("error", 0)>>)
      BY <1>0, <1>6, <2>1, <2>2, PlainAnswerStep DEF FrameType, handleSendMessage, server
  <2>3. CASE Answer(<<Note, Note>>)
    <3> DEFINE fs == <<Note, Note>>
    <3>1. /\ fs \in Seq(ClientFrames) /\ \A j \in 1..Len(fs) : ~Decides(fs[j])
      <4>1. Note \in ClientFrames /\ ~Decides(Note)
          BY FrameTyped DEF FrameType, Note, Decides
      <4>2. Len(fs) = 2 /\ fs[1] = Note /\ fs[2] = Note
          OBVIOUS
      <4>3. fs \in Seq(ClientFrames)
          BY <4>1
      <4> QED BY <4>1, <4>2, <4>3
    <3>2. /\ room' = room /\ serverRooms' = serverRooms /\ nextRoom' = nextRoom
          /\ Answer(fs) /\ input' = input /\ link' = link
        BY <1>6, <2>3 DEF handleSendMessage, server, Answer, ui
    <3> HIDE DEF fs
    <3>3. /\ ClientTypeOK' /\ LoginInv' /\ BoxInv'
          /\ recvBuf' \o down' = (recvBuf \o down) \o fs
        BY <1>0, <2>1, <3>1, <3>2, AnswerStep
    <3>4. recvBuf \o down \in Seq(ClientFrames)
        BY ConcatProperties DEF ClientInv, ClientTypeOK
    <3>5. Settled((recvBuf \o down) \o fs, input) = Settled(recvBuf \o down, input)
        BY <3>1, <3>4, SettledByOthers
    <3> QED BY <3>2, <3>3, <3>5 DEF ClientInv, UiAgrees
  <2> QED BY <1>6, <2>2, <2>3 DEF handleSendMessage
<1>7. CASE handleHeartbeat
    BY <1>0, <1>7, PlainAnswerStep DEF handleHeartbeat, Asked, Note, server, FrameType
<1> QED BY <1>1, <1>2, <1>3, <1>4, <1>5, <1>6, <1>7

-----------------------------------------------------------------------------
(* What arrives *)

\* Frames arrive, and are parsed unless a slot below is at it.
LEMMA ReadyReadStep == ClientInv /\ onReadyRead => ClientInv'
<1> SUFFICES ASSUME ClientInv, onReadyRead PROVE ClientInv'
    OBVIOUS
<1>0. /\ window' = window /\ boxes' = boxes /\ link' = link /\ up' = up
      /\ currentRoomId' = currentRoomId /\ input' = input
      /\ leaveBtn' = leaveBtn /\ heartbeat' = heartbeat /\ requestId' = requestId
      /\ room' = room /\ serverRooms' = serverRooms /\ nextRoom' = nextRoom
      /\ recvBuf' = recvBuf \o down /\ down' = <<>> /\ parsing' = TRUE
      /\ down # <<>> /\ ~parsing
    BY DEF onReadyRead, login, ui, server
<1>1. /\ recvBuf' \in Seq(ClientFrames) /\ down' \in Seq(ClientFrames)
      /\ Len(recvBuf') = Len(recvBuf) + Len(down) /\ Len(down') = 0
      /\ \A i \in 1..(Len(recvBuf) + Len(down)) :
           recvBuf'[i] = IF i <= Len(recvBuf) THEN recvBuf[i] ELSE down[i - Len(recvBuf)]
    BY <1>0, ConcatProperties DEF ClientInv, ClientTypeOK
<1>2. ClientTypeOK'
    BY <1>0, <1>1 DEF ClientInv, ClientTypeOK
<1>3. LoginInv'
  <2> SUFFICES ASSUME window = "login" PROVE LoginInv'
      BY <1>0 DEF LoginInv
  <2>1. /\ recvBuf = <<>> /\ Len(recvBuf) = 0 /\ Len(up) \in Nat /\ Len(down) \in Nat
        /\ \A i \in 1..Len(down) : recvBuf'[i] = down[i]
        /\ \A i \in 1..Len(boxes) : boxes[i] = "network"
      BY <1>0, <1>1 DEF ClientInv, ClientTypeOK, LoginInv
  <2> QED BY <1>0, <1>1, <2>1 DEF ClientInv, LoginInv
<1>4. BoxInv'
    BY <1>0 DEF ClientInv, BoxInv
<1>5. UiAgrees'
  <2>1. recvBuf' \o down' = recvBuf \o down
      BY <1>0, <1>1, ConcatEmptySeq
  <2> QED BY <1>0, <2>1 DEF ClientInv, UiAgrees
<1> QED BY <1>2, <1>3, <1>4, <1>5 DEF ClientInv

\* One frame handled: the controls become what the frame says.
LEMMA FrameStep ==
  ASSUME ClientInv, parsePacket, recvBuf # <<>>
  PROVE  ClientInv'
<1> DEFINE f == Head(recvBuf)
<1>0. /\ window' = window /\ link' = link /\ up' = up /\ down' = down
      /\ room' = room /\ serverRooms' = serverRooms /\ nextRoom' = nextRoom
      /\ recvBuf' = Tail(recvBuf) /\ parsing
      /\ IF window = "login" THEN LoginFrame(f) ELSE ChatFrame(f)
    BY DEF parsePacket, server
<1>1. /\ recvBuf \in Seq(ClientFrames) /\ down \in Seq(ClientFrames)
      /\ f \in ClientFrames /\ f = recvBuf[1] /\ f.room \in Nat /\ 1 \in 1..Len(recvBuf)
      /\ recvBuf' \in Seq(ClientFrames) /\ Len(recvBuf') = Len(recvBuf) - 1
  <2>1. recvBuf \in Seq(ClientFrames) /\ down \in Seq(ClientFrames)
      BY DEF ClientInv, ClientTypeOK
  <2>2. /\ f \in ClientFrames /\ f = recvBuf[1] /\ 1 \in 1..Len(recvBuf)
        /\ recvBuf' \in Seq(ClientFrames) /\ Len(recvBuf') = Len(recvBuf) - 1
      BY <1>0, <2>1, HeadTailProperties
  <2>3. \A g \in ClientFrames : g.room \in Nat
      BY DEF ClientFrames
  <2> QED BY <2>1, <2>2, <2>3
<1>2. \/ boxes' = boxes /\ parsing' = parsing
      \/ \E b \in {"welcome", "parse"} :
           /\ boxes' = Append(boxes, b) /\ parsing' = FALSE
           /\ b = "welcome" => window = "login"
    BY <1>0 DEF LoginFrame, ChatFrame, Opens, NoBox
<1>3. /\ currentRoomId' \in Nat /\ input' \in BOOLEAN /\ leaveBtn' \in BOOLEAN
      /\ heartbeat' = heartbeat /\ requestId' = requestId
      /\ IF window = "chat" /\ Decides(f) THEN input' = (f.type # "left") ELSE input' = input
  <2>1. CASE window = "login"
      BY <1>0, <2>1 DEF LoginFrame, ui, ClientInv, ClientTypeOK
  <2>2. CASE window = "chat"
    <3> HIDE DEF f
    <3>1. ChatFrame(f)
        BY <1>0, <2>2
    <3>2. CASE f.type = "created" /\ Enable(f.room)
        BY <1>1, <2>2, <3>2 DEF Enable, Decides
    <3>3. CASE f.type = "joined" /\ Enable(currentRoomId)
        BY <2>2, <3>3 DEF Enable, Decides, ClientInv, ClientTypeOK
    <3>4. CASE f.type = "left" /\ Disable
        BY <2>2, <3>4 DEF Disable, Decides
    <3>5. CASE f.type \in {"error", "note"} /\ UNCHANGED ui
        BY <2>2, <3>5 DEF ui, Decides, ClientInv, ClientTypeOK
    <3> QED BY <3>1, <3>2, <3>3, <3>4, <3>5 DEF ChatFrame
  <2> QED BY <2>1, <2>2 DEF ClientInv, ClientTypeOK
<1>4. /\ boxes' \in Seq({"welcome", "parse", "network"}) /\ parsing' \in BOOLEAN
      /\ Len(boxes') >= Len(boxes) /\ Len(boxes') <= Len(boxes) + 1
      /\ \A i \in 1..Len(boxes) : boxes'[i] = boxes[i]
      /\ \A i \in 1..Len(boxes') : i > Len(boxes) =>
           /\ i = Len(boxes) + 1 /\ boxes'[i] \in {"welcome", "parse"}
           /\ boxes'[i] = "welcome" => window = "login"
  <2>1. boxes \in Seq({"welcome", "parse", "network"}) /\ parsing \in BOOLEAN
      BY DEF ClientInv, ClientTypeOK
  <2>2. CASE boxes' = boxes /\ parsing' = parsing
      BY <2>1, <2>2
  <2>3. CASE \E b \in {"welcome", "parse"} :
                /\ boxes' = Append(boxes, b) /\ parsing' = FALSE
                /\ b = "welcome" => window = "login"
    <3>1. PICK b \in {"welcome", "parse"} :
            /\ boxes' = Append(boxes, b) /\ parsing' = FALSE
            /\ b = "welcome" => window = "login"
        BY <2>3
    <3>2. /\ boxes' \in Seq({"welcome", "parse", "network"}) /\ Len(boxes') = Len(boxes) + 1
          /\ \A i \in 1..Len(boxes) : boxes'[i] = boxes[i]
          /\ boxes'[Len(boxes) + 1] = b /\ Len(boxes) \in Nat
        BY <2>1, <3>1, AppendProperties
    <3>3. /\ Len(boxes') >= Len(boxes) /\ Len(boxes') <= Len(boxes) + 1
          /\ \A i \in 1..Len(boxes') : i > Len(boxes) => i = Len(boxes) + 1
        BY <3>2
    <3>4. parsing' \in BOOLEAN /\ (b = "welcome" => window = "login")
        BY <3>1
    <3>5. \A i \in 1..Len(boxes') : i > Len(boxes) =>
             /\ i = Len(boxes) + 1 /\ boxes'[i] \in {"welcome", "parse"}
             /\ boxes'[i] = "welcome" => window = "login"
        BY <3>2, <3>3, <3>4
    <3> QED BY <3>2, <3>3, <3>4, <3>5
  <2> QED BY <1>2, <2>2, <2>3
<1>5. ClientTypeOK'
    BY <1>0, <1>1, <1>3, <1>4 DEF ClientInv, ClientTypeOK
<1>6. LoginInv'
  <2> SUFFICES ASSUME window = "login" PROVE LoginInv'
      BY <1>0 DEF LoginInv
  <2>1. Len(up) \in Nat /\ Len(down) \in Nat /\ Len(recvBuf) \in Nat
      BY DEF ClientInv, ClientTypeOK
  <2>2. Len(recvBuf) = 1 /\ Len(up) = 0 /\ Len(down) = 0
      BY <1>1, <2>1 DEF ClientInv, LoginInv
  <2>3. recvBuf' = <<>> /\ up = <<>> /\ down = <<>> /\ Len(recvBuf') = 0
      BY <1>1, <2>2 DEF ClientInv, ClientTypeOK
  <2>4. \A i \in 1..Len(boxes) : boxes[i] = "network"
      BY DEF ClientInv, LoginInv
  <2>5. \A i, j \in 1..Len(boxes') : boxes'[i] # "network" /\ boxes'[j] # "network" => i = j
    <3>1. Len(boxes) \in Nat
        BY DEF ClientInv, ClientTypeOK
    <3>2. \A i \in 1..Len(boxes') : i \in 1..Len(boxes) \/ i > Len(boxes)
        BY <3>1
    <3> QED BY <1>4, <2>4, <3>2
  <2>6. ~input' /\ ~heartbeat' /\ room' = 0
      BY <1>0, <1>3 DEF ClientInv, LoginInv
  <2>7. /\ Len(up') = 0 /\ Len(down') = 0 /\ Len(recvBuf') = 0 /\ 1..0 = {}
        /\ up' = <<>> /\ down' = <<>> /\ recvBuf' = <<>>
      BY <1>0, <2>2, <2>3
  <2> QED BY <2>5, <2>6, <2>7 DEF LoginInv
<1>7. BoxInv'
  <2>1. link # "connecting"
      BY <1>0 DEF ClientInv, BoxInv
  <2>2. \A i \in 1..Len(boxes') : i \in 1..Len(boxes) \/ i > Len(boxes)
    <3>1. Len(boxes) \in Nat
        BY DEF ClientInv, ClientTypeOK
    <3> QED BY <3>1
  <2> QED BY <1>0, <1>4, <2>1, <2>2 DEF ClientInv, BoxInv
<1>8. UiAgrees'
  <2> DEFINE W == recvBuf \o down
  <2>1. W \in Seq(ClientFrames) /\ W # <<>> /\ Head(W) = f /\ Tail(W) = recvBuf' \o down'
    <3>1. /\ W \in Seq(ClientFrames) /\ Len(W) = Len(recvBuf) + Len(down) /\ W[1] = f
        BY <1>1, ConcatProperties
    <3>2. W # <<>> /\ Head(W) = f
        BY <1>1, <3>1
    <3>3. Tail(W) = Tail(recvBuf) \o down
        BY <1>1
    <3> QED BY <1>0, <3>1, <3>2, <3>3
  <2>2. window = "login" => ~Decides(f)
      BY <1>1 DEF ClientInv, LoginInv
  <2>3. IF Decides(f) THEN input' = (f.type # "left") ELSE input' = input
      BY <1>3, <2>2 DEF ClientInv, ClientTypeOK
  <2>4. Settled(Tail(W), input') = Settled(W, input)
    <3> HIDE DEF W
    <3> QED BY <2>1, <2>3, SettledTail
  <2> QED BY <1>0, <2>1, <2>4 DEF ClientInv, UiAgrees
<1> QED BY <1>5, <1>6, <1>7, <1>8 DEF ClientInv

\* A slot takes the next frame from its buffer.
LEMMA ParsePacketStep == ClientInv /\ parsePacket => ClientInv'
<1> SUFFICES ASSUME ClientInv, parsePacket PROVE ClientInv'
    OBVIOUS
<1>1. CASE recvBuf # <<>>
    BY <1>1, FrameStep
<1>2. CASE recvBuf = <<>>
  <2>0. /\ window' = window /\ boxes' = boxes /\ link' = link /\ up' = up
        /\ currentRoomId' = currentRoomId /\ input' = input
        /\ leaveBtn' = leaveBtn /\ heartbeat' = heartbeat /\ requestId' = requestId
        /\ room' = room /\ serverRooms' = serverRooms /\ nextRoom' = nextRoom
        /\ recvBuf' = recvBuf /\ down' = down /\ parsing' = FALSE
      BY <1>2 DEF parsePacket, ui, server
  <2>1. ClientTypeOK'
      BY <2>0 DEF ClientInv, ClientTypeOK
  <2>2. LoginInv' /\ BoxInv' /\ UiAgrees'
      BY <1>2, <2>0 DEF ClientInv, LoginInv, BoxInv, UiAgrees
  <2> QED BY <2>1, <2>2 DEF ClientInv
<1> QED BY <1>1, <1>2

\* The connection breaks, or is refused.
LEMMA ErrorStep ==
  ASSUME ClientInv, slot_error \/ slot_errorConnecting
  PROVE  ClientInv'
<1>0. /\ window' = window /\ recvBuf' = recvBuf /\ parsing' = parsing /\ ~parsing
      /\ currentRoomId' = currentRoomId /\ input' = input
      /\ leaveBtn' = leaveBtn /\ heartbeat' = heartbeat /\ requestId' = requestId
      /\ room' \in {0, room} /\ serverRooms' = serverRooms /\ nextRoom' = nextRoom
      /\ up' \in {<<>>, up} /\ down' \in {<<>>, down}
      /\ link' \in {"off", "broken"} /\ boxes' = Append(boxes, "network")
    BY DEF slot_error, slot_errorConnecting, Idle, traffic, ui, server
<1>1. /\ boxes' \in Seq({"welcome", "parse", "network"}) /\ Len(boxes') = Len(boxes) + 1
      /\ \A i \in 1..Len(boxes) : boxes'[i] = boxes[i]
      /\ boxes'[Len(boxes) + 1] = "network" /\ Len(boxes) \in Nat
    BY <1>0, AppendProperties DEF ClientInv, ClientTypeOK
<1>2. /\ <<>> \in Seq(ClientFrames) /\ Len(<<>>) = 0
    OBVIOUS
<1>3. ClientTypeOK'
  <2>1. up' \in Seq(ClientFrames) /\ down' \in Seq(ClientFrames) /\ room' \in Nat
    <3>1. up \in Seq(ClientFrames) /\ down \in Seq(ClientFrames) /\ room \in Nat /\ 0 \in Nat
        BY DEF ClientInv, ClientTypeOK
    <3> QED BY <1>0, <1>2, <3>1
  <2> QED BY <1>0, <1>1, <2>1 DEF ClientInv, ClientTypeOK
<1>4. \A i \in 1..Len(boxes') : i \in 1..Len(boxes) \/ i = Len(boxes) + 1
    BY <1>1
<1>5. LoginInv'
  <2> SUFFICES ASSUME window = "login" PROVE LoginInv'
      BY <1>0 DEF LoginInv
  <2>1. Len(up) \in Nat /\ Len(down) \in Nat /\ Len(recvBuf) \in Nat
      BY DEF ClientInv, ClientTypeOK
  <2>2. /\ Len(up') + Len(down') + Len(recvBuf') <= 1
        /\ \A i \in 1..Len(up') : up'[i].type = "login"
        /\ \A i \in 1..Len(down') : ~Decides(down'[i])
      BY <1>0, <1>2, <2>1 DEF ClientInv, LoginInv
  <2>3. /\ \A i, j \in 1..Len(boxes') : boxes'[i] # "network" /\ boxes'[j] # "network" => i = j
        /\ \A i \in 1..Len(boxes') : boxes'[i] # "network" =>
             up' = <<>> /\ down' = <<>> /\ recvBuf' = <<>>
      BY <1>0, <1>1, <1>4 DEF ClientInv, LoginInv
  <2> QED BY <1>0, <2>2, <2>3 DEF ClientInv, LoginInv
<1>6. BoxInv'
    BY <1>0, <1>1, <1>4 DEF ClientInv, BoxInv
<1>7. UiAgrees'
    BY <1>0 DEF UiAgrees
<1> QED BY <1>3, <1>5, <1>6, <1>7 DEF ClientInv

\* The user closes a box, and the slot below it goes on.
LEMMA CloseBoxStep == ClientInv /\ CloseBox => ClientInv'
<1> SUFFICES ASSUME ClientInv, CloseBox PROVE ClientInv'
    OBVIOUS
<1> DEFINE top == boxes[Len(boxes)]
<1>0. /\ link' = link /\ up' = up /\ down' = down
      /\ room' = room /\ serverRooms' = serverRooms /\ nextRoom' = nextRoom
      /\ currentRoomId' = currentRoomId /\ leaveBtn' = leaveBtn /\ requestId' = requestId
      /\ boxes # <<>> /\ ~parsing /\ boxes' = SubSeq(boxes, 1, Len(boxes) - 1)
    BY DEF CloseBox, onDisconnected, ui, server
<1>1. /\ Len(boxes) \in Nat /\ Len(boxes) > 0 /\ Len(boxes) \in 1..Len(boxes)
      /\ boxes' \in Seq({"welcome", "parse", "network"}) /\ Len(boxes') = Len(boxes) - 1
      /\ \A i \in 1..Len(boxes') : boxes'[i] = boxes[i] /\ i \in 1..Len(boxes) /\ i < Len(boxes)
  <2>1. boxes \in Seq({"welcome", "parse", "network"})
      BY DEF ClientInv, ClientTypeOK
  <2>2. Len(boxes) \in Nat /\ Len(boxes) > 0 /\ Len(boxes) \in 1..Len(boxes)
      BY <1>0, <2>1
  <2>3. /\ boxes' \in Seq({"welcome", "parse", "network"}) /\ Len(boxes') = Len(boxes) - 1
        /\ \A i \in 1..Len(boxes') : boxes'[i] = boxes[i]
    <3>1. \A i \in 1..(Len(boxes) - 1) : boxes[i] \in {"welcome", "parse", "network"}
        BY <2>1, <2>2
    <3>2. Len(boxes) - 1 \in Int /\ 1 \in Int /\ (Len(boxes) - 1) - 1 + 1 = Len(boxes) - 1
        BY <2>2
    <3>3. /\ SubSeq(boxes, 1, Len(boxes) - 1) \in Seq({"welcome", "parse", "network"})
          /\ Len(SubSeq(boxes, 1, Len(boxes) - 1)) = Len(boxes) - 1
          /\ \A i \in 1..(Len(boxes) - 1) : SubSeq(boxes, 1, Len(boxes) - 1)[i] = boxes[1 + i - 1]
        BY <2>2, <3>1, <3>2, SubSeqProperties
    <3>4. \A i \in 1..(Len(boxes) - 1) : 1 + i - 1 = i
        OBVIOUS
    <3> QED BY <1>0, <3>3, <3>4
  <2> QED BY <2>2, <2>3
<1>2. link # "connecting"
    BY <1>0 DEF ClientInv, BoxInv
<1>3. CASE top = "parse"
  <2>1. /\ parsing' = TRUE /\ window' = window /\ recvBuf' = recvBuf
        /\ input' = input /\ heartbeat' = heartbeat
      BY <1>3 DEF CloseBox, ui
  <2>2. ClientTypeOK'
      BY <1>0, <1>1, <2>1 DEF ClientInv, ClientTypeOK
  <2>3. LoginInv'
      BY <1>0, <1>1, <2>1 DEF ClientInv, LoginInv
  <2>4. BoxInv'
      BY <1>0, <1>1, <1>2, <2>1 DEF ClientInv, BoxInv
  <2>5. UiAgrees'
      BY <1>0, <2>1 DEF ClientInv, UiAgrees
  <2> QED BY <2>2, <2>3, <2>4, <2>5 DEF ClientInv
<1>4. CASE top = "welcome"
  <2>1. /\ window' = "chat" /\ recvBuf' = <<>> /\ heartbeat' = TRUE
        /\ parsing' = parsing /\ input' = input
      BY <1>4 DEF CloseBox
  <2>2. window = "login" /\ recvBuf = <<>>
      BY <1>1, <1>4 DEF ClientInv, LoginInv, BoxInv
  <2>3. ClientTypeOK'
      BY <1>0, <1>1, <2>1, <2>2 DEF ClientInv, ClientTypeOK
  <2>4. LoginInv'
      BY <2>1 DEF LoginInv
  <2>5. \A i \in 1..Len(boxes') : boxes'[i] = "network"
      BY <1>1, <1>4, <2>2 DEF ClientInv, LoginInv
  <2>6. BoxInv'
      BY <1>0, <1>1, <1>2, <2>5 DEF ClientInv, BoxInv
  <2>7. UiAgrees'
      BY <1>0, <2>1, <2>2 DEF ClientInv, UiAgrees
  <2> QED BY <2>3, <2>4, <2>6, <2>7 DEF ClientInv
<1>5. CASE top = "network"
  <2>1. /\ window' = window /\ recvBuf' = recvBuf /\ parsing' = parsing
        /\ input' = (input /\ window # "chat")
        /\ heartbeat' = (heartbeat /\ window # "chat")
      BY <1>5 DEF CloseBox, onDisconnected
  <2>2. ClientTypeOK'
      BY <1>0, <1>1, <2>1 DEF ClientInv, ClientTypeOK
  <2>3. LoginInv'
      BY <1>0, <1>1, <2>1 DEF ClientInv, LoginInv
  <2>4. BoxInv'
      BY <1>0, <1>1, <1>2, <2>1 DEF ClientInv, BoxInv
  <2>5. link \in {"broken", "off"}
      BY <1>1, <1>5 DEF ClientInv, BoxInv
  <2>6. UiAgrees'
      BY <1>0, <2>5 DEF UiAgrees
  <2> QED BY <2>2, <2>3, <2>4, <2>6 DEF ClientInv
<1>6. top \in {"parse", "welcome", "network"}
    BY <1>1 DEF ClientInv, ClientTypeOK
<1> QED BY <1>3, <1>4, <1>5, <1>6

\* Every step keeps the invariant.
LEMMA ClientStep == ClientInv /\ [ClientNext]_clientVars => ClientInv'
<1> SUFFICES ASSUME ClientInv, [ClientNext]_clientVars PROVE ClientInv'
    OBVIOUS
<1>1. CASE ClientNext
    BY <1>1, LoginClickedStep, LoginConnectedStep, RequestsStep, OthersStep, AnswersStep,
       ReadyReadStep, ParsePacketStep, ErrorStep, CloseBoxStep DEF ClientNext
<1>2. CASE UNCHANGED clientVars
    BY <1>2 DEF clientVars, login, traffic, ui, server, ClientInv, ClientTypeOK, LoginInv,
       BoxInv, UiAgrees
<1> QED BY <1>1, <1>2

\* The invariant of the client holds of every behaviour, for any rooms and any
\* number of requests.
THEOREM ClientInvariance == ClientSpec => []ClientInv
<1>1. ClientInit => ClientInv
    BY InitClient
<1>2. ClientInv /\ [ClientNext]_clientVars => ClientInv'
    BY ClientStep
<1> QED BY <1>1, <1>2, PTL DEF ClientSpec

\* Once what is under way has been handled, the controls of the window agree with
\* the room the server has the user in.
THEOREM UiAgreesHolds == ClientSpec => []UiAgrees
<1>1. ClientInv => UiAgrees
    BY DEF ClientInv
<1> QED BY <1>1, ClientInvariance, PTL
=============================================================================
