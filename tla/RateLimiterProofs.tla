-------------------------- MODULE RateLimiterProofs --------------------------
(***************************************************************************)
(* Theorems about RateLimiter, for any users, addresses, limits and window.*)
(* The argument: the pruned bucket of a key is exactly the set of admitted *)
(* requests of the key in the last window (BucketInv), so the size check   *)
(* bounds every span that ends now; a span that ended earlier does not     *)
(* change.                                                                 *)
(***************************************************************************)
EXTENDS RateLimiter, FiniteSetTheorems, WellFoundedInduction, TLAPS

\* What the code knows about a bucket: its stamps are those of admitted
\* requests of its key, and all that are not older than the window are there.
BucketInv ==
    \A k \in Keys :
        /\ \A i \in bucket[k] : KeyOf(log[i]) = k
        /\ \A i \in 1 .. Len(log) :
               (KeyOf(log[i]) = k /\ log[i].at >= now - Window) => i \in bucket[k]

\* Nothing was admitted in the future.
PastOnly == \A i \in 1 .. Len(log) : log[i].at <= now

\* The types the argument needs.
RateType ==
    /\ now \in Nat
    /\ bucket \in [Keys -> SUBSET (1 .. Len(log))]
    /\ log \in Seq(Requests)

RateInv == RateType /\ BucketInv /\ PastOnly /\ WindowNeverExceeded
                    /\ RefusedOnlyWhenFull

\* The limit of every category is a positive number.
LEMMA LimitType == \A route \in Routes : Limit(route) \in Nat \ {0}
  BY RateAssumption DEF Limit, Routes, SettingsRoutes

\* _client_id sends two requests to one bucket exactly when they are to be
\* counted together.
LEMMA KeySeparates ==
  ASSUME NEW q \in Requests, NEW r \in Requests
  PROVE  /\ KeyOf(r) \in Keys
         /\ KeyOf(r)[1] = r.route
         /\ KeyOf(q) = KeyOf(r) <=> Together(q, r)
<1>1. IpOf[q.user] \in Addresses /\ IpOf[r.user] \in Addresses
  BY RateAssumption DEF Requests
<1>2. "u" # "ip"
  OBVIOUS
<1> QED  BY <1>1, <1>2 DEF Requests, KeyOf, Together, ClientId, Keys

\* Every path has a category.
LEMMA RouteType == \A path : RouteKey(path) \in Routes
  BY DEF RouteKey, Routes, SettingsRoutes

\* A request the middleware handles is one the history can hold.
LEMMA RequestType ==
  ASSUME RateType, NEW u \in Users, NEW auth \in BOOLEAN, NEW path
  PROVE  [user |-> u, auth |-> auth, route |-> RouteKey(path), at |-> now] \in Requests
  BY RouteType DEF RateType, Requests

\* A set of admitted requests is finite and has a size.
LEMMA AdmittedFinite ==
  ASSUME log \in Seq(Requests), NEW T \in SUBSET (1 .. Len(log))
  PROVE  IsFiniteSet(T) /\ Cardinality(T) \in Nat
<1>1. Len(log) \in Nat
  OBVIOUS
<1>2. IsFiniteSet(1 .. Len(log))
  BY <1>1, FS_Interval
<1>3. IsFiniteSet(T)
  BY <1>2, FS_Subset
<1> QED  BY <1>3, FS_CardinalityType

\* The entries of the history are requests with a time.
LEMMA LogType ==
  ASSUME log \in Seq(Requests)
  PROVE  \A i \in 1 .. Len(log) : log[i] \in Requests /\ log[i].at \in Nat
<1>1. \A i \in 1 .. Len(log) : log[i] \in Requests
  OBVIOUS
<1>2. \A q \in Requests : q.at \in Nat
  BY DEF Requests
<1> QED  BY <1>1, <1>2

\* The pruned bucket of a request's key is the set of admitted requests counted
\* with it in the window that ends now.
LEMMA RecentIsAdmitted ==
  ASSUME RateType, BucketInv, PastOnly, NEW r \in Requests
  PROVE  Recent(KeyOf(r)) = Admitted(r, now - Window, now)
<1> DEFINE k == KeyOf(r)
<1>1. k \in Keys
  BY KeySeparates
<1>2. \A i \in 1 .. Len(log) : log[i] \in Requests /\ log[i].at \in Nat
  BY LogType DEF RateType
<1>3. \A i \in 1 .. Len(log) : KeyOf(log[i]) = k <=> Together(log[i], r)
  BY <1>2, KeySeparates
<1>4. bucket[k] \subseteq 1 .. Len(log)
  BY <1>1 DEF RateType
<1>5. now \in Nat /\ Window \in Nat
  BY RateAssumption DEF RateType
<1>6. ASSUME NEW i \in Recent(k)  PROVE i \in Admitted(r, now - Window, now)
  <2>1. i \in bucket[k] /\ log[i].at >= now - Window
    BY <1>6 DEF Recent
  <2>2. i \in 1 .. Len(log) /\ KeyOf(log[i]) = k
    BY <2>1, <1>1, <1>4 DEF BucketInv
  <2>3. log[i].at <= now
    BY <2>2 DEF PastOnly
  <2> QED  BY <2>1, <2>2, <2>3, <1>2, <1>3, <1>5 DEF Admitted
<1>7. ASSUME NEW i \in Admitted(r, now - Window, now)  PROVE i \in Recent(k)
  <2>1. i \in 1 .. Len(log) /\ Together(log[i], r) /\ log[i].at >= now - Window
    BY <1>7, <1>2, <1>5 DEF Admitted
  <2>2. i \in bucket[k]
    BY <2>1, <1>1, <1>3 DEF BucketInv
  <2> QED  BY <2>1, <2>2 DEF Recent
<1> QED  BY <1>6, <1>7

\* A fresh limiter satisfies the invariant.
LEMMA RateInit == Init => RateInv
<1> SUFFICES ASSUME Init PROVE RateInv
  OBVIOUS
<1> USE DEF Init
<1>1. log = <<>> /\ Len(log) = 0 /\ 1 .. Len(log) = {}
  OBVIOUS
<1>2. RateType
  BY <1>1 DEF RateType
<1>3. BucketInv /\ PastOnly /\ WindowNeverExceeded
  BY <1>1 DEF BucketInv, PastOnly, WindowNeverExceeded
<1>4. RefusedOnlyWhenFull
  BY DEF RefusedOnlyWhenFull, NoReply
<1> QED  BY <1>2, <1>3, <1>4 DEF RateInv

\* An admitted request keeps the invariant: the spans that reach up to it lie
\* in the window that ends now, which had room.
LEMMA AdmitStep ==
  ASSUME RateInv, NEW u \in Users, NEW auth \in BOOLEAN, NEW path \in Paths,
         Admit(u, auth, path)
  PROVE  RateInv'
<1> DEFINE r == [user |-> u, auth |-> auth, route |-> RouteKey(path), at |-> now]
           k == KeyOf(r)
           n == Len(log)
           W == Admitted(r, now - Window, now)
<1> USE DEF RateInv
<1>1. /\ ~Full(k)
      /\ log' = Append(log, r)
      /\ bucket' = [bucket EXCEPT ![k] = Recent(k) \cup {n + 1}]
      /\ reply' = [code |-> 200, request |-> r]
      /\ now' = now
  BY DEF Admit
<1>2. r \in Requests /\ k \in Keys /\ k[1] = r.route /\ r.route \in Routes
  BY RequestType, KeySeparates, RouteType
<1>3. n \in Nat /\ Len(log') = n + 1 /\ log' \in Seq(Requests)
      /\ log'[n + 1] = r /\ \A i \in 1 .. n : log'[i] = log[i] /\ log[i] \in Requests
  BY <1>1, <1>2 DEF RateType
<1>4. now \in Nat /\ Window \in Nat /\ \A i \in 1 .. n : log[i].at \in Nat
  BY <1>3, RateAssumption DEF RateType, Requests
<1>5. RateType'
  <2>1. Recent(k) \subseteq 1 .. n
    BY <1>2 DEF RateType, Recent
  <2>2. bucket' \in [Keys -> SUBSET (1 .. Len(log'))]
    BY <2>1, <1>1, <1>2, <1>3 DEF RateType
  <2> QED  BY <2>2, <1>1, <1>3 DEF RateType
<1>6. BucketInv'
  <2> SUFFICES ASSUME NEW c \in Keys
               PROVE  /\ \A i \in bucket'[c] : KeyOf(log'[i]) = c
                      /\ \A i \in 1 .. Len(log') :
                             (KeyOf(log'[i]) = c /\ log'[i].at >= now - Window)
                                 => i \in bucket'[c]
    BY <1>1 DEF BucketInv
  <2>1. bucket[c] \subseteq 1 .. n
    BY DEF RateType
  <2>2. CASE c = k
    <3>1. bucket'[c] = Recent(k) \cup {n + 1}
      BY <2>2, <1>1 DEF RateType
    <3>2. \A i \in Recent(k) : i \in 1 .. n /\ KeyOf(log'[i]) = k
      BY <2>1, <2>2, <1>3 DEF Recent, BucketInv
    <3>3. \A i \in 1 .. n : (KeyOf(log'[i]) = k /\ log'[i].at >= now - Window)
                                 => i \in Recent(k)
      BY <1>2, <1>3 DEF Recent, BucketInv
    <3> QED  BY <3>1, <3>2, <3>3, <2>2, <1>3
  <2>3. CASE c # k
    <3>1. bucket'[c] = bucket[c]
      BY <2>3, <1>1 DEF RateType
    <3>2. KeyOf(log'[n + 1]) # c
      BY <2>3, <1>3
    <3>3. \A i \in bucket[c] : KeyOf(log'[i]) = c
      BY <2>1, <1>3 DEF BucketInv
    <3>4. \A i \in 1 .. n : (KeyOf(log'[i]) = c /\ log'[i].at >= now - Window)
                                 => i \in bucket[c]
      BY <1>3 DEF BucketInv
    <3> QED  BY <3>1, <3>2, <3>3, <3>4, <1>3
  <2> QED  BY <2>2, <2>3
<1>7. PastOnly'
  BY <1>1, <1>3, <1>4 DEF PastOnly
<1>8. W \subseteq 1 .. n /\ IsFiniteSet(W) /\ Cardinality(W) \in Nat
  BY AdmittedFinite DEF Admitted, RateType
<1>9. Cardinality(W) + 1 <= Limit(r.route)
  <2>1. Recent(k) = W
    BY <1>2, RecentIsAdmitted
  <2>2. ~(Cardinality(W) >= Limit(r.route))
    BY <2>1, <1>1, <1>2 DEF Full
  <2> QED  BY <2>2, <1>2, <1>8, LimitType
<1>10. IsFiniteSet(W \cup {n + 1}) /\ Cardinality(W \cup {n + 1}) = Cardinality(W) + 1
  <2>1. n + 1 \notin W
    BY <1>3, <1>8
  <2> QED  BY <2>1, <1>8, FS_AddElement
<1>11. WindowNeverExceeded'
  <2> DEFINE Span(q) == {j \in 1 .. Len(log') : Together(log'[j], q)
                                       /\ log'[j].at \in q.at .. (q.at + Window)}
  <2> SUFFICES ASSUME NEW i \in 1 .. Len(log')
               PROVE  Cardinality(Span(log'[i])) <= Limit(log'[i].route)
    BY DEF WindowNeverExceeded, Admitted
  <2> DEFINE q == log'[i]
             S == Span(q)
  <2>2. q \in Requests /\ q.at \in Nat /\ q.at <= now /\ q.route \in Routes
    <3>1. CASE i = n + 1
      BY <3>1, <1>2, <1>3, <1>4
    <3>2. CASE i \in 1 .. n
      BY <3>2, <1>3, <1>4 DEF PastOnly, Requests
    <3> QED  BY <3>1, <3>2, <1>3
  <2>3. CASE Together(r, q) /\ q.at >= now - Window
    <3>1. q.route = r.route /\ \A j \in 1 .. n : Together(log[j], q) => Together(log[j], r)
      BY <2>3 DEF Together
    <3>2. \A j \in S : j \in W \cup {n + 1}
      <4> SUFFICES ASSUME NEW j \in S, j # n + 1 PROVE j \in W
        OBVIOUS
      <4>1. j \in 1 .. n /\ Together(log[j], q) /\ log[j].at >= q.at
        BY <2>2, <1>3, <1>4
      <4>2. log[j].at \in (now - Window) .. now
        BY <4>1, <2>2, <2>3, <1>4 DEF PastOnly
      <4> QED  BY <4>1, <4>2, <3>1 DEF Admitted
    <3>3. Cardinality(S) <= Cardinality(W \cup {n + 1})
      BY <3>2, <1>10, FS_Subset
    <3>4. IsFiniteSet(S) /\ Cardinality(S) \in Nat
      BY <3>2, <1>10, FS_Subset, FS_CardinalityType
    <3> QED  BY <3>1, <3>3, <3>4, <1>2, <1>8, <1>9, <1>10, LimitType
  <2>4. CASE ~(Together(r, q) /\ q.at >= now - Window)
    <3>1. i \in 1 .. n
      BY <2>4, <1>3, <1>4 DEF Together
    <3>2. n + 1 \notin S
      BY <2>2, <2>4, <1>3, <1>4
    <3>3. S = Admitted(log[i], log[i].at, log[i].at + Window)
      BY <3>1, <3>2, <1>3 DEF Admitted
    <3> QED  BY <3>1, <3>3, <1>3 DEF WindowNeverExceeded
  <2> QED  BY <2>3, <2>4
<1>12. RefusedOnlyWhenFull'
  BY <1>1 DEF RefusedOnlyWhenFull
<1> QED  BY <1>5, <1>6, <1>7, <1>11, <1>12

\* A refusal changes no history, and the bucket it found full is the window
\* that ends now.
LEMMA RefuseStep ==
  ASSUME RateInv, NEW u \in Users, NEW auth \in BOOLEAN, NEW path \in Paths,
         Refuse(u, auth, path)
  PROVE  RateInv'
<1> DEFINE r == [user |-> u, auth |-> auth, route |-> RouteKey(path), at |-> now]
           k == KeyOf(r)
<1> USE DEF RateInv
<1>1. /\ Full(k)
      /\ bucket' = [bucket EXCEPT ![k] = Recent(k)]
      /\ reply' = [code |-> 429, request |-> r]
      /\ now' = now /\ log' = log
  BY DEF Refuse
<1>2. r \in Requests /\ k \in Keys /\ k[1] = r.route /\ r.at = now
  BY RequestType, KeySeparates
<1>3. RateType'
  <2>1. Recent(k) \subseteq 1 .. Len(log)
    BY <1>2 DEF RateType, Recent
  <2>2. bucket' \in [Keys -> SUBSET (1 .. Len(log'))]
    BY <2>1, <1>1, <1>2 DEF RateType
  <2> QED  BY <2>2, <1>1 DEF RateType
<1>4. BucketInv'
  <2> SUFFICES ASSUME NEW c \in Keys
               PROVE  /\ \A i \in bucket'[c] : KeyOf(log[i]) = c
                      /\ \A i \in 1 .. Len(log) :
                             (KeyOf(log[i]) = c /\ log[i].at >= now - Window)
                                 => i \in bucket'[c]
    BY <1>1 DEF BucketInv
  <2>1. bucket'[c] = IF c = k THEN Recent(k) ELSE bucket[c]
    BY <1>1 DEF RateType
  <2> QED  BY <2>1 DEF BucketInv, Recent
<1>5. PastOnly' /\ WindowNeverExceeded'
  <2>1. \A q, lo, hi : Admitted(q, lo, hi)' = Admitted(q, lo, hi)
    BY <1>1 DEF Admitted, Together
  <2> QED  BY <2>1, <1>1 DEF PastOnly, WindowNeverExceeded
<1>6. RefusedOnlyWhenFull'
  <2>1. reply'.request = r
    BY <1>1
  <2>2. Recent(k) = Admitted(r, now - Window, now)
    BY <1>2, RecentIsAdmitted
  <2>3. Cardinality(Admitted(r, r.at - Window, r.at)) >= Limit(r.route)
    BY <2>2, <1>1, <1>2 DEF Full
  <2> QED  BY <2>1, <2>3, <1>1 DEF RefusedOnlyWhenFull, Admitted
<1> QED  BY <1>3, <1>4, <1>5, <1>6

\* While time passes stamps only get older.
LEMMA TickStep == RateInv /\ Tick => RateInv'
<1> SUFFICES ASSUME RateInv, Tick PROVE RateInv'
  OBVIOUS
<1> USE DEF RateInv
<1>1. now \in Nat /\ Window \in Nat /\ now' = now + 1
      /\ bucket' = bucket /\ log' = log /\ reply' = reply
  BY RateAssumption DEF Tick, RateType
<1>2. \A i \in 1 .. Len(log) : log[i].at \in Nat
  BY LogType DEF RateType
<1>3. RateType' /\ PastOnly'
  BY <1>1, <1>2 DEF RateType, PastOnly
<1>4. BucketInv'
  BY <1>1, <1>2 DEF BucketInv
<1>5. \A q, lo, hi : Admitted(q, lo, hi)' = Admitted(q, lo, hi)
  BY <1>1 DEF Admitted, Together
<1>6. WindowNeverExceeded' /\ RefusedOnlyWhenFull'
  BY <1>1, <1>5 DEF WindowNeverExceeded, RefusedOnlyWhenFull
<1> QED  BY <1>3, <1>4, <1>6

\* A restart forgets buckets and history together.
LEMMA RestartStep == RateInv /\ Restart => RateInv'
<1> SUFFICES ASSUME RateInv, Restart PROVE RateInv'
  OBVIOUS
<1>1. log' = <<>> /\ 1 .. Len(log') = {} /\ now' = now
      /\ bucket' = [k \in Keys |-> {}] /\ reply' = NoReply
  BY DEF Restart
<1>2. RateType'
  BY <1>1 DEF RateType, RateInv
<1>3. BucketInv' /\ PastOnly' /\ WindowNeverExceeded'
  BY <1>1 DEF BucketInv, PastOnly, WindowNeverExceeded
<1>4. RefusedOnlyWhenFull'
  BY <1>1 DEF RefusedOnlyWhenFull, NoReply
<1> QED  BY <1>2, <1>3, <1>4 DEF RateInv

\* A step that changes nothing changes no part of the invariant.
LEMMA RateStutter == RateInv /\ UNCHANGED vars => RateInv'
<1> SUFFICES ASSUME RateInv, UNCHANGED vars PROVE RateInv'
  OBVIOUS
<1>1. now' = now /\ bucket' = bucket /\ log' = log /\ reply' = reply
  BY DEF vars
<1>2. \A q, lo, hi : Admitted(q, lo, hi)' = Admitted(q, lo, hi)
  BY <1>1 DEF Admitted, Together
<1> QED  BY <1>1, <1>2 DEF RateInv, RateType, BucketInv, PastOnly,
                           WindowNeverExceeded, RefusedOnlyWhenFull

\* The buckets, the history and the last answer agree in every reachable state.
THEOREM RateInvariant == Spec => []RateInv
<1>1. Init => RateInv
  BY RateInit
<1>2. RateInv /\ [Next]_vars => RateInv'
  BY AdmitStep, RefuseStep, TickStep, RestartStep, RateStutter DEF Next
<1> QED  BY <1>1, <1>2, PTL DEF Spec

\* No span of a window's length, wherever it starts, holds more admitted
\* requests of one client and category than the limit (check).
THEOREM NeverOverLimit == Spec => []WindowNeverExceeded
<1>1. RateInv => WindowNeverExceeded
  BY DEF RateInv
<1> QED  BY <1>1, RateInvariant, PTL

\* A 429 means that the client itself had its limit admitted within the last
\* window (check, _client_id).
THEOREM RefusalIsDeserved == Spec => []RefusedOnlyWhenFull
<1>1. RateInv => RefusedOnlyWhenFull
  BY DEF RateInv
<1> QED  BY <1>1, RateInvariant, PTL

-----------------------------------------------------------------------------
(* Retry-After.  A promise made at the first refusal names an instant by   *)
(* which the oldest stamp of the full bucket has expired, but for half a   *)
(* second of rounding.  Until the next admission the bucket only shrinks,  *)
(* and without that stamp it has room.                                     *)

\* What a promise is worth: the stamps of the key later than m do not fill
\* the bucket, and m expires half a second after the promise at the latest.
PromiseInv ==
    \A k \in Keys : promised[k] # 0 =>
        \E m \in Nat :
            /\ 2 * (m + Window) <= 2 * promised[k] + Second
            /\ Cardinality({i \in bucket[k] : log[i].at > m}) < Limit(k[1])

PromisesHold == RateInv /\ TypeOK /\ PromiseInv /\ RetryAfterIsEnough

\* A set of times has an earliest one, which is the one Oldest takes.
LEMMA OldestIsFirst ==
  ASSUME NEW S \in SUBSET Nat, S # {}
  PROVE  Oldest(S) \in S /\ \A v \in S : Oldest(S) <= v
<1> DEFINE R == OpToRel(<, Nat)
<1>1. \A x, y \in Nat : y < x => <<y, x>> \in R
  BY DEF OpToRel
<1>2. IsWellFoundedOn(R, Nat)
  BY NatLessThanWellFounded
<1> HIDE DEF R
<1>3. PICK x \in S : \A y \in S : ~(<<y, x>> \in R)
  BY <1>2, WFMin
<1>4. x \in Nat /\ \A y \in S : y \in Nat
  OBVIOUS
<1>5. \A y \in S : ~(y < x)
  BY <1>1, <1>3, <1>4, Zenon
<1>6. \A y \in S : x <= y
  BY <1>4, <1>5
<1> QED  BY <1>6 DEF Oldest

\* round() is off by half a second at most.
LEMMA RoundedIsNear ==
  ASSUME NEW t \in Nat
  PROVE  Rounded(t) \in Nat /\ 2 * t <= 2 * Rounded(t) + Second
<1> DEFINE down == t \div Second
           rem == t % Second
<1>1. Second \in Nat /\ Second > 0
  BY RateAssumption
<1>2. down \in Nat /\ rem \in Nat /\ t = Second * down + rem /\ rem < Second
  BY <1>1
<1>3. Rounded(t) = Second * down \/ (Rounded(t) = Second * (down + 1) /\ 2 * rem >= Second)
      \/ (Rounded(t) = Second * down /\ 2 * rem <= Second)
  BY <1>1, <1>2 DEF Rounded
<1>4. Rounded(t) = Second * down => 2 * rem <= Second
  BY <1>1, <1>2 DEF Rounded
<1> QED  BY <1>1, <1>2, <1>3, <1>4

\* Time stamps kept are times, none after now.
LEMMA RecentType ==
  ASSUME RateInv, NEW k \in Keys
  PROVE  /\ Recent(k) \subseteq bucket[k] /\ bucket[k] \subseteq 1 .. Len(log)
         /\ \A i \in bucket[k] : log[i].at \in Nat /\ log[i].at <= now
         /\ \A i \in Recent(k) : log[i].at >= now - Window
         /\ now \in Nat /\ Window \in Nat \ {0} /\ Second \in Nat \ {0}
<1>1. Recent(k) \subseteq bucket[k] /\ bucket[k] \subseteq 1 .. Len(log)
  BY DEF RateInv, RateType, Recent
<1>2. \A i \in 1 .. Len(log) : log[i].at \in Nat
  BY LogType DEF RateInv, RateType
<1> QED  BY <1>1, <1>2, RateAssumption DEF RateInv, RateType, PastOnly, Recent

\* The size of a part of a bucket, and of a smaller part.
LEMMA PartSizes ==
  ASSUME RateInv, NEW k \in Keys, NEW T \in SUBSET bucket[k], NEW S \in SUBSET T
  PROVE  /\ Cardinality(S) \in Nat /\ Cardinality(T) \in Nat
         /\ Cardinality(S) <= Cardinality(T)
         /\ S # T => Cardinality(S) < Cardinality(T)
<1>1. T \in SUBSET (1 .. Len(log)) /\ S \in SUBSET (1 .. Len(log)) /\ log \in Seq(Requests)
  BY DEF RateInv, RateType
<1>2. IsFiniteSet(T) /\ IsFiniteSet(S) /\ Cardinality(S) \in Nat /\ Cardinality(T) \in Nat
  BY <1>1, AdmittedFinite
<1> QED  BY <1>2, FS_Subset

\* A full bucket holds the limit and no more: its oldest stamp begins a span of
\* a window that holds them all.  The promise made for it is therefore kept.
LEMMA FirstRefusal ==
  ASSUME RateInv, NEW r \in Requests, Full(KeyOf(r))
  PROVE  LET k == KeyOf(r)
             m == Oldest({log[i].at : i \in Recent(k)})
         IN  /\ m \in Nat /\ RetryAfter(k) \in Nat /\ Rounded(RetryAfter(k)) \in Nat
             /\ 2 * (m + Window) <= 2 * (now + Rounded(RetryAfter(k))) + Second
             /\ Cardinality({i \in Recent(k) : log[i].at > m}) < Limit(r.route)
<1> DEFINE k == KeyOf(r)
           times == {log[i].at : i \in Recent(k)}
           m == Oldest(times)
           later == {i \in Recent(k) : log[i].at > m}
<1>1. k \in Keys /\ k[1] = r.route /\ r.route \in Routes
  BY KeySeparates DEF Requests
<1>2. /\ Recent(k) \subseteq bucket[k] /\ bucket[k] \subseteq 1 .. Len(log)
      /\ \A i \in bucket[k] : log[i].at \in Nat /\ log[i].at <= now
      /\ \A i \in Recent(k) : log[i].at >= now - Window
      /\ now \in Nat /\ Window \in Nat \ {0} /\ Second \in Nat \ {0}
  BY <1>1, RecentType
<1>3. Cardinality(Recent(k)) >= Limit(r.route) /\ Limit(r.route) \in Nat \ {0}
  BY <1>1, LimitType DEF Full
<1>4. Recent(k) # {}
  BY <1>3, FS_EmptySet
<1>5. times \in SUBSET Nat /\ times # {}
  BY <1>2, <1>4
<1>6. m \in times /\ \A v \in times : m <= v
  <2> HIDE DEF times
  <2> QED  BY <1>5, OldestIsFirst
<1>7. PICK first \in Recent(k) : log[first].at = m
  BY <1>6
<1>8. m \in Nat /\ m <= now /\ m >= now - Window
  BY <1>2, <1>7
<1>9. RetryAfter(k) = Window - (now - m)
  BY <1>4 DEF RetryAfter
<1> HIDE DEF m, times
<1>10. RetryAfter(k) \in Nat
  BY <1>2, <1>8, <1>9
<1>11. Rounded(RetryAfter(k)) \in Nat
       /\ 2 * RetryAfter(k) <= 2 * Rounded(RetryAfter(k)) + Second
  BY <1>10, RoundedIsNear
<1>12. 2 * (m + Window) <= 2 * (now + Rounded(RetryAfter(k))) + Second
  BY <1>2, <1>8, <1>9, <1>10, <1>11
<1>13. Cardinality(Recent(k)) <= Limit(r.route)
  <2> DEFINE q == log[first]
             span == Admitted(q, q.at, q.at + Window)
  <2>1. first \in 1 .. Len(log) /\ q \in Requests /\ KeyOf(q) = k
    BY <1>1, <1>2, <1>7, LogType DEF RateInv, RateType, BucketInv
  <2>2. q.route = r.route
    BY <2>1, KeySeparates
  <2>3. Cardinality(span) <= Limit(r.route)
    BY <2>1, <2>2 DEF RateInv, WindowNeverExceeded
  <2>4. \A i \in Recent(k) : i \in span
    <3> SUFFICES ASSUME NEW i \in Recent(k) PROVE i \in span
      OBVIOUS
    <3>1. i \in 1 .. Len(log) /\ log[i] \in Requests /\ KeyOf(log[i]) = k
      BY <1>1, <1>2, LogType DEF RateInv, RateType, BucketInv
    <3>2. Together(log[i], q)
      BY <2>1, <3>1, KeySeparates
    <3>3. log[i].at \in m .. (m + Window)
      <4>1. log[i].at \in times
        BY DEF times
      <4> QED  BY <1>2, <1>6, <1>8, <4>1
    <3> QED  BY <1>7, <3>1, <3>2, <3>3 DEF Admitted
  <2>5. span \in SUBSET (1 .. Len(log)) /\ log \in Seq(Requests)
    BY DEF Admitted, RateInv, RateType
  <2>6. IsFiniteSet(span) /\ Cardinality(span) \in Nat
    BY <2>5, AdmittedFinite
  <2>7. Cardinality(Recent(k)) <= Cardinality(span) /\ Cardinality(Recent(k)) \in Nat
    <3> HIDE DEF span
    <3> QED  BY <2>4, <2>6, FS_Subset, FS_CardinalityType
  <2> QED  BY <1>3, <2>3, <2>6, <2>7
<1>14. Cardinality(later) < Cardinality(Recent(k)) /\ Cardinality(Recent(k)) \in Nat
       /\ Cardinality(later) \in Nat
  <2>1. later # Recent(k)
    BY <1>7, <1>8
  <2> QED  BY <1>1, <1>2, <2>1, PartSizes
<1> QED  BY <1>3, <1>8, <1>10, <1>11, <1>12, <1>13, <1>14 DEF m, times

\* An admission withdraws the promise of its key and touches no other bucket.
LEMMA AdmitKeepsPromises ==
  ASSUME PromisesHold, NEW u \in Users, NEW auth \in BOOLEAN, NEW path \in Paths,
         Admit(u, auth, path)
  PROVE  PromisesHold'
<1> DEFINE r == [user |-> u, auth |-> auth, route |-> RouteKey(path), at |-> now]
           k == KeyOf(r)
<1>1. /\ log' = Append(log, r)
      /\ bucket' = [bucket EXCEPT ![k] = Recent(k) \cup {Len(log) + 1}]
      /\ reply' = [code |-> 200, request |-> r]
      /\ promised' = [promised EXCEPT ![k] = 0]
  BY DEF Admit
<1>2. RateInv /\ RateType /\ RateInv'
  BY AdmitStep DEF PromisesHold, RateInv
<1>3. r \in Requests /\ k \in Keys
  BY <1>2, RequestType, KeySeparates
<1>4. TypeOK'
  BY <1>1, <1>2, <1>3 DEF PromisesHold, TypeOK, RateInv, RateType
<1>5. PromiseInv'
  <2> SUFFICES ASSUME NEW c \in Keys, promised'[c] # 0
               PROVE  \E m \in Nat :
                        /\ 2 * (m + Window) <= 2 * promised'[c] + Second
                        /\ Cardinality({i \in bucket'[c] : log'[i].at > m}) < Limit(c[1])
    BY DEF PromiseInv
  <2>1. c # k /\ promised'[c] = promised[c] /\ bucket'[c] = bucket[c]
    BY <1>1, <1>3 DEF PromisesHold, TypeOK
  <2>2. \A i \in bucket[c] : log'[i] = log[i]
    <3>1. bucket[c] \subseteq 1 .. Len(log) /\ log \in Seq(Requests)
      BY <1>2 DEF RateType
    <3> QED  BY <1>1, <1>3, <3>1
  <2>3. \A m : {i \in bucket'[c] : log'[i].at > m} = {i \in bucket[c] : log[i].at > m}
    BY <2>1, <2>2
  <2> QED  BY <2>1, <2>3 DEF PromisesHold, PromiseInv
<1>6. RetryAfterIsEnough'
  BY <1>1 DEF RetryAfterIsEnough
<1> QED  BY <1>2, <1>4, <1>5, <1>6 DEF PromisesHold

\* A refusal makes a promise that will hold, or meets one that does.
LEMMA RefuseKeepsPromises ==
  ASSUME PromisesHold, NEW u \in Users, NEW auth \in BOOLEAN, NEW path \in Paths,
         Refuse(u, auth, path)
  PROVE  PromisesHold'
<1> DEFINE r == [user |-> u, auth |-> auth, route |-> RouteKey(path), at |-> now]
           k == KeyOf(r)
           first == Oldest({log[i].at : i \in Recent(k)})
<1>1. /\ Full(k)
      /\ bucket' = [bucket EXCEPT ![k] = Recent(k)]
      /\ reply' = [code |-> 429, request |-> r]
      /\ promised' = [promised EXCEPT ![k] =
                         IF @ = 0 THEN now + Rounded(RetryAfter(k)) ELSE @]
      /\ log' = log /\ now' = now
  BY DEF Refuse
<1>2. RateInv /\ RateType /\ RateInv' /\ promised \in [Keys -> Nat]
  BY RefuseStep DEF PromisesHold, RateInv, TypeOK
<1>3. r \in Requests /\ k \in Keys /\ k[1] = r.route /\ r.at = now
  BY <1>2, RequestType, KeySeparates
<1>4. /\ first \in Nat /\ Rounded(RetryAfter(k)) \in Nat
      /\ 2 * (first + Window) <= 2 * (now + Rounded(RetryAfter(k))) + Second
      /\ Cardinality({i \in Recent(k) : log[i].at > first}) < Limit(k[1])
  BY <1>1, <1>2, <1>3, FirstRefusal
<1>5. /\ Recent(k) \subseteq bucket[k] /\ bucket[k] \subseteq 1 .. Len(log)
      /\ \A i \in bucket[k] : log[i].at \in Nat /\ log[i].at <= now
      /\ \A i \in Recent(k) : log[i].at >= now - Window
      /\ now \in Nat /\ Window \in Nat \ {0} /\ Second \in Nat \ {0}
  BY <1>2, <1>3, RecentType
<1>6. Limit(k[1]) \in Nat \ {0}
  BY <1>3, LimitType DEF Requests
<1> HIDE DEF k, r, first
<1>7. promised'[k] = IF promised[k] = 0 THEN now + Rounded(RetryAfter(k)) ELSE promised[k]
  BY <1>1, <1>2, <1>3
<1>8. promised'[k] \in Nat /\ promised[k] \in Nat
  BY <1>2, <1>3, <1>4, <1>5, <1>7
<1>9. TypeOK'
  <2>1. promised' \in [Keys -> Nat]
    BY <1>1, <1>2, <1>3, <1>7, <1>8
  <2> QED  BY <1>1, <1>2, <1>3, <2>1 DEF TypeOK, RateInv, RateType
<1>10. \E m \in Nat :
          /\ 2 * (m + Window) <= 2 * promised'[k] + Second
          /\ Cardinality({i \in Recent(k) : log[i].at > m}) < Limit(k[1])
  <2>1. CASE promised[k] = 0
    BY <1>4, <1>7, <2>1
  <2>2. CASE promised[k] # 0
    <3>1. PICK m \in Nat :
             /\ 2 * (m + Window) <= 2 * promised[k] + Second
             /\ Cardinality({i \in bucket[k] : log[i].at > m}) < Limit(k[1])
      BY <1>3, <2>2 DEF PromisesHold, PromiseInv
    <3> DEFINE kept == {i \in Recent(k) : log[i].at > m}
               all == {i \in bucket[k] : log[i].at > m}
    <3>2. all \in SUBSET bucket[k] /\ kept \in SUBSET all
      BY <1>5
    <3>3. Cardinality(kept) <= Cardinality(all) /\ Cardinality(kept) \in Nat
          /\ Cardinality(all) \in Nat
      <4> HIDE DEF all, kept
      <4> QED  BY <1>2, <1>3, <3>2, PartSizes
    <3>4. Cardinality(kept) < Limit(k[1])
      <4> HIDE DEF kept
      <4> QED  BY <1>6, <3>1, <3>3
    <3> QED  BY <1>7, <2>2, <3>1, <3>4
  <2> QED  BY <2>1, <2>2
<1>11. PromiseInv'
  <2> SUFFICES ASSUME NEW c \in Keys, promised'[c] # 0
               PROVE  \E m \in Nat :
                        /\ 2 * (m + Window) <= 2 * promised'[c] + Second
                        /\ Cardinality({i \in bucket'[c] : log[i].at > m}) < Limit(c[1])
    BY <1>1 DEF PromiseInv
  <2>1. CASE c = k
    <3>1. bucket'[k] = Recent(k)
      BY <1>1, <1>2, <1>3 DEF RateType
    <3> QED  BY <1>10, <2>1, <3>1
  <2>2. CASE c # k
    <3>1. promised'[c] = promised[c] /\ bucket'[c] = bucket[c]
      BY <1>1, <1>2, <2>2 DEF RateType
    <3> QED  BY <3>1 DEF PromisesHold, PromiseInv
  <2> QED  BY <2>1, <2>2
<1>12. RetryAfterIsEnough'
  <2>1. PICK m \in Nat :
           /\ 2 * (m + Window) <= 2 * promised'[k] + Second
           /\ Cardinality({i \in Recent(k) : log[i].at > m}) < Limit(k[1])
    BY <1>10
  <2>2. ~(\A i \in Recent(k) : log[i].at > m)
    <3>1. SUFFICES ASSUME \A i \in Recent(k) : log[i].at > m PROVE FALSE
      OBVIOUS
    <3> DEFINE later == {i \in Recent(k) : log[i].at > m}
    <3>2. later = Recent(k) /\ Cardinality(later) < Limit(k[1])
      BY <2>1, <3>1
    <3> HIDE DEF later
    <3>3. Cardinality(Recent(k)) >= Limit(k[1])
      BY <1>1 DEF Full
    <3>4. Cardinality(Recent(k)) \in Nat
      BY <1>2, <1>3, <1>5, PartSizes
    <3> QED  BY <1>6, <3>2, <3>3, <3>4
  <2>3. PICK i \in Recent(k) : ~(log[i].at > m)
    BY <2>2
  <2>4. now <= m + Window
    BY <1>5, <2>3
  <2>5. 2 * (now - promised'[k]) <= Second
    BY <1>5, <1>8, <2>1, <2>4
  <2>6. reply'.request = r /\ r.at = now /\ KeyOf(r) = k
    BY <1>1, <1>3 DEF k
  <2>7. KeyOf(reply'.request) = k
    BY <2>6
  <2> QED  BY <2>5, <2>6, <2>7 DEF RetryAfterIsEnough, KeyOf
<1> QED  BY <1>2, <1>9, <1>11, <1>12 DEF PromisesHold

\* Every promise made by a Retry-After header holds in every reachable state.
THEOREM PromisesAreKept == Spec => []PromisesHold
<1>1. Init => PromisesHold
  <2> SUFFICES ASSUME Init PROVE PromisesHold
    OBVIOUS
  <2>1. TypeOK
    BY DEF Init, TypeOK
  <2>2. PromiseInv /\ RetryAfterIsEnough
    BY DEF Init, PromiseInv, RetryAfterIsEnough, NoReply
  <2> QED  BY <2>1, <2>2, RateInit DEF PromisesHold
<1>2. PromisesHold /\ [Next]_vars => PromisesHold'
  <2> SUFFICES ASSUME PromisesHold, [Next]_vars PROVE PromisesHold'
    OBVIOUS
  <2>1. ASSUME NEW u \in Users, NEW auth \in BOOLEAN, NEW path \in Paths,
               Admit(u, auth, path) \/ Refuse(u, auth, path)
        PROVE  PromisesHold'
    BY <2>1, AdmitKeepsPromises, RefuseKeepsPromises
  <2>2. CASE Tick
    <3>1. RateInv'
      BY <2>2, TickStep DEF PromisesHold
    <3>2. now \in Nat /\ now' = now + 1 /\ bucket' = bucket /\ log' = log
          /\ reply' = reply /\ promised' = promised
      BY <2>2 DEF Tick, PromisesHold, TypeOK
    <3>3. TypeOK'
      BY <3>2 DEF PromisesHold, TypeOK
    <3>4. PromiseInv'
      BY <3>2 DEF PromisesHold, PromiseInv
    <3>5. RetryAfterIsEnough'
      BY <3>2 DEF PromisesHold, RetryAfterIsEnough, KeyOf, ClientId
    <3> QED  BY <3>1, <3>3, <3>4, <3>5 DEF PromisesHold
  <2>3. CASE Restart
    <3>1. RateInv'
      BY <2>3, RestartStep DEF PromisesHold
    <3>2. TypeOK' /\ PromiseInv' /\ RetryAfterIsEnough'
      BY <2>3 DEF Restart, PromisesHold, TypeOK, PromiseInv, RetryAfterIsEnough, NoReply
    <3> QED  BY <3>1, <3>2 DEF PromisesHold
  <2>4. CASE UNCHANGED vars
    <3>1. RateInv'
      BY <2>4, RateStutter DEF PromisesHold
    <3>2. now' = now /\ bucket' = bucket /\ log' = log
          /\ reply' = reply /\ promised' = promised
      BY <2>4 DEF vars
    <3>3. TypeOK'
      BY <3>2 DEF PromisesHold, TypeOK
    <3>4. PromiseInv'
      BY <3>2 DEF PromisesHold, PromiseInv
    <3>5. RetryAfterIsEnough'
      BY <3>2 DEF PromisesHold, RetryAfterIsEnough, KeyOf, ClientId
    <3> QED  BY <3>1, <3>3, <3>4, <3>5 DEF PromisesHold
  <2> QED  BY <2>1, <2>2, <2>3, <2>4 DEF Next
<1> QED  BY <1>1, <1>2, PTL DEF Spec

\* Every variable keeps its type.
THEOREM TypeCorrect == Spec => []TypeOK
<1>1. PromisesHold => TypeOK
  BY DEF PromisesHold
<1> QED  BY <1>1, PromisesAreKept, PTL

\* A client that waits as long as the first 429 said, and half a second more
\* for the rounding, is not refused again unless it was admitted meanwhile.
THEOREM RetryAfterSuffices == Spec => []RetryAfterIsEnough
<1>1. PromisesHold => RetryAfterIsEnough
  BY DEF PromisesHold
<1> QED  BY <1>1, PromisesAreKept, PTL
=============================================================================
