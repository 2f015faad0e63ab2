----------------------------- MODULE RateLimiter -----------------------------
(***************************************************************************)
(* The rate limiter of one API process (core/rate_limit.py): a sliding     *)
(* window per route category and client.  Every process has a limiter of   *)
(* its own, and the middleware handles a request without awaiting between  *)
(* the check and its answer, so one action is one request.                 *)
(*                                                                         *)
(* Time is counted in ticks.  A time stamp in a bucket is named by the     *)
(* position of its request in log, the history of admitted requests.       *)
(***************************************************************************)
EXTENDS Integers, Sequences, FiniteSets

CONSTANTS
    Users,      \* people sending requests
    Addresses,  \* client addresses
    IpOf,       \* IpOf[u]: the address u's requests show
    Paths,      \* the request paths in use, of those RouteKey knows
    LimitOf,    \* settings.rate_limit_<route>_per_min
    Second,     \* ticks per second
    Window,     \* WINDOW_SECONDS, in ticks
    MaxTime,    \* bound: when time stops
    MaxLog      \* bound: how many requests a behaviour admits

RegisterPaths == {"/auth/register"}
LoginPaths    == {"/auth/login"}
UploadPaths   == {"/documents/upload"}
QueryPaths    == {"/search/query", "/chat", "/documents", "/jobs"}

\* _route_key: the category of a path.
RouteKey(path) == IF path \in RegisterPaths THEN "register"
                  ELSE IF path \in LoginPaths THEN "login"
                  ELSE IF path \in UploadPaths THEN "upload"
                  ELSE IF path \in QueryPaths THEN "query"
                  ELSE "default"

SettingsRoutes == {"register", "login", "upload", "query"}
Routes         == SettingsRoutes \cup {"default"}

ASSUME RateAssumption ==
    /\ IpOf \in [Users -> Addresses]
    /\ LimitOf \in [SettingsRoutes -> Nat \ {0}]
    /\ Second \in Nat \ {0}
    /\ Window \in Nat \ {0}
    /\ MaxTime \in Nat
    /\ MaxLog \in Nat

\* There is no rate_limit_default_per_min: other paths get the query limit,
\* in a bucket of their own.
Limit(route) == IF route \in SettingsRoutes THEN LimitOf[route] ELSE LimitOf["query"]

VARIABLES
    now,        \* time.monotonic()
    bucket,     \* _buckets: per key, the requests whose time stamps are kept
    log,        \* history: the admitted requests
    reply,      \* the last answer of the middleware
    promised    \* history: per key, when the Retry-After of the first 429
                \* since the last admission has passed; 0: no such 429

vars == <<now, bucket, log, reply, promised>>

Keys == Routes \X (({"u"} \X Users) \cup ({"ip"} \X Addresses))

Requests == [user : Users, auth : BOOLEAN, route : Routes, at : Nat]

\* Variant: the bearer token is not looked at.
ClientByAddress(u, auth) == <<"ip", IpOf[u]>>

\* _client_id: the user of a valid bearer token, else the address.
ClientId(u, auth) == IF auth THEN <<"u", u>> ELSE <<"ip", IpOf[u]>>

KeyOf(r) == <<r.route, ClientId(r.user, r.auth)>>

NoReply == [code |-> 0]

TypeOK ==
    /\ now \in Nat
    /\ bucket \in [Keys -> SUBSET (1 .. Len(log))]
    /\ log \in Seq(Requests)
    /\ reply \in {NoReply} \cup [code : {200, 429}, request : Requests]
    /\ promised \in [Keys -> Nat]

Init ==
    /\ now = 0
    /\ bucket = [k \in Keys |-> {}]
    /\ log = <<>>
    /\ reply = NoReply
    /\ promised = [k \in Keys |-> 0]

-----------------------------------------------------------------------------
\* Variant: nothing expires.
AllStamps(k) == bucket[k]

\* prune: stamps strictly older than the window go.
Recent(k) == {i \in bucket[k] : log[i].at >= now - Window}

\* Variant: one request too many.
OverFull(k) == Cardinality(Recent(k)) > Limit(k[1])

Full(k) == Cardinality(Recent(k)) >= Limit(k[1])

Oldest(S) == CHOOSE t \in S : \A v \in S : t <= v

\* Variant: the difference is taken the other way round.
Overdue(k) ==
    IF Recent(k) = {} THEN Window
    ELSE (now - Oldest({log[i].at : i \in Recent(k)})) - Window

\* retry_after, on the pruned bucket.
RetryAfter(k) ==
    IF Recent(k) = {} THEN Window
    ELSE Window - (now - Oldest({log[i].at : i \in Recent(k)}))

\* round() to whole seconds for the header, halves to the even side; in ticks.
Rounded(t) ==
    LET down == t \div Second
        rest == 2 * (t % Second)
    IN  Second * (IF rest < Second \/ (rest = Second /\ down % 2 = 0)
                  THEN down ELSE down + 1)

\* The request is admitted and its time recorded.
Admit(u, auth, path) ==
    LET r == [user |-> u, auth |-> auth, route |-> RouteKey(path), at |-> now]
        k == KeyOf(r)
    IN  /\ ~Full(k)
        /\ Len(log) < MaxLog
        /\ log' = Append(log, r)
        /\ bucket' = [bucket EXCEPT ![k] = Recent(k) \cup {Len(log) + 1}]
        /\ reply' = [code |-> 200, request |-> r]
        /\ promised' = [promised EXCEPT ![k] = 0]
        /\ UNCHANGED now

\* 429 with a Retry-After header.
Refuse(u, auth, path) ==
    LET r == [user |-> u, auth |-> auth, route |-> RouteKey(path), at |-> now]
        k == KeyOf(r)
    IN  /\ Full(k)
        /\ bucket' = [bucket EXCEPT ![k] = Recent(k)]
        /\ reply' = [code |-> 429, request |-> r]
        /\ promised' = [promised EXCEPT ![k] =
                            IF @ = 0 THEN now + Rounded(RetryAfter(k)) ELSE @]
        /\ UNCHANGED <<now, log>>

Tick == /\ now < MaxTime
        /\ now' = now + 1
        /\ UNCHANGED <<bucket, log, reply, promised>>

\* The process is restarted: the buckets are gone.
Restart == /\ bucket' = [k \in Keys |-> {}]
           /\ log' = <<>>
           /\ reply' = NoReply
           /\ promised' = [k \in Keys |-> 0]
           /\ UNCHANGED now

Next == \/ \E u \in Users, auth \in BOOLEAN, path \in Paths :
               Admit(u, auth, path) \/ Refuse(u, auth, path)
        \/ Tick
        \/ Restart

Spec == Init /\ [][Next]_vars

-----------------------------------------------------------------------------
(* Properties *)

\* Two requests the limiter is to count together: same category, same user if
\* both are authenticated, same address if neither is.
Together(q, r) ==
    /\ q.route = r.route
    /\ q.auth = r.auth
    /\ IF r.auth THEN q.user = r.user ELSE IpOf[q.user] = IpOf[r.user]

\* Admitted requests counted with r whose times lie in lo .. hi.
Admitted(r, lo, hi) ==
    {i \in 1 .. Len(log) : Together(log[i], r) /\ log[i].at \in lo .. hi}

\* "Sliding window": no span of a window's length, wherever it starts, holds
\* more admitted requests of one client and category than the limit (check).
WindowNeverExceeded ==
    \A i \in 1 .. Len(log) :
        LET r == log[i]
        IN  Cardinality(Admitted(r, r.at, r.at + Window)) <= Limit(r.route)

\* A 429 means that the client itself, in this category, had its limit admitted
\* within the last window: nobody is refused for what somebody else did, for
\* other routes, or for what has expired (check, _client_id, _route_key).
RefusedOnlyWhenFull ==
    reply.code = 429 =>
        LET r == reply.request
        IN  Cardinality(Admitted(r, r.at - Window, r.at)) >= Limit(r.route)

\* Waiting as long as the first 429 said, and half a second more for the
\* header's rounding, is enough unless a request of the same client was
\* admitted in between (retry_after, the Retry-After header).
RetryAfterIsEnough ==
    reply.code = 429 =>
        2 * (reply.request.at - promised[KeyOf(reply.request)]) <= Second
=============================================================================
