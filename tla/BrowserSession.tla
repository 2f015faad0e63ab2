--------------------------- MODULE BrowserSession ---------------------------
(***************************************************************************)
(* The session of one browser tab: the tokens in localStorage, the user    *)
(* the React state shows (hooks/useAuth.tsx), and the axios interceptor    *)
(* that refreshes tokens when a call answers 401 (api.ts).  JavaScript     *)
(* handlers run one at a time, so a handler up to its next await is one    *)
(* action.                                                                 *)
(*                                                                         *)
(* The tokens of a login or refresh are a pair with a number of its own;   *)
(* access and refresh tokens expire in the order they were issued, and     *)
(* never a refresh token before the access token of its pair.              *)
(***************************************************************************)
EXTENDS Naturals, FiniteSets

CONSTANTS
    Users,      \* accounts
    Calls,      \* places for open requests, logins included; reused when free
    NoUser,
    NoToken,
    MaxPairs    \* bound: how many token pairs the server issues

VARIABLES
    store,      \* localStorage: access_token and refresh_token
    user,       \* the user the application shows
    call,       \* the requests
    refreshing, \* isRefreshing
    issued,     \* pairs issued so far
    accessDead, \* access tokens up to this pair have expired
    refreshDead,\* refresh tokens up to this pair have expired
    raced       \* history: the user logged out while tokens were being refreshed

vars == <<store, user, call, refreshing, issued, accessDead, refreshDead, raced>>
serverVars == <<issued, accessDead, refreshDead>>

Tokens == [owner : Users, pair : 1 .. MaxPairs]
Stored == Tokens \cup {NoToken}

ASSUME SessionAssumption ==
    /\ MaxPairs \in Nat
    /\ NoUser \notin Users /\ NoToken \notin Tokens

\* Progress of a call: pending waits for another call's refresh, refreshing is
\* the call that awaits /auth/refresh; a call whose promise is settled, or whose
\* page was left, is free.
CallPC == {"free", "sent", "pending", "refreshing"}

\* as: the account a login asks for, NoUser for any other call; token: the
\* token the call carries, or hands to /auth/refresh.
CallStates == [pc : CallPC, as : Users \cup {NoUser}, token : Stored, retry : BOOLEAN]

TypeOK ==
    /\ store \in [access : Stored, refresh : Stored]
    /\ user \in Users \cup {NoUser}
    /\ call \in [Calls -> CallStates]
    /\ refreshing \in BOOLEAN
    /\ issued \in 0 .. MaxPairs
    /\ accessDead \in 0 .. issued
    /\ refreshDead \in 0 .. accessDead
    /\ raced \in BOOLEAN

NoCall == [pc |-> "free", as |-> NoUser, token |-> NoToken, retry |-> FALSE]
NoPair  == [access |-> NoToken, refresh |-> NoToken]

Init ==
    /\ store = NoPair
    /\ user = NoUser
    /\ call = [q \in Calls |-> NoCall]
    /\ refreshing = FALSE
    /\ issued = 0 /\ accessDead = 0 /\ refreshDead = 0
    /\ raced = FALSE

Owner(token) == IF token = NoToken THEN NoUser ELSE token.owner

Accepted(token)     == token # NoToken /\ token.pair > accessDead
Refreshable(token)  == token # NoToken /\ token.pair > refreshDead

\* Variant: the payload has no sub claim.
NoSubject(u) == [owner |-> NoUser, pair |-> issued + 1]

\* The answer of /auth/login, /auth/register and /auth/refresh.
NewToken(u) == [owner |-> u, pair |-> issued + 1]
Issue       == issued < MaxPairs /\ issued' = issued + 1

\* Variant: only the access token is stored.
AccessOnly(t) == [store EXCEPT !.access = t]

\* Both tokens of an answer go to localStorage.
StorePair(t) == [access |-> t, refresh |-> t]

-----------------------------------------------------------------------------
\* window.location.href, or the user reloads: open calls and the interceptor's
\* state are gone, and the user shown is read from the stored token.
PageLoad(kept) ==
    /\ store' = kept
    /\ user' = Owner(kept.access)
    /\ call' = [q \in Calls |-> NoCall]
    /\ refreshing' = FALSE
    /\ raced' = FALSE

\* A page behind RequireAuth calls the API.
Send(q) ==
    /\ user # NoUser
    /\ call[q].pc = "free"
    /\ call' = [call EXCEPT ![q] = [pc |-> "sent", as |-> NoUser,
                                    token |-> store.access, retry |-> FALSE]]
    /\ UNCHANGED <<store, user, refreshing, serverVars, raced>>

\* The login or register form is submitted.
SendLogin(q, u) ==
    /\ user = NoUser
    /\ call[q].pc = "free"
    /\ call' = [call EXCEPT ![q] = [pc |-> "sent", as |-> u,
                                    token |-> store.access, retry |-> FALSE]]
    /\ UNCHANGED <<store, user, refreshing, serverVars, raced>>

\* The server accepts the token and finds its account.
Served(q) ==
    /\ call[q].pc = "sent" /\ call[q].as = NoUser
    /\ Accepted(call[q].token)
    /\ call' = [call EXCEPT ![q] = NoCall]
    /\ UNCHANGED <<store, user, refreshing, serverVars, raced>>

\* The credentials are right: the tokens are stored and the user shown.
LoggedIn(q) ==
    /\ call[q].pc = "sent" /\ call[q].as # NoUser
    /\ Issue
    /\ store' = StorePair(NewToken(call[q].as))
    /\ user' = call[q].as
    /\ call' = [call EXCEPT ![q] = NoCall]
    /\ raced' = (raced \/ refreshing)
    /\ UNCHANGED <<refreshing, accessDead, refreshDead>>

\* An error that is not a 401, or axios' timeout.
CallFails(q) ==
    /\ call[q].pc = "sent"
    /\ call' = [call EXCEPT ![q] = NoCall]
    /\ UNCHANGED <<store, user, refreshing, serverVars, raced>>

\* The answer is a 401: a login's credentials are wrong, the token is missing
\* or has expired, or its account is missing or inactive.  No route makes an
\* account inactive or removes it, which is done from outside at any time, so
\* that any call may be answered so; /auth/refresh does not ask.
Unauthorized(q) == call[q].pc = "sent"

\* A call that was sent again is given up.
GiveUp(q) ==
    /\ Unauthorized(q) /\ call[q].retry
    /\ call' = [call EXCEPT ![q] = NoCall]
    /\ UNCHANGED <<store, user, refreshing, serverVars, raced>>

\* There is no refresh token: to the login page.
ToLogin(q) ==
    /\ Unauthorized(q) /\ ~call[q].retry
    /\ store.refresh = NoToken
    /\ PageLoad([store EXCEPT !.access = NoToken])
    /\ UNCHANGED serverVars

\* Tokens are being refreshed: the call waits.
Wait(q) ==
    /\ Unauthorized(q) /\ ~call[q].retry
    /\ store.refresh # NoToken /\ refreshing
    /\ call' = [call EXCEPT ![q].pc = "pending"]
    /\ UNCHANGED <<store, user, refreshing, serverVars, raced>>

\* The call refreshes the tokens and awaits the answer.
StartRefresh(q) ==
    /\ Unauthorized(q) /\ ~call[q].retry
    /\ store.refresh # NoToken /\ ~refreshing
    /\ call' = [call EXCEPT ![q] = [@ EXCEPT !.pc = "refreshing", !.retry = TRUE,
                                             !.token = store.refresh]]
    /\ refreshing' = TRUE
    /\ UNCHANGED <<store, user, serverVars, raced>>

\* Variant: nobody wakes the waiting calls.
NobodyElse(q) == {q}

\* flushPending wakes all of them, and the refreshing call goes on too.
Woken(q) == {p \in Calls : call[p].pc = "pending"} \cup {q}

\* The new pair is stored and the calls are sent again.
Refreshed(q) ==
    /\ call[q].pc = "refreshing" /\ Refreshable(call[q].token)
    /\ Issue
    /\ LET t == NewToken(call[q].token.owner)
       IN  /\ store' = StorePair(t)
           /\ call' = [p \in Calls |->
                          IF p \in Woken(q)
                          THEN [call[p] EXCEPT !.pc = "sent", !.token = t]
                          ELSE call[p]]
    /\ refreshing' = FALSE
    /\ UNCHANGED <<user, accessDead, refreshDead, raced>>

\* /auth/refresh refuses the token or does not answer: the session is over.
\* Already on the login page there is no page load.
RefreshFails(q) ==
    /\ call[q].pc = "refreshing"
    /\ \/ PageLoad(NoPair)
       \/ /\ user = NoUser
          /\ store' = NoPair
          /\ call' = [p \in Calls |-> IF p \in Woken(q)
                                      THEN NoCall ELSE call[p]]
          /\ refreshing' = FALSE
          /\ UNCHANGED <<user, raced>>
    /\ UNCHANGED serverVars

\* logout: the tokens are removed, open calls go on.
Logout ==
    /\ user # NoUser
    /\ store' = NoPair
    /\ user' = NoUser
    /\ raced' = (raced \/ refreshing)
    /\ UNCHANGED <<call, refreshing, serverVars>>

Reload == PageLoad(store) /\ UNCHANGED serverVars

Expire ==
    /\ \/ accessDead < issued /\ accessDead' = accessDead + 1 /\ UNCHANGED refreshDead
       \/ refreshDead < accessDead /\ refreshDead' = refreshDead + 1 /\ UNCHANGED accessDead
    /\ UNCHANGED <<store, user, call, refreshing, issued, raced>>

\* What happens to an open call sooner or later.
Answer(q) == \/ Served(q) \/ LoggedIn(q) \/ GiveUp(q) \/ ToLogin(q) \/ Wait(q)
             \/ StartRefresh(q) \/ Refreshed(q) \/ RefreshFails(q) \/ CallFails(q)

Next == \/ \E q \in Calls : Send(q) \/ (\E u \in Users : SendLogin(q, u)) \/ Answer(q)
        \/ Logout \/ Reload \/ Expire

Spec == Init /\ [][Next]_vars

\* Every request of the tab is answered or fails: axios' timeout for a call, the
\* network's for /auth/refresh, which is sent without one.
Fairness == \A q \in Calls : WF_vars(Answer(q))

FairSpec == Spec /\ Fairness

-----------------------------------------------------------------------------
(* Properties *)

\* localStorage holds a whole pair or nothing, and it is of the user the
\* application shows, whatever calls were open at logins, logouts, expiries and
\* page loads, unless a logout met a refresh (login, logout, the interceptor).
StoredIsShown ==
    /\ store.access = store.refresh
    /\ ~raced => user = Owner(store.access)

\* isRefreshing says that exactly one call awaits /auth/refresh; no call waits
\* for a refresh that nobody performs (isRefreshing, pendingRequests).
OneRefresher ==
    /\ Cardinality({q \in Calls : call[q].pc = "refreshing"}) = (IF refreshing THEN 1 ELSE 0)
    /\ (\E q \in Calls : call[q].pc = "pending") => refreshing

\* The promise of every call settles, or its page is left: no call waits for
\* ever or is sent again for ever (_retry, pendingRequests), tokens being issued
\* finitely often.
CallsSettle ==
    \A q \in Calls : call[q].pc = "sent" ~> call[q].pc = "free"
=============================================================================
