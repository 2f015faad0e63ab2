--------------------------- MODULE FrontendProofs ---------------------------
(***************************************************************************)
(* Proofs about what runs in the browser, for any users, calls, questions  *)
(* and tokens.                                                             *)
(*                                                                         *)
(* The session: what localStorage holds is of the user the application     *)
(* shows unless a logout or login met a refresh, and isRefreshing stands   *)
(* for exactly one call.  A refresh stores the tokens of the user whose    *)
(* token it was started with, long after it read that token.  So the       *)
(* invariant follows the call that awaits /auth/refresh: it is the only    *)
(* one, and as long as nothing raced with it its token is of the user      *)
(* shown.                                                                  *)
(*                                                                         *)
(* The page: answers stay under their questions, and one stream is read at *)
(* a time.  Updates change whatever answer comes last when they are        *)
(* applied.  So the invariant says which turn the page is busy with, that  *)
(* all that waits to be applied is of that turn, and that the list shown   *)
(* ends where that turn's updates belong: at its question, at its answer,  *)
(* or empty since the chat was cleared.                                    *)
(***************************************************************************)
EXTENDS BrowserSession, ChatPage, FiniteSetTheorems, SequenceTheorems, WellFoundedInduction, TLAPS

(* The session. *)

\* isRefreshing is set by the one call that awaits the answer, and only then
\* do others wait.
RefreshInv ==
    /\ \A q \in Calls : call[q].pc \in {"refreshing", "pending"} => refreshing
    /\ refreshing => \E q \in Calls : call[q].pc = "refreshing"
    /\ \A p, q \in Calls : call[p].pc = "refreshing" /\ call[q].pc = "refreshing" => p = q

\* The token that is being refreshed is of the user shown.
OwnerInv ==
    \A q \in Calls : call[q].pc = "refreshing" =>
        /\ call[q].token # NoToken
        /\ ~raced => Owner(call[q].token) = user

IInv == TypeOK /\ RefreshInv /\ StoredIsShown /\ OwnerInv

\* A token says who it is for.
LEMMA OwnerOfToken ==
    /\ \A t \in Tokens : t # NoToken /\ Owner(t) = t.owner /\ t.owner \in Users
    /\ Owner(NoToken) = NoUser
    /\ \A t \in Stored : Owner(t) \in Users \cup {NoUser}
BY SessionAssumption DEF Tokens, Stored, Owner

\* The server's answer is a token for that user.
LEMMA NewTokenIsToken ==
    ASSUME TypeOK, issued < MaxPairs, NEW u \in Users
    PROVE  /\ NewToken(u) \in Tokens /\ NewToken(u) # NoToken /\ Owner(NewToken(u)) = u
           /\ NewToken(u) \in Stored
<1>1. issued + 1 \in 1 .. MaxPairs
    BY SessionAssumption DEF TypeOK
<1>2. NewToken(u) = [owner |-> u, pair |-> issued + 1]
    BY DEF NewToken
<1>3. NewToken(u) \in Tokens /\ NewToken(u).owner = u
    BY <1>1, <1>2 DEF Tokens
<1> HIDE DEF NewToken
<1> QED
    BY <1>3, OwnerOfToken DEF Stored

LEMMA SessionInit == Init => IInv
<1> SUFFICES ASSUME Init PROVE IInv
    OBVIOUS
<1>1. TypeOK
    <2>1. NoCall \in CallStates
        BY DEF NoCall, CallStates, CallPC, Stored
    <2>2. NoPair \in [access : Stored, refresh : Stored]
        BY DEF NoPair, Stored
    <2>3. call \in [Calls -> CallStates]
        BY <2>1 DEF Init
    <2>4. 0 \in 0 .. MaxPairs /\ 0 \in 0 .. 0
        BY SessionAssumption
    <2> QED
        BY <2>2, <2>3, <2>4 DEF Init, TypeOK
<1>2. RefreshInv /\ OwnerInv
    BY DEF Init, RefreshInv, OwnerInv, NoCall
<1>3. StoredIsShown
    BY OwnerOfToken DEF Init, StoredIsShown, NoPair
<1> QED
    BY <1>1, <1>2, <1>3 DEF IInv

\* The parts of a typed state.
LEMMA SessionTypes ==
    ASSUME TypeOK
    PROVE  /\ store.access \in Stored /\ store.refresh \in Stored
           /\ store = [access |-> store.access, refresh |-> store.refresh]
           /\ \A q \in Calls : /\ call[q] \in CallStates /\ call[q].token \in Stored
                               /\ call[q].as \in Users \cup {NoUser}
           /\ NoCall \in CallStates
<1>1. store \in [access : Stored, refresh : Stored]
    BY DEF TypeOK
<1>2. \A q \in Calls : call[q] \in CallStates
    BY DEF TypeOK
<1>3. NoCall \in CallStates
    BY DEF NoCall, CallStates, CallPC, Stored
<1> QED
    BY <1>1, <1>2, <1>3 DEF CallStates

\* After a page load no call is open, and the user is read from the store.
LEMMA LoadKeeps ==
    ASSUME IInv, NEW kept \in [access : Stored, refresh : Stored], kept.access = kept.refresh,
           PageLoad(kept), UNCHANGED serverVars
    PROVE  IInv'
<1>1. /\ store' = kept /\ user' = Owner(kept.access) /\ call' = [q \in Calls |-> NoCall]
      /\ refreshing' = FALSE /\ raced' = FALSE
      /\ UNCHANGED <<issued, accessDead, refreshDead>>
    BY DEF PageLoad, serverVars
<1>2. Owner(kept.access) \in Users \cup {NoUser} /\ NoCall \in CallStates
    BY OwnerOfToken, SessionTypes DEF IInv
<1>3. TypeOK'
    BY <1>1, <1>2 DEF IInv, TypeOK
<1>4. \A q \in Calls : call'[q].pc = "free"
    BY <1>1 DEF NoCall
<1>5. RefreshInv' /\ OwnerInv'
    BY <1>1, <1>4 DEF RefreshInv, OwnerInv
<1>6. StoredIsShown'
    BY <1>1 DEF StoredIsShown
<1> QED
    BY <1>3, <1>5, <1>6 DEF IInv

\* A call that neither waits nor refreshes, before and after, touches nothing.
LEMMA CallMoves ==
    ASSUME IInv, NEW q \in Calls, NEW c \in CallStates,
           call[q].pc \in {"free", "sent"}, c.pc \in {"free", "sent"},
           call' = [call EXCEPT ![q] = c],
           UNCHANGED <<store, user, refreshing, serverVars, raced>>
    PROVE  IInv'
<1>1. call \in [Calls -> CallStates] /\ call' \in [Calls -> CallStates]
    BY DEF IInv, TypeOK
<1>2. TypeOK'
    BY <1>1 DEF IInv, TypeOK, serverVars
<1>3. \A p \in Calls : call'[p].pc \in {"refreshing", "pending"} \/ call[p].pc \in {"refreshing", "pending"}
                         => call'[p] = call[p]
    BY <1>1
<1>4. RefreshInv' /\ OwnerInv'
    BY <1>3 DEF IInv, RefreshInv, OwnerInv
<1> QED
    BY <1>2, <1>4 DEF IInv, StoredIsShown

LEMMA PlainSteps ==
    ASSUME IInv, NEW q \in Calls,
           Send(q) \/ (\E u \in Users : SendLogin(q, u)) \/ Served(q) \/ CallFails(q) \/ GiveUp(q)
    PROVE  IInv'
<1>1. /\ store.access \in Stored /\ call[q] \in CallStates /\ NoCall \in CallStates
      /\ NoCall.pc = "free"
    BY SessionTypes DEF IInv, NoCall
<1>2. ASSUME NEW u \in Users \cup {NoUser}
      PROVE  [pc |-> "sent", as |-> u, token |-> store.access, retry |-> FALSE] \in CallStates
    BY <1>1 DEF CallStates, CallPC
<1>3. CASE Send(q)
    <2> DEFINE c == [pc |-> "sent", as |-> NoUser, token |-> store.access, retry |-> FALSE]
    <2>1. c \in CallStates /\ c.pc = "sent" /\ call[q].pc = "free" /\ call' = [call EXCEPT ![q] = c]
        BY <1>2, <1>3 DEF Send
    <2>2. UNCHANGED <<store, user, refreshing, serverVars, raced>>
        BY <1>3 DEF Send
    <2> HIDE DEF c
    <2> QED
        BY <2>1, <2>2, CallMoves
<1>4. ASSUME NEW u \in Users, SendLogin(q, u) PROVE IInv'
    <2> DEFINE c == [pc |-> "sent", as |-> u, token |-> store.access, retry |-> FALSE]
    <2>1. c \in CallStates /\ c.pc = "sent" /\ call[q].pc = "free" /\ call' = [call EXCEPT ![q] = c]
        BY <1>2, <1>4 DEF SendLogin
    <2>2. UNCHANGED <<store, user, refreshing, serverVars, raced>>
        BY <1>4 DEF SendLogin
    <2> HIDE DEF c
    <2> QED
        BY <2>1, <2>2, CallMoves
<1>5. CASE Served(q) \/ CallFails(q) \/ GiveUp(q)
    <2>1. /\ call[q].pc = "sent" /\ call' = [call EXCEPT ![q] = NoCall]
          /\ UNCHANGED <<store, user, refreshing, serverVars, raced>>
        BY <1>5 DEF Served, CallFails, GiveUp, Unauthorized
    <2> QED
        BY <1>1, <2>1, CallMoves
<1> QED
    BY <1>3, <1>4, <1>5

\* A login stores its tokens and shows their user at once; one that meets a
\* refresh is a race.
LEMMA LoggedInKeeps ==
    ASSUME IInv, NEW q \in Calls, LoggedIn(q)
    PROVE  IInv'
<1> DEFINE u == call[q].as
           t == NewToken(u)
<1>1. /\ call[q].pc = "sent" /\ u # NoUser /\ issued < MaxPairs /\ issued' = issued + 1
      /\ store' = [access |-> t, refresh |-> t] /\ user' = u
      /\ call' = [call EXCEPT ![q] = NoCall]
      /\ raced' = (raced \/ refreshing)
      /\ UNCHANGED <<refreshing, accessDead, refreshDead>>
    BY DEF LoggedIn, Issue, StorePair
<1>2. u \in Users
    BY <1>1, SessionTypes DEF IInv
<1>3. t \in Stored /\ Owner(t) = u
    BY <1>1, <1>2, NewTokenIsToken DEF IInv
<1> HIDE DEF t, u
<1>4. call \in [Calls -> CallStates] /\ call' \in [Calls -> CallStates] /\ NoCall.pc = "free"
    BY <1>1, SessionTypes DEF IInv, TypeOK, NoCall
<1>5. TypeOK'
    <2>1. /\ issued \in Nat /\ issued' \in 0 .. MaxPairs /\ accessDead \in 0 .. issued
          /\ accessDead \in 0 .. issued'
        BY <1>1, SessionAssumption DEF IInv, TypeOK
    <2>2. store' \in [access : Stored, refresh : Stored] /\ user' \in Users \cup {NoUser}
        BY <1>1, <1>2, <1>3
    <2>3. refreshing \in BOOLEAN /\ raced' \in BOOLEAN /\ refreshDead \in 0 .. accessDead
        BY <1>1 DEF IInv, TypeOK
    <2> QED
        BY <1>1, <1>4, <2>1, <2>2, <2>3 DEF TypeOK
<1>6. \A p \in Calls : call'[p].pc \in {"refreshing", "pending"} \/ call[p].pc \in {"refreshing", "pending"}
                         => call'[p] = call[p]
    BY <1>1, <1>4
<1>7. RefreshInv'
    BY <1>1, <1>6 DEF IInv, RefreshInv
<1>8. OwnerInv'
    BY <1>1, <1>6 DEF IInv, OwnerInv, RefreshInv
<1>9. StoredIsShown'
    BY <1>1, <1>3 DEF StoredIsShown
<1> QED
    BY <1>5, <1>7, <1>8, <1>9 DEF IInv

\* Without a refresh token there is no access token either.
LEMMA ToLoginKeeps ==
    ASSUME IInv, NEW q \in Calls, ToLogin(q)
    PROVE  IInv'
<1> DEFINE kept == [store EXCEPT !.access = NoToken]
<1>1. store.refresh = NoToken /\ PageLoad(kept) /\ UNCHANGED serverVars
    BY DEF ToLogin
<1>2. kept \in [access : Stored, refresh : Stored] /\ kept.access = kept.refresh
    BY <1>1 DEF IInv, TypeOK, Stored
<1> HIDE DEF kept
<1> QED
    BY <1>1, <1>2, LoadKeeps

LEMMA ReloadKeeps ==
    ASSUME IInv, Reload
    PROVE  IInv'
<1>1. store \in [access : Stored, refresh : Stored] /\ store.access = store.refresh
    BY DEF IInv, TypeOK, StoredIsShown
<1> QED
    BY <1>1, LoadKeeps DEF Reload

\* One more call waits for the refresh.
LEMMA WaitKeeps ==
    ASSUME IInv, NEW q \in Calls, Wait(q)
    PROVE  IInv'
<1>1. /\ call[q].pc = "sent" /\ refreshing /\ call' = [call EXCEPT ![q].pc = "pending"]
      /\ UNCHANGED <<store, user, refreshing, issued, accessDead, refreshDead, raced>>
    BY DEF Wait, Unauthorized, serverVars
<1>2. call \in [Calls -> CallStates]
    BY DEF IInv, TypeOK
<1>3. call' \in [Calls -> CallStates]
    <2>1. [call[q] EXCEPT !.pc = "pending"] \in CallStates
        BY <1>2 DEF CallStates, CallPC
    <2> QED
        BY <1>1, <1>2, <2>1
<1>4. TypeOK'
    BY <1>1, <1>3 DEF IInv, TypeOK
<1>5. /\ call'[q].pc = "pending"
      /\ \A p \in Calls : p # q => call'[p] = call[p]
    <2>1. call[q] \in CallStates
        BY <1>2
    <2> QED
        BY <1>1, <1>2, <2>1 DEF CallStates
<1>6. \A p \in Calls : call'[p].pc = "refreshing" \/ call[p].pc = "refreshing" => call'[p] = call[p]
    BY <1>1, <1>5
<1>7. RefreshInv'
    BY <1>1, <1>6 DEF IInv, RefreshInv
<1>8. OwnerInv' /\ StoredIsShown'
    BY <1>1, <1>6 DEF IInv, OwnerInv, StoredIsShown
<1> QED
    BY <1>4, <1>7, <1>8 DEF IInv

\* The call that begins a refresh is the only one, and its token the stored one.
LEMMA StartRefreshKeeps ==
    ASSUME IInv, NEW q \in Calls, StartRefresh(q)
    PROVE  IInv'
<1>1. /\ call[q].pc = "sent" /\ ~refreshing /\ refreshing' = TRUE /\ store.refresh # NoToken
      /\ call' = [call EXCEPT ![q] = [@ EXCEPT !.pc = "refreshing", !.retry = TRUE, !.token = store.refresh]]
      /\ UNCHANGED <<store, user, issued, accessDead, refreshDead, raced>>
    BY DEF StartRefresh, Unauthorized, serverVars
<1>2. call \in [Calls -> CallStates] /\ store.refresh \in Stored /\ call[q] \in CallStates
    BY SessionTypes DEF IInv, TypeOK
<1> DEFINE c == [call[q] EXCEPT !.pc = "refreshing", !.retry = TRUE, !.token = store.refresh]
<1>3. c \in CallStates /\ c.pc = "refreshing" /\ c.token = store.refresh
    BY <1>2 DEF CallStates, CallPC
<1>4. call' = [call EXCEPT ![q] = c]
    BY <1>1
<1> HIDE DEF c
<1>5. /\ call' \in [Calls -> CallStates] /\ call'[q] = c
      /\ \A p \in Calls : p # q => call'[p] = call[p]
    BY <1>2, <1>3, <1>4
<1>6. TypeOK'
    BY <1>1, <1>5 DEF IInv, TypeOK
<1>7. \A p \in Calls : call[p].pc \notin {"refreshing", "pending"}
    BY <1>1 DEF IInv, RefreshInv
<1>8. RefreshInv'
    <2>1. \A p \in Calls : call'[p].pc = "refreshing" => p = q
        BY <1>5, <1>7
    <2> QED
        BY <1>1, <1>3, <1>5, <2>1 DEF RefreshInv
<1>9. OwnerInv'
    BY <1>1, <1>3, <1>5, <1>7 DEF IInv, OwnerInv, StoredIsShown
<1>10. StoredIsShown'
    BY <1>1 DEF IInv, StoredIsShown
<1> QED
    BY <1>6, <1>8, <1>9, <1>10 DEF IInv

\* Those that are woken do not wait any more, and nobody refreshes.
LEMMA WokenAll ==
    ASSUME IInv, NEW q \in Calls, call[q].pc = "refreshing", NEW p \in Calls
    PROVE  p \notin Woken(q) => call[p].pc \notin {"refreshing", "pending"}
BY DEF IInv, RefreshInv, Woken

\* The new pair is of the user whose token was handed in, who is the one shown
\* if nothing came between.
LEMMA RefreshedKeeps ==
    ASSUME IInv, NEW q \in Calls, Refreshed(q)
    PROVE  IInv'
<1> DEFINE u == call[q].token.owner
           t == NewToken(u)
<1>1. /\ call[q].pc = "refreshing" /\ issued < MaxPairs /\ issued' = issued + 1
      /\ store' = [access |-> t, refresh |-> t]
      /\ call' = [p \in Calls |-> IF p \in Woken(q)
                                  THEN [call[p] EXCEPT !.pc = "sent", !.token = t] ELSE call[p]]
      /\ refreshing' = FALSE
      /\ UNCHANGED <<user, accessDead, refreshDead, raced>>
    BY DEF Refreshed, Issue, StorePair
<1>2. call[q].token \in Tokens /\ (~raced => Owner(call[q].token) = user)
    <2>1. call[q].token \in Stored /\ call[q].token # NoToken
        BY <1>1, SessionTypes DEF IInv, OwnerInv
    <2> QED
        BY <1>1, <2>1 DEF Stored, IInv, OwnerInv
<1>3. u \in Users /\ Owner(call[q].token) = u
    BY <1>2, OwnerOfToken
<1>4. t \in Stored /\ Owner(t) = u
    BY <1>1, <1>3, NewTokenIsToken DEF IInv
<1> HIDE DEF t, u
<1>5. ASSUME NEW p \in Calls
      PROVE  call'[p] \in CallStates /\ call'[p].pc \notin {"refreshing", "pending"}
    <2>1. call[p] \in CallStates
        BY SessionTypes DEF IInv
    <2>2. CASE p \in Woken(q)
        <3>1. call'[p] = [call[p] EXCEPT !.pc = "sent", !.token = t]
            BY <1>1, <2>2
        <3> QED
            BY <1>4, <2>1, <3>1 DEF CallStates, CallPC
    <2>3. CASE p \notin Woken(q)
        BY <1>1, <2>1, <2>3, WokenAll
    <2> QED
        BY <2>2, <2>3
<1>6. TypeOK'
    <2>1. /\ issued' \in 0 .. MaxPairs /\ accessDead \in 0 .. issued'
        <3>1. issued \in 0 .. MaxPairs /\ accessDead \in 0 .. issued /\ MaxPairs \in Nat
            BY SessionAssumption DEF IInv, TypeOK
        <3>2. issued < MaxPairs /\ issued' = issued + 1
            BY <1>1
        <3> QED
            BY <3>1, <3>2
    <2>2. store' \in [access : Stored, refresh : Stored]
        BY <1>1, <1>4
    <2>3. call' \in [Calls -> CallStates]
        BY <1>1, <1>5
    <2>4. user \in Users \cup {NoUser} /\ raced \in BOOLEAN /\ refreshDead \in 0 .. accessDead
        BY DEF IInv, TypeOK
    <2> QED
        BY <1>1, <2>1, <2>2, <2>3, <2>4 DEF TypeOK
<1>7. RefreshInv' /\ OwnerInv'
    BY <1>1, <1>5 DEF RefreshInv, OwnerInv
<1>8. StoredIsShown'
    BY <1>1, <1>2, <1>3, <1>4 DEF StoredIsShown
<1> QED
    BY <1>6, <1>7, <1>8 DEF IInv

\* The session is over: nothing is stored, nobody is shown.
LEMMA RefreshFailsKeeps ==
    ASSUME IInv, NEW q \in Calls, RefreshFails(q)
    PROVE  IInv'
<1>1. NoPair \in [access : Stored, refresh : Stored] /\ NoPair.access = NoPair.refresh
    BY DEF NoPair, Stored
<1>2. CASE PageLoad(NoPair)
    BY <1>1, <1>2, LoadKeeps DEF RefreshFails
<1>3. CASE ~PageLoad(NoPair)
    <2>1. /\ call[q].pc = "refreshing" /\ user = NoUser /\ store' = NoPair /\ refreshing' = FALSE
          /\ call' = [p \in Calls |-> IF p \in Woken(q) THEN NoCall ELSE call[p]]
          /\ UNCHANGED <<user, raced, issued, accessDead, refreshDead>>
        BY <1>3 DEF RefreshFails, serverVars
    <2>2. \A p \in Calls : call'[p] \in CallStates /\ call'[p].pc \notin {"refreshing", "pending"}
        <3>1. NoCall \in CallStates /\ NoCall.pc = "free" /\ \A p \in Calls : call[p] \in CallStates
            BY SessionTypes DEF IInv, NoCall
        <3> QED
            BY <2>1, <3>1, WokenAll
    <2>3. TypeOK'
        BY <1>1, <2>1, <2>2 DEF IInv, TypeOK
    <2>4. RefreshInv' /\ OwnerInv'
        BY <2>1, <2>2 DEF RefreshInv, OwnerInv
    <2>5. StoredIsShown'
        BY <2>1, OwnerOfToken DEF StoredIsShown, NoPair
    <2> QED
        BY <2>3, <2>4, <2>5 DEF IInv
<1> QED
    BY <1>2, <1>3

LEMMA LogoutKeeps ==
    ASSUME IInv, Logout
    PROVE  IInv'
<1>1. /\ store' = NoPair /\ user' = NoUser /\ raced' = (raced \/ refreshing)
      /\ UNCHANGED <<call, refreshing, issued, accessDead, refreshDead>>
    BY DEF Logout, serverVars
<1>2. NoPair \in [access : Stored, refresh : Stored]
    BY DEF NoPair, Stored
<1>3. TypeOK'
    BY <1>1, <1>2 DEF IInv, TypeOK
<1>4. RefreshInv' /\ OwnerInv'
    BY <1>1 DEF IInv, RefreshInv, OwnerInv
<1>5. StoredIsShown'
    BY <1>1, OwnerOfToken DEF StoredIsShown, NoPair
<1> QED
    BY <1>3, <1>4, <1>5 DEF IInv

LEMMA ExpireKeeps ==
    ASSUME IInv, Expire
    PROVE  IInv'
<1>1. UNCHANGED <<store, user, call, refreshing, issued, raced>>
    BY DEF Expire
<1>2. accessDead' \in 0 .. issued' /\ refreshDead' \in 0 .. accessDead'
    BY SessionAssumption DEF Expire, IInv, TypeOK
<1>3. TypeOK'
    BY <1>1, <1>2 DEF IInv, TypeOK
<1> QED
    BY <1>1, <1>3 DEF IInv, RefreshInv, OwnerInv, StoredIsShown

LEMMA SessionStep == IInv /\ [Next]_vars => IInv'
<1> SUFFICES ASSUME IInv, [Next]_vars PROVE IInv'
    OBVIOUS
<1>1. ASSUME NEW q \in Calls, Send(q) \/ (\E u \in Users : SendLogin(q, u)) \/ Answer(q) PROVE IInv'
    BY <1>1, PlainSteps, LoggedInKeeps, ToLoginKeeps, WaitKeeps, StartRefreshKeeps, RefreshedKeeps,
       RefreshFailsKeeps DEF Answer
<1>2. CASE Logout \/ Reload \/ Expire
    BY <1>2, LogoutKeeps, ReloadKeeps, ExpireKeeps
<1>3. CASE UNCHANGED vars
    BY <1>3 DEF vars, IInv, TypeOK, RefreshInv, OwnerInv, StoredIsShown
<1> QED
    BY <1>1, <1>2, <1>3 DEF Next

-----------------------------------------------------------------------------
\* The invariant holds for any users and calls, and any number of pairs.
THEOREM SessionInvariant == Spec => []IInv
BY SessionInit, SessionStep, PTL DEF Spec

\* Every variable of the session keeps its type.
THEOREM TypeCorrect == Spec => []TypeOK
<1>1. IInv => TypeOK
    BY DEF IInv
<1> QED
    BY <1>1, SessionInvariant, PTL

\* localStorage holds a pair or nothing, and unless a logout or a login met a
\* refresh it is of the user the application shows (useAuth.tsx, api.ts).
THEOREM StoreIsShown == Spec => []StoredIsShown
<1>1. IInv => StoredIsShown
    BY DEF IInv
<1> QED
    BY <1>1, SessionInvariant, PTL

\* isRefreshing stands for exactly one call that awaits /auth/refresh, and a
\* call waits only while there is one (api.ts, the response interceptor).
THEOREM RefreshIsSingle == Spec => []OneRefresher
<1>1. IInv => OneRefresher
    <2> SUFFICES ASSUME IInv PROVE OneRefresher
        OBVIOUS
    <2> DEFINE R == {q \in Calls : call[q].pc = "refreshing"}
    <2>1. CASE refreshing
        <3>1. PICK q \in Calls : call[q].pc = "refreshing"
            BY <2>1 DEF IInv, RefreshInv
        <3>2. R = {q}
            BY <3>1 DEF IInv, RefreshInv
        <3>3. Cardinality(R) = 1
            BY <3>2, FS_Singleton
        <3> QED
            BY <2>1, <3>3 DEF OneRefresher
    <2>2. CASE ~refreshing
        <3>1. R = {} /\ ~\E q \in Calls : call[q].pc = "pending"
            BY <2>2 DEF IInv, RefreshInv
        <3>2. Cardinality(R) = 0
            BY <3>1, FS_EmptySet
        <3> QED
            BY <2>2, <3>1, <3>2 DEF OneRefresher
    <2> QED
        BY <2>1, <2>2
<1> QED
    BY <1>1, SessionInvariant, PTL

-----------------------------------------------------------------------------
(* Loops. *)

\* A set of numbers has a least one.
LEMMA LeastNumber ==
    ASSUME NEW T \in SUBSET Nat, T # {}
    PROVE  \E x \in T : \A y \in T : x <= y
<1>1. IsWellFoundedOn(OpToRel(<, Nat), Nat)
    BY NatLessThanWellFounded
<1> DEFINE R == OpToRel(<, Nat)
<1>2. \A x, y \in Nat : y < x => <<y, x>> \in R
    BY DEF OpToRel
<1>3. IsWellFoundedOn(R, Nat)
    BY <1>1
<1> HIDE DEF R
<1>4. PICK x \in T : \A y \in T : ~(<<y, x>> \in R)
    BY <1>3, WFMin
<1>5. x \in Nat /\ \A y \in T : y \in Nat
    OBVIOUS
<1>6. \A y \in T : ~(y < x)
    BY <1>2, <1>4, <1>5, Zenon
<1> QED
    BY <1>5, <1>6

\* Induction up to a bound, over a set of numbers.
LEMMA UpTo ==
    ASSUME NEW N \in Nat, NEW G, 0 \in G, \A n \in 1..N : n - 1 \in G => n \in G
    PROVE  0..N \subseteq G
<1> DEFINE Others == (0..N) \ G
<1> SUFFICES ASSUME Others # {} PROVE FALSE
    OBVIOUS
<1>1. PICK x \in Others : \A y \in Others : x <= y
    <2>1. Others \in SUBSET Nat
        OBVIOUS
    <2> QED
        BY <2>1, LeastNumber
<1>2. x \in 1..N /\ x - 1 \notin Others /\ x - 1 \in 0..N
    BY <1>1
<1> QED
    BY <1>2

Begins(f, X, b, n, g) ==
    /\ f \in [0..n -> X] /\ f[0] = b
    /\ \A m \in 1..n : f[m] = g[m][f[m - 1]]

\* A function is defined by its value at 0 and a step.
LEMMA Recursion ==
    ASSUME NEW X, NEW b \in X, NEW N \in Nat, NEW g \in [1..N -> [X -> X]]
    PROVE  \E f : Begins(f, X, b, N, g)
<1> DEFINE G == {n \in 0..N : \E f : Begins(f, X, b, n, g)}
<1>1. 0 \in G
    <2>1. Begins([n \in 0..0 |-> b], X, b, 0, g)
        BY DEF Begins
    <2> QED
        BY <2>1
<1>2. ASSUME NEW n \in 1..N, n - 1 \in G
      PROVE  n \in G
    <2>1. PICK f : Begins(f, X, b, n - 1, g)
        BY <1>2
    <2> DEFINE h == [m \in 0..n |-> IF m = n THEN g[n][f[n - 1]] ELSE f[m]]
    <2>2. f \in [0..(n - 1) -> X] /\ f[n - 1] \in X
        BY <2>1 DEF Begins
    <2>3. g[n][f[n - 1]] \in X
        BY <2>2
    <2>4. h \in [0..n -> X]
        BY <2>2, <2>3
    <2>5. h[0] = b
        BY <2>1 DEF Begins
    <2>6. \A m \in 1..n : h[m] = g[m][h[m - 1]]
        <3> SUFFICES ASSUME NEW m \in 1..n PROVE h[m] = g[m][h[m - 1]]
            OBVIOUS
        <3>1. CASE m = n
            BY <3>1
        <3>2. CASE m # n
            BY <3>2, <2>1 DEF Begins
        <3> QED
            BY <3>1, <3>2
    <2>7. Begins(h, X, b, n, g)
        BY <2>4, <2>5, <2>6 DEF Begins
    <2> HIDE DEF h
    <2> QED
        BY <2>7
<1> HIDE DEF G
<1>3. \A n \in 1..N : n - 1 \in G => n \in G
    BY <1>2
<1>4. \A n \in 0..N : n \in G
    BY <1>1, <1>3, UpTo, Zenon
<1>5. N \in G
    BY <1>4
<1> QED
    BY <1>5 DEF G

\* What a loop computes is of its type.
LEMMA LoopType ==
    ASSUME NEW X, NEW b \in X, NEW N \in Nat, NEW g \in [1..N -> [X -> X]], NEW f,
           f = [n \in 0..N |-> f[n]], f[0] = b,
           \A n \in 1..N : f[n - 1] \in X => f[n] = g[n][f[n - 1]]
    PROVE  Begins(f, X, b, N, g)
<1> DEFINE G == {n \in 0..N : f[n] \in X}
<1>1. 0 \in G
    OBVIOUS
<1>2. \A n \in 1..N : n - 1 \in G => n \in G
    <2> SUFFICES ASSUME NEW n \in 1..N, f[n - 1] \in X PROVE f[n] \in X /\ n \in 0..N
        BY Zenon
    <2>1. g[n] \in [X -> X]
        OBVIOUS
    <2>2. g[n][f[n - 1]] \in X
        BY <2>1
    <2>3. f[n] = g[n][f[n - 1]]
        BY Zenon
    <2>4. f[n] \in X
        BY <2>2, <2>3, Zenon
    <2>5. n \in 0..N
        OBVIOUS
    <2> QED
        BY <2>4, <2>5, Zenon
<1>3. 0..N \subseteq G
    <2> HIDE DEF G
    <2> QED
        BY <1>1, <1>2, UpTo, Zenon
<1>4. \A n \in 0..N : f[n] \in X
    BY <1>3
<1>5. \A n \in 1..N : n - 1 \in 0..N
    OBVIOUS
<1> QED
    BY <1>4, <1>5 DEF Begins

-----------------------------------------------------------------------------
(* The page: the invariant. *)

\* Types.
Message == [role : {"user", "assistant"}, turn : 1..Turns, text : (1..Turns) \X Nat,
            cites : (1..Turns) \cup {None}]
PendingUpdate == [kind : {"create", "content", "cite", "drop", "idle"}, turn : 1..Turns, n : Nat]
TurnState == [stage : {"unsent", "asked", "reading", "over"}, got : Nat, created : BOOLEAN,
              done : BOOLEAN, frame : Nat \cup {None}, conv : (1..Turns) \cup {None}]

PageTypeOK ==
    /\ messages \in Seq(Message)
    /\ streaming \in BOOLEAN /\ error \in BOOLEAN
    /\ conv \in (1..Turns) \cup {None}
    /\ pending \in Seq(PendingUpdate)
    /\ turn \in [1..Turns -> TurnState]
    /\ aborted \subseteq 1..Turns /\ cleared \subseteq 1..Turns
    /\ here \in BOOLEAN /\ left \subseteq 1..Turns

\* AnswersUnderQuestions of a list that may be shown.
Sound(list) ==
    \A i \in 1..Len(list) : list[i].role = "assistant" =>
        /\ IF i = 1 THEN list[i].turn \in cleared ELSE list[i - 1] = User(list[i].turn)
        /\ list[i].text[1] = list[i].turn /\ list[i].text[2] \in 1..turn[list[i].turn].got
        /\ list[i].cites \in {None, list[i].turn}

\* The question of turn c comes last, or the chat was cleared.
Awaits(list, c) ==
    IF list = <<>> THEN c \in cleared ELSE list[Len(list)] = User(c)

\* The answer of turn c comes last.
Answered(list, c) ==
    list # <<>> /\ list[Len(list)].role = "assistant" /\ list[Len(list)].turn = c

\* While the page is busy, it is with turn c only: what waits to be applied is
\* of c, and what is shown ends where c's updates belong.
Serving(c) ==
    /\ Under \subseteq {c}
    /\ turn[c].stage = "asked" => pending = <<>>
    /\ Awaits(messages, c) \/ Answered(messages, c)
    /\ c \in Under /\ ~turn[c].created => Awaits(messages, c)
    /\ \A i \in 1..Len(pending) :
          /\ pending[i].turn = c
          /\ pending[i].kind = "content" => pending[i].n \in 1..turn[c].got
          /\ pending[i].kind = "create" =>
                /\ Awaits(messages, c) /\ turn[c].got >= 1
                /\ c \in Under => turn[c].created
                /\ \A j \in 1..Len(pending) : pending[j].kind = "create" => j = i
          /\ pending[i].kind = "drop" => i = 1 /\ Len(pending) = 2 /\ pending[2].kind = "idle"

\* No update waits on an idle page, and it is busy while a turn is under way;
\* what was left had been sent.
PageInv ==
    /\ ~streaming => pending = <<>>
    /\ streaming => here
    /\ \A t \in left : turn[t].stage # "unsent"
    /\ Under # {} <=> streaming /\ StillStreaming
    /\ streaming => \E c \in 1..Turns : Serving(c)
    /\ \A t \in 1..Turns : /\ turn[t].frame # None => Reading(t) /\ turn[t].frame \in 1..turn[t].got
                           /\ turn[t].created => turn[t].got >= 1
    /\ Sound(messages)

-----------------------------------------------------------------------------
(* The page: lists of messages. *)

\* Questions and answers are messages.
LEMMA MessagesAre ==
    ASSUME NEW t \in 1..Turns, NEW n \in Nat
    PROVE  /\ User(t) \in Message /\ Assistant(t, n) \in Message
           /\ User(t).role = "user" /\ User(t).turn = t
           /\ Assistant(t, n).role = "assistant" /\ Assistant(t, n).turn = t
           /\ Assistant(t, n).text = <<t, n>> /\ Assistant(t, n).cites = None
BY ChatAssumption DEF User, Assistant, Message

\* Answers are left out of a list and nothing else is.
LEMMA WithoutAnswersIs ==
    ASSUME NEW list \in Seq(Message)
    PROVE  /\ WithoutAnswers(list) \in Seq(Message)
           /\ \A i \in 1..Len(WithoutAnswers(list)) : WithoutAnswers(list)[i].role # "assistant"
<1> DEFINE N == Len(list)
           X == {l \in Seq(Message) : \A i \in 1..Len(l) : l[i].role # "assistant"}
           Step(l, n) == IF list[n].role = "assistant" THEN l ELSE Append(l, list[n])
           g == [n \in 1..N |-> [l \in X |-> Step(l, n)]]
           Is(f) == f = [i \in 0..N |-> IF i = 0 THEN <<>> ELSE Step(f[i - 1], i)]
           f == CHOOSE f : Is(f)
<1>1. N \in Nat /\ <<>> \in X
    OBVIOUS
<1>2. \A n \in 1..N : \A l \in X : Step(l, n) \in X
    <2> SUFFICES ASSUME NEW n \in 1..N, NEW l \in X PROVE Step(l, n) \in X
        OBVIOUS
    <2>1. list[n] \in Message /\ l \in Seq(Message)
        OBVIOUS
    <2>2. CASE list[n].role # "assistant"
        <3>1. /\ Append(l, list[n]) \in Seq(Message) /\ Len(Append(l, list[n])) = Len(l) + 1
              /\ \A i \in 1..Len(l) : Append(l, list[n])[i] = l[i]
              /\ Append(l, list[n])[Len(l) + 1] = list[n] /\ Len(l) \in Nat
            BY <2>1
        <3>2. \A i \in 1..(Len(l) + 1) : Append(l, list[n])[i].role # "assistant"
            BY <2>2, <3>1
        <3> QED
            BY <2>2, <3>1, <3>2
    <2> QED
        BY <2>2
<1>3. g \in [1..N -> [X -> X]]
    <2> HIDE DEF X, N, Step
    <2> QED
        BY <1>2
<1>4. \A n \in 1..N : \A l \in X : g[n][l] = Step(l, n)
    <2> HIDE DEF X, N, Step
    <2> QED
        OBVIOUS
<1>5. \E h : Is(h)
    <2> HIDE DEF X, N, Step, g
    <2>1. PICK h : Begins(h, X, <<>>, N, g)
        BY <1>1, <1>3, Recursion
    <2>2. h \in [0..N -> X] /\ h[0] = <<>> /\ \A n \in 1..N : h[n] = g[n][h[n - 1]]
        BY <2>1 DEF Begins
    <2>3. \A n \in 1..N : h[n - 1] \in X
        BY <1>1, <2>2
    <2>4. \A n \in 1..N : h[n] = Step(h[n - 1], n)
        BY <1>4, <2>2, <2>3
    <2>5. \A n \in 0..N : h[n] = IF n = 0 THEN <<>> ELSE Step(h[n - 1], n)
        BY <1>1, <2>2, <2>4
    <2>6. h = [n \in 0..N |-> h[n]]
        BY <2>2
    <2> QED
        BY <2>5, <2>6, Zenon
<1>6. Is(f)
    <2> HIDE DEF Is
    <2> QED
        BY <1>5
<1> HIDE DEF f
<1>7. f = [n \in 0..N |-> f[n]] /\ f[0] = <<>> /\ \A n \in 1..N : f[n] = Step(f[n - 1], n)
    <2> HIDE DEF N, Step
    <2> QED
        BY SMTT(60), <1>1, <1>6
<1>8. f \in [0..N -> X]
    <2> HIDE DEF X, N, Step, g
    <2>1. Begins(f, X, <<>>, N, g)
        BY ZenonT(60), <1>1, <1>3, <1>4, <1>7, LoopType
    <2> QED
        BY <2>1 DEF Begins
<1>9. WithoutAnswers(list) = f[N]
    BY DEF WithoutAnswers, f
<1> QED
    BY <1>1, <1>8, <1>9

\* What each update makes of a list.
LEMMA Applied ==
    ASSUME PageTypeOK, NEW list \in Seq(Message), NEW u \in PendingUpdate
    PROVE  /\ Apply(list, u) \in Seq(Message)
           /\ u.kind = "create" => Apply(list, u) = Append(list, Assistant(u.turn, turn[u.turn].got))
           /\ u.kind = "drop" => Apply(list, u) = WithoutAnswers(list)
           /\ u.kind = "idle" => Apply(list, u) = list
           /\ u.kind \in {"content", "cite"} =>
                IF EndsWithAnswer(list)
                THEN /\ Len(Apply(list, u)) = Len(list) /\ list # <<>> /\ list[Len(list)].role = "assistant"
                     /\ \A i \in 1..(Len(list) - 1) : Apply(list, u)[i] = list[i]
                     /\ Apply(list, u)[Len(list)] =
                           IF u.kind = "content" THEN [list[Len(list)] EXCEPT !.text = <<u.turn, u.n>>]
                                                 ELSE [list[Len(list)] EXCEPT !.cites = u.turn]
                ELSE Apply(list, u) = list
<1>1. u.turn \in 1..Turns /\ u.n \in Nat /\ u.kind \in {"create", "content", "cite", "drop", "idle"}
    BY DEF PendingUpdate
<1>2. turn[u.turn].got \in Nat
    BY <1>1 DEF PageTypeOK, TurnState
<1>3. CASE u.kind = "create"
    <2>1. Apply(list, u) = Append(list, Assistant(u.turn, turn[u.turn].got))
        BY <1>3 DEF Apply
    <2>2. Assistant(u.turn, turn[u.turn].got) \in Message
        BY <1>1, <1>2, MessagesAre
    <2> QED
        BY <1>3, <2>1, <2>2
<1>4. CASE u.kind = "drop"
    BY <1>4, WithoutAnswersIs DEF Apply
<1>5. CASE u.kind = "idle"
    BY <1>5 DEF Apply
<1>6. ASSUME EndsWithAnswer(list), NEW m \in Message
      PROVE  /\ ReplaceLast(list, m) \in Seq(Message) /\ Len(ReplaceLast(list, m)) = Len(list)
             /\ \A i \in 1..(Len(list) - 1) : ReplaceLast(list, m)[i] = list[i]
             /\ ReplaceLast(list, m)[Len(list)] = m
    <2>1. list # <<>> /\ Len(list) \in Nat /\ Len(list) >= 1
        BY <1>6 DEF EndsWithAnswer
    <2>2. Front(list) = SubSeq(list, 1, Len(list) - 1)
        BY DEF Front
    <2>3. Front(list) \in Seq(Message) /\ Len(Front(list)) = Len(list) - 1
          /\ \A i \in 1..(Len(list) - 1) : Front(list)[i] = list[i]
        <3> DEFINE k == Len(list) - 1
        <3>1. k \in Nat /\ k <= Len(list) /\ 1 \in 1..(Len(list) + 1)
            BY <2>1
        <3> HIDE DEF k
        <3>2. SubSeq(list, 1, k) \in Seq(Message) /\ Len(SubSeq(list, 1, k)) = k
              /\ \A i \in 1..k : SubSeq(list, 1, k)[i] = list[i]
            BY <3>1
        <3> QED
            BY <2>2, <3>2 DEF k
    <2>4. ReplaceLast(list, m) = Append(Front(list), m)
        BY <1>6 DEF ReplaceLast
    <2> HIDE DEF Message
    <2> QED
        BY <2>1, <2>3, <2>4
<1>7. CASE u.kind \in {"content", "cite"}
    <2> DEFINE m == IF u.kind = "content" THEN [Last(list) EXCEPT !.text = <<u.turn, u.n>>]
                                          ELSE [Last(list) EXCEPT !.cites = u.turn]
    <2>1. Apply(list, u) = ReplaceLast(list, m)
        BY <1>7 DEF Apply, Cite
    <2>2. CASE EndsWithAnswer(list)
        <3>1. list # <<>> /\ Len(list) \in Nat /\ Len(list) >= 1 /\ Last(list) = list[Len(list)]
              /\ list[Len(list)] \in Message /\ list[Len(list)].role = "assistant"
            BY <2>2 DEF EndsWithAnswer, Last
        <3>2. m \in Message
            BY <1>1, <3>1 DEF Message
        <3>3. m = IF u.kind = "content" THEN [list[Len(list)] EXCEPT !.text = <<u.turn, u.n>>]
                                        ELSE [list[Len(list)] EXCEPT !.cites = u.turn]
            BY <3>1
        <3> HIDE DEF m
        <3>4. /\ ReplaceLast(list, m) \in Seq(Message) /\ Len(ReplaceLast(list, m)) = Len(list)
              /\ \A i \in 1..(Len(list) - 1) : ReplaceLast(list, m)[i] = list[i]
              /\ ReplaceLast(list, m)[Len(list)] = m
            BY <1>6, <2>2, <3>2
        <3> QED
            BY <1>7, <2>1, <2>2, <3>1, <3>3, <3>4
    <2>3. CASE ~EndsWithAnswer(list)
        BY <1>7, <2>1, <2>3 DEF ReplaceLast
    <2> QED
        BY <2>2, <2>3
<1> QED
    BY <1>1, <1>3, <1>4, <1>5, <1>7

\* An update of the turn that is served leaves a list sound, and it still ends
\* where that turn's updates belong.
LEMMA AppliedToEnd ==
    ASSUME PageTypeOK, NEW c \in 1..Turns, NEW list \in Seq(Message), NEW u \in PendingUpdate,
           Sound(list), Awaits(list, c) \/ Answered(list, c), u.turn = c,
           u.kind # "drop", u.kind = "create" => Awaits(list, c) /\ turn[c].got >= 1,
           u.kind = "content" => u.n \in 1..turn[c].got
    PROVE  /\ Sound(Apply(list, u))
           /\ Awaits(Apply(list, u), c) \/ Answered(Apply(list, u), c)
           /\ u.kind # "create" /\ Awaits(list, c) => Awaits(Apply(list, u), c)
<1> DEFINE new == Apply(list, u)
<1>1. u.kind \in {"create", "content", "cite", "idle"} /\ turn[c].got \in Nat
    BY DEF PendingUpdate, PageTypeOK, TurnState
<1>2. CASE u.kind = "create"
    <2> DEFINE m == Assistant(c, turn[c].got)
    <2>1. new = Append(list, m)
        BY <1>2, Applied
    <2>2. m \in Message /\ m.role = "assistant" /\ m.turn = c /\ m.text = <<c, turn[c].got>> /\ m.cites = None
        BY <1>1, MessagesAre
    <2> HIDE DEF m
    <2>3. Len(list) \in Nat /\ Len(new) = Len(list) + 1 /\ new[Len(list) + 1] = m
          /\ \A i \in 1..Len(list) : new[i] = list[i]
        BY <2>1, <2>2
    <2>4. Answered(new, c)
        BY <2>2, <2>3 DEF Answered
    <2>5. IF Len(list) + 1 = 1 THEN c \in cleared ELSE new[Len(list)] = User(c)
        <3>1. CASE list = <<>>
            BY <1>2, <3>1 DEF Awaits
        <3>2. CASE list # <<>>
            <4>1. list[Len(list)] = User(c) /\ Len(list) >= 1
                BY <1>2, <3>2 DEF Awaits
            <4> QED
                BY <2>3, <4>1
        <3> QED
            BY <3>1, <3>2
    <2>6. m.text[1] = c /\ m.text[2] \in 1..turn[c].got
        BY <1>1, <1>2, <2>2
    <2> HIDE DEF new
    <2>7. Sound(new)
        <3> SUFFICES ASSUME NEW i \in 1..Len(new), new[i].role = "assistant"
                     PROVE  /\ IF i = 1 THEN new[i].turn \in cleared ELSE new[i - 1] = User(new[i].turn)
                            /\ new[i].text[1] = new[i].turn /\ new[i].text[2] \in 1..turn[new[i].turn].got
                            /\ new[i].cites \in {None, new[i].turn}
            BY DEF Sound
        <3>1. CASE i = Len(list) + 1
            <4>1. new[i] = m
                BY <2>3, <3>1
            <4>2. i - 1 = Len(list)
                BY <2>3, <3>1
            <4>3. IF i = 1 THEN c \in cleared ELSE new[i - 1] = User(c)
                BY <2>5, <3>1, <4>2
            <4> QED
                BY <2>2, <2>6, <4>1, <4>3
        <3>2. CASE i \in 1..Len(list)
            <4>1. new[i] = list[i] /\ (i # 1 => new[i - 1] = list[i - 1])
                BY <2>3, <3>2
            <4> QED
                BY <3>2, <4>1 DEF Sound
        <3> QED
            BY <2>3, <3>1, <3>2
    <2> QED
        BY <1>2, <2>4, <2>7 DEF new
<1>3. CASE u.kind = "idle"
    BY <1>3, Applied
<1>4. CASE u.kind \in {"content", "cite"} /\ ~EndsWithAnswer(list)
    BY <1>4, Applied
<1>5. CASE u.kind \in {"content", "cite"} /\ EndsWithAnswer(list)
    <2> DEFINE N == Len(list)
    <2>1. /\ Len(new) = N /\ list # <<>> /\ list[N].role = "assistant"
          /\ \A i \in 1..(N - 1) : new[i] = list[i]
          /\ new[N] = IF u.kind = "content" THEN [list[N] EXCEPT !.text = <<c, u.n>>]
                                            ELSE [list[N] EXCEPT !.cites = c]
        BY <1>5, Applied
    <2>2. N \in Nat /\ N >= 1 /\ list[N] \in Message
        BY <2>1
    <2>3. Answered(list, c)
        BY <2>1, <2>2, MessagesAre DEF Awaits
    <2>4. new[N].role = "assistant" /\ new[N].turn = c
        BY <2>1, <2>2, <2>3 DEF Message, Answered
    <2>5. ~Awaits(list, c)
        BY <2>1, <2>2, MessagesAre DEF Awaits
    <2>6. Answered(new, c)
        BY <2>1, <2>2, <2>4 DEF Answered
    <2>7. /\ IF N = 1 THEN c \in cleared ELSE list[N - 1] = User(c)
          /\ list[N].text[1] = c /\ list[N].text[2] \in 1..turn[c].got
          /\ list[N].cites \in {None, c}
        <3>1. Len(list) \in 1..Len(list) /\ list[Len(list)].role = "assistant" /\ list[Len(list)].turn = c
            BY <2>2, <2>3 DEF Answered
        <3> QED
            BY <3>1, Zenon DEF Sound
    <2>8. new[N].text[1] = c /\ new[N].text[2] \in 1..turn[c].got /\ new[N].cites \in {None, c}
        <3>1. CASE u.kind = "content"
            <4>1. new[N].text = <<c, u.n>> /\ new[N].cites = list[N].cites
                BY <2>1, <2>2, <3>1 DEF Message
            <4> QED
                BY <2>7, <3>1, <4>1
        <3>2. CASE u.kind = "cite"
            <4>1. new[N].text = list[N].text /\ new[N].cites = c
                BY <2>1, <2>2, <3>2 DEF Message
            <4> QED
                BY <2>7, <4>1
        <3> QED
            BY <1>5, <3>1, <3>2
    <2> HIDE DEF new, N
    <2>9. Sound(new)
        <3> SUFFICES ASSUME NEW i \in 1..N, new[i].role = "assistant"
                     PROVE  /\ IF i = 1 THEN new[i].turn \in cleared ELSE new[i - 1] = User(new[i].turn)
                            /\ new[i].text[1] = new[i].turn /\ new[i].text[2] \in 1..turn[new[i].turn].got
                            /\ new[i].cites \in {None, new[i].turn}
            BY <2>1 DEF Sound
        <3>0. i # 1 => new[i - 1] = list[i - 1]
            BY <2>1, <2>2
        <3>1. CASE i = N
            <4>1. IF i = 1 THEN c \in cleared ELSE new[i - 1] = User(c)
                BY <2>7, <3>0, <3>1
            <4> QED
                BY <2>4, <2>8, <3>1, <4>1
        <3>2. CASE i \in 1..(N - 1)
            <4>1. new[i] = list[i] /\ i \in 1..Len(list)
                BY <2>1, <2>2, <3>2 DEF N
            <4> QED
                BY <3>0, <4>1 DEF Sound
        <3> QED
            BY <2>2, <3>1, <3>2
    <2> QED
        BY <2>5, <2>6, <2>9 DEF new
<1> QED
    BY <1>1, <1>2, <1>3, <1>4, <1>5

\* What is shown once the queued updates are applied: the end of the lists
\* that they lead to, one by one.
LEMMA ShownSteps ==
    ASSUME PageTypeOK
    PROVE  \E h \in [0..Len(pending) -> Seq(Message)] :
              /\ h[0] = messages /\ Shown = h[Len(pending)]
              /\ \A n \in 1..Len(pending) : h[n] = Apply(h[n - 1], pending[n])
<1> DEFINE N == Len(pending)
           X == Seq(Message)
           Step(l, n) == Apply(l, pending[n])
           g == [n \in 1..N |-> [l \in X |-> Step(l, n)]]
           Is(f) == f = [i \in 0..N |-> IF i = 0 THEN messages ELSE Step(f[i - 1], i)]
           f == CHOOSE f : Is(f)
<1>1. N \in Nat /\ messages \in X /\ \A n \in 1..N : pending[n] \in PendingUpdate
    BY DEF PageTypeOK
<1>2. \A n \in 1..N : \A l \in X : Step(l, n) \in X
    BY <1>1, Applied
<1>3. g \in [1..N -> [X -> X]]
    <2> HIDE DEF X, N, Step
    <2> QED
        BY <1>2
<1>4. \A n \in 1..N : \A l \in X : g[n][l] = Step(l, n)
    <2> HIDE DEF X, N, Step
    <2> QED
        OBVIOUS
<1>5. \E h : Is(h)
    <2> HIDE DEF X, N, Step, g
    <2>1. PICK h : Begins(h, X, messages, N, g)
        BY <1>1, <1>3, Recursion
    <2>2. h \in [0..N -> X] /\ h[0] = messages /\ \A n \in 1..N : h[n] = g[n][h[n - 1]]
        BY <2>1 DEF Begins
    <2>3. \A n \in 1..N : h[n - 1] \in X
        BY <1>1, <2>2
    <2>4. \A n \in 1..N : h[n] = Step(h[n - 1], n)
        BY <1>4, <2>2, <2>3
    <2>5. \A n \in 0..N : h[n] = IF n = 0 THEN messages ELSE Step(h[n - 1], n)
        BY <1>1, <2>2, <2>4
    <2>6. h = [n \in 0..N |-> h[n]]
        BY <2>2
    <2> QED
        BY <2>5, <2>6, Zenon
<1>6. Is(f)
    <2> HIDE DEF Is
    <2> QED
        BY <1>5
<1> HIDE DEF f
<1>7. f = [n \in 0..N |-> f[n]] /\ f[0] = messages /\ \A n \in 1..N : f[n] = Step(f[n - 1], n)
    <2> HIDE DEF N, Step
    <2> QED
        BY SMTT(60), <1>1, <1>6
<1>8. f \in [0..N -> X]
    <2> HIDE DEF X, N, Step, g
    <2>1. Begins(f, X, messages, N, g)
        BY <1>1, <1>3, <1>4, <1>7, LoopType
    <2> QED
        BY <2>1 DEF Begins
<1>9. Shown = f[N]
    BY DEF Shown, f
<1> QED
    BY <1>7, <1>8, <1>9

\* If it holds nothing but what a stream sends, it is a list that is sound and
\* ends where more of the stream belongs.
LEMMA ShownServes ==
    ASSUME PageTypeOK, Sound(messages), NEW c \in 1..Turns, Serving(c),
           \A i \in 1..Len(pending) : pending[i].kind # "drop"
    PROVE  /\ Shown \in Seq(Message) /\ Sound(Shown)
           /\ Awaits(Shown, c) \/ Answered(Shown, c)
           /\ c \in Under /\ ~turn[c].created => Awaits(Shown, c)
<1> DEFINE N == Len(pending)
<1>1. PICK h \in [0..N -> Seq(Message)] :
              /\ h[0] = messages /\ Shown = h[N]
              /\ \A n \in 1..N : h[n] = Apply(h[n - 1], pending[n])
    BY ShownSteps
<1>2. N \in Nat /\ \A n \in 1..N : pending[n] \in PendingUpdate
    BY DEF PageTypeOK
<1> DEFINE First(n) == \A j \in 1..n : pending[j].kind # "create"
           G == {n \in 0..N : /\ Sound(h[n]) /\ (Awaits(h[n], c) \/ Answered(h[n], c))
                              /\ Awaits(messages, c) /\ First(n) => Awaits(h[n], c)}
<1>3. 0 \in G
    BY <1>1, <1>2 DEF Serving
<1>4. \A n \in 1..N : n - 1 \in G => n \in G
    <2> SUFFICES ASSUME NEW n \in 1..N, n - 1 \in G PROVE n \in G
        BY Zenon
    <2>1. /\ n - 1 \in 0..N /\ n \in 0..N /\ h[n - 1] \in Seq(Message) /\ pending[n] \in PendingUpdate
          /\ h[n] = Apply(h[n - 1], pending[n])
        BY <1>1, <1>2
    <2>2. /\ Sound(h[n - 1]) /\ (Awaits(h[n - 1], c) \/ Answered(h[n - 1], c))
          /\ Awaits(messages, c) /\ First(n - 1) => Awaits(h[n - 1], c)
        BY Zenon
    <2>3. /\ pending[n].turn = c /\ pending[n].kind # "drop"
          /\ pending[n].kind = "content" => pending[n].n \in 1..turn[c].got
          /\ pending[n].kind = "create" =>
                Awaits(messages, c) /\ turn[c].got >= 1 /\ \A j \in 1..N : pending[j].kind = "create" => j = n
        BY Zenon DEF Serving
    <2>4. pending[n].kind = "create" => Awaits(h[n - 1], c)
        <3>1. pending[n].kind = "create" => First(n - 1)
            BY <1>2, <2>3
        <3> HIDE DEF First
        <3> QED
            BY <2>2, <2>3, <3>1
    <2>5. /\ Sound(h[n])
          /\ Awaits(h[n], c) \/ Answered(h[n], c)
          /\ pending[n].kind # "create" /\ Awaits(h[n - 1], c) => Awaits(h[n], c)
        <3> HIDE DEF First, G, N
        <3> QED
            BY <2>1, <2>2, <2>3, <2>4, AppliedToEnd
    <2>6. First(n) => First(n - 1) /\ pending[n].kind # "create"
        BY <1>2
    <2> HIDE DEF First, N
    <2> QED
        BY <2>1, <2>2, <2>5, <2>6
<1>5. 0..N \subseteq G
    <2> HIDE DEF G, N
    <2> QED
        BY <1>2, <1>3, <1>4, UpTo, Zenon
<1>6. N \in G
    BY <1>2, <1>5
<1>7. c \in Under /\ ~turn[c].created => Awaits(messages, c) /\ First(N)
    BY DEF Serving
<1> HIDE DEF First
<1> QED
    BY <1>1, <1>2, <1>6, <1>7

\* What is shown next is sound.
LEMMA ShownIs ==
    ASSUME PageTypeOK, PageInv
    PROVE  /\ Shown \in Seq(Message) /\ Sound(Shown)
           /\ pending = <<>> => Shown = messages
           /\ Under # {} => \E c \in Under :
                 /\ Under = {c} /\ Serving(c)
                 /\ Awaits(Shown, c) \/ Answered(Shown, c)
                 /\ ~turn[c].created => Awaits(Shown, c)
<1>1. PICK h \in [0..Len(pending) -> Seq(Message)] :
              /\ h[0] = messages /\ Shown = h[Len(pending)]
              /\ \A n \in 1..Len(pending) : h[n] = Apply(h[n - 1], pending[n])
    BY ShownSteps
<1>2. Len(pending) \in Nat /\ \A n \in 1..Len(pending) : pending[n] \in PendingUpdate
    BY DEF PageTypeOK
<1>3. Shown \in Seq(Message)
    BY <1>1, <1>2
<1>4. CASE pending = <<>>
    <2>1. Shown = messages
        BY <1>1, <1>4
    <2>2. ASSUME NEW c \in 1..Turns, Serving(c), Under # {}
          PROVE  c \in Under /\ Under = {c} /\ (Awaits(Shown, c) \/ Answered(Shown, c))
                 /\ (~turn[c].created => Awaits(Shown, c))
        <3>1. c \in Under /\ Under = {c}
            BY <2>2 DEF Serving
        <3> QED
            BY <2>1, <2>2, <3>1 DEF Serving
    <2>3. Under # {} => \E c \in 1..Turns : Serving(c)
        BY DEF PageInv
    <2>4. Sound(Shown)
        BY <2>1 DEF PageInv
    <2> QED
        BY <1>3, <2>1, <2>2, <2>3, <2>4, Zenon
<1>5. CASE pending # <<>> /\ \A i \in 1..Len(pending) : pending[i].kind # "drop"
    <2>1. PICK c \in 1..Turns : Serving(c)
        BY <1>5 DEF PageInv
    <2>2. /\ Sound(Shown) /\ (Awaits(Shown, c) \/ Answered(Shown, c))
          /\ c \in Under /\ ~turn[c].created => Awaits(Shown, c)
        BY <1>5, <2>1, ShownServes DEF PageInv
    <2>3. Under # {} => c \in Under /\ Under = {c}
        BY <2>1 DEF Serving
    <2> QED
        BY <1>3, <1>5, <2>1, <2>2, <2>3
<1>6. CASE \E i \in 1..Len(pending) : pending[i].kind = "drop"
    <2>1. PICK i \in 1..Len(pending) : pending[i].kind = "drop"
        BY <1>6
    <2>2. PICK c \in 1..Turns : Serving(c)
        BY <1>2, <2>1 DEF PageInv
    <2>3. i = 1 /\ Len(pending) = 2 /\ pending[2].kind = "idle"
        BY <2>1, <2>2 DEF Serving
    <2>4. Under = {}
        <3>1. 2 \in DOMAIN pending
            BY <1>2, <2>3 DEF PageTypeOK
        <3>2. ~StillStreaming
            BY <2>3, <3>1 DEF StillStreaming
        <3> QED
            BY <3>2 DEF PageInv
    <2>5. h[1] = Apply(messages, pending[1]) /\ Shown = Apply(h[1], pending[2]) /\ h[1] \in Seq(Message)
        BY <1>1, <2>3
    <2>6. Shown = h[1]
        <3>1. pending[2] \in PendingUpdate
            BY <1>2, <2>3
        <3> QED
            BY <2>3, <2>5, <3>1, Applied
    <2>7. h[1] = WithoutAnswers(messages)
        BY <1>2, <2>1, <2>3, <2>5, Applied DEF PageTypeOK
    <2>8. Sound(Shown)
        BY <2>6, <2>7, WithoutAnswersIs DEF Sound, PageTypeOK
    <2>9. pending # <<>>
        <3>1. Len(<<>>) = 0
            OBVIOUS
        <3>2. pending = <<>> => Len(pending) = 0
            BY <3>1
        <3> QED
            BY <2>3, <3>2
    <2> QED
        BY <1>3, <2>4, <2>8, <2>9, Zenon
<1> QED
    BY <1>4, <1>5, <1>6

-----------------------------------------------------------------------------
(* The page: steps. *)

\* The inductive invariant of the page.
PageIInv == PageTypeOK /\ PageInv

\* It holds of a page that was just loaded.
LEMMA PageStart == PageInit => PageIInv
<1> SUFFICES ASSUME PageInit PROVE PageIInv
    OBVIOUS
<1>1. Unsent \in TurnState /\ Unsent.stage = "unsent" /\ Unsent.frame = None /\ Unsent.created = FALSE
    BY DEF Unsent, TurnState
<1>2. PageTypeOK
    <2>1. messages \in Seq(Message) /\ pending \in Seq(PendingUpdate)
        BY DEF PageInit
    <2>2. turn \in [1..Turns -> TurnState]
        BY <1>1 DEF PageInit
    <2>3. conv \in (1..Turns) \cup {None} /\ aborted \subseteq 1..Turns /\ cleared \subseteq 1..Turns
        BY DEF PageInit
    <2>4. streaming \in BOOLEAN /\ error \in BOOLEAN /\ here \in BOOLEAN /\ left \subseteq 1..Turns
        BY DEF PageInit
    <2> QED
        BY <2>1, <2>2, <2>3, <2>4 DEF PageTypeOK
<1>3. Under = {}
    BY <1>1 DEF PageInit, Under, Busy
<1>4. Sound(messages)
    BY DEF PageInit, Sound
<1> QED
    BY <1>1, <1>2, <1>3, <1>4 DEF PageInit, PageIInv, PageInv, StillStreaming

\* A list stays sound while answers grow and chats are cleared.
LEMMA SoundStays ==
    ASSUME PageTypeOK, PageTypeOK', NEW list \in Seq(Message), Sound(list), messages' = list,
           \A t \in 1..Turns : turn'[t].got >= turn[t].got, cleared \subseteq cleared'
    PROVE  Sound(messages)'
<1> SUFFICES ASSUME NEW i \in 1..Len(list), list[i].role = "assistant"
             PROVE  /\ IF i = 1 THEN list[i].turn \in cleared' ELSE list[i - 1] = User(list[i].turn)
                    /\ list[i].text[1] = list[i].turn /\ list[i].text[2] \in 1..turn'[list[i].turn].got
                    /\ list[i].cites \in {None, list[i].turn}
    BY DEF Sound, User
<1>1. list[i] \in Message /\ list[i].turn \in 1..Turns
    <2>1. list[i] \in Message
        OBVIOUS
    <2> QED
        BY <2>1 DEF Message
<1>2. /\ IF i = 1 THEN list[i].turn \in cleared ELSE list[i - 1] = User(list[i].turn)
      /\ list[i].text[1] = list[i].turn /\ list[i].text[2] \in 1..turn[list[i].turn].got
      /\ list[i].cites \in {None, list[i].turn}
    BY DEF Sound
<1>3. turn[list[i].turn].got \in Nat /\ turn'[list[i].turn].got \in Nat
      /\ turn'[list[i].turn].got >= turn[list[i].turn].got
    BY <1>1 DEF PageTypeOK, TurnState
<1> QED
    BY <1>2, <1>3

\* Updates are applied; the turn under way is the same.
LEMMA FlushKeeps ==
    ASSUME PageIInv, PageTypeOK', messages' = Shown, streaming' = StillStreaming, pending' = <<>>,
           turn' = turn, cleared' = cleared, here' = here, left' = left
    PROVE  PageIInv'
<1>1. PageTypeOK /\ PageInv
    BY DEF PageIInv
<1>2. /\ Shown \in Seq(Message) /\ Sound(Shown)
      /\ Under # {} => \E c \in Under :
             /\ Under = {c} /\ Serving(c)
             /\ Awaits(Shown, c) \/ Answered(Shown, c)
             /\ ~turn[c].created => Awaits(Shown, c)
    BY <1>1, ShownIs
<1>3. \A t \in 1..Turns : turn[t].got \in Nat
    BY <1>1 DEF PageTypeOK, TurnState
<1>4. Sound(messages)'
    BY <1>1, <1>2, <1>3, SoundStays
<1>5. Under' = Under /\ StillStreaming' = streaming'
    <2>1. Under' = Under
        BY DEF Under, Busy
    <2>2. pending' = <<>> /\ DOMAIN <<>> = {}
        OBVIOUS
    <2>3. streaming' \in BOOLEAN
        BY DEF PageTypeOK
    <2> QED
        BY <2>1, <2>2, <2>3 DEF StillStreaming
<1>6. Under # {} <=> StillStreaming
    BY <1>1 DEF PageInv, StillStreaming
<1>7. ASSUME Under # {}
      PROVE  \E c \in 1..Turns : Serving(c)'
    <2>1. PICK c \in Under : /\ Under = {c} /\ Serving(c)
                             /\ Awaits(Shown, c) \/ Answered(Shown, c)
                             /\ ~turn[c].created => Awaits(Shown, c)
        BY <1>2, <1>7
    <2>2. c \in 1..Turns
        BY DEF Under, Busy
    <2>3. (Awaits(messages, c) \/ Answered(messages, c))' /\ (~turn[c].created => Awaits(messages, c)')
        BY <2>1 DEF Awaits, Answered, User
    <2>4. Serving(c)'
        BY <1>5, <2>1, <2>3 DEF Serving
    <2> QED
        BY <2>2, <2>4
<1>8. \A t \in 1..Turns : /\ turn'[t].frame # None => Reading(t)' /\ turn'[t].frame \in 1..turn'[t].got
                          /\ turn'[t].created => turn'[t].got >= 1
    BY <1>1 DEF PageInv, Reading
<1>9. (streaming' => here') /\ \A t \in left' : turn'[t].stage # "unsent"
    BY <1>1 DEF PageInv, StillStreaming
<1> QED
    BY <1>4, <1>5, <1>6, <1>7, <1>8, <1>9 DEF PageIInv, PageInv

\* The flag of the next render.
LEMMA StillIsBoolean == ASSUME PageTypeOK PROVE StillStreaming \in BOOLEAN
BY DEF PageTypeOK, StillStreaming

\* React renders, as it does when the "Chat" link is pressed.
LEMMA RenderKeeps == ASSUME PageIInv, Render PROVE PageIInv'
<1>1. PageTypeOK'
    BY ShownIs, StillIsBoolean DEF Render, PageIInv, PageTypeOK
<1> QED
    BY <1>1, FlushKeeps DEF Render

LEMMA ChatLinkKeeps == ASSUME PageIInv, ChatLink PROVE PageIInv'
<1>1. PageTypeOK'
    BY ShownIs, StillIsBoolean DEF ChatLink, PageIInv, PageTypeOK
<1> QED
    BY <1>1, FlushKeeps DEF ChatLink

\* The user stops the answer.
LEMMA StopKeeps == ASSUME PageIInv, Stop PROVE PageIInv'
<1>1. Under \subseteq 1..Turns
    BY DEF Under, Busy
<1>2. PageTypeOK'
    BY <1>1, ShownIs, StillIsBoolean DEF Stop, PageIInv, PageTypeOK
<1> QED
    BY <1>2, FlushKeeps DEF Stop

\* The chat is cleared: a turn under way goes on and awaits an empty list.
LEMMA NewChatKeeps == ASSUME PageIInv, NewChat PROVE PageIInv'
<1>1. PageTypeOK /\ PageInv
    BY DEF PageIInv
<1>2. Under \subseteq 1..Turns
    BY DEF Under, Busy
<1>3. PageTypeOK'
    <2>1. messages' \in Seq(Message) /\ pending' \in Seq(PendingUpdate)
        BY DEF NewChat
    <2>2. turn' \in [1..Turns -> TurnState] /\ streaming' \in BOOLEAN
        BY <1>1, StillIsBoolean DEF NewChat, PageTypeOK
    <2>3. conv' \in (1..Turns) \cup {None} /\ aborted' \subseteq 1..Turns /\ cleared' \subseteq 1..Turns
        BY <1>1, <1>2 DEF NewChat, PageTypeOK
    <2>4. error' \in BOOLEAN /\ here' \in BOOLEAN /\ left' \subseteq 1..Turns
        BY <1>1 DEF NewChat, PageTypeOK
    <2> QED
        BY <2>1, <2>2, <2>3, <2>4 DEF PageTypeOK
<1>4. messages' = <<>> /\ pending' = <<>> /\ streaming' = StillStreaming /\ turn' = turn
      /\ cleared' = cleared \cup Under /\ here' = here /\ left' = left
    BY DEF NewChat
<1>5. Under' = Under /\ StillStreaming' = streaming'
    <2>1. Under' = Under
        BY <1>4 DEF Under, Busy
    <2>2. pending' = <<>> /\ DOMAIN <<>> = {}
        BY <1>4
    <2>3. streaming' \in BOOLEAN
        BY <1>3 DEF PageTypeOK
    <2> QED
        BY <2>1, <2>2, <2>3 DEF StillStreaming
<1>6. Under # {} <=> StillStreaming
    BY <1>1 DEF PageInv, StillStreaming
<1>7. ASSUME Under # {}
      PROVE  \E c \in 1..Turns : Serving(c)'
    <2>1. PICK c \in Under : Under = {c}
        BY <1>1, <1>7, ShownIs
    <2>2. c \in 1..Turns /\ c \in cleared'
        BY <1>4 DEF Under, Busy
    <2>3. Awaits(messages, c)'
        BY <1>4, <2>2 DEF Awaits
    <2>4. Serving(c)'
        BY <1>4, <1>5, <2>1, <2>3 DEF Serving
    <2> QED
        BY <2>2, <2>4
<1>8. \A t \in 1..Turns : /\ turn'[t].frame # None => Reading(t)' /\ turn'[t].frame \in 1..turn'[t].got
                          /\ turn'[t].created => turn'[t].got >= 1
    BY <1>1, <1>4 DEF PageInv, Reading
<1>9. Sound(messages)'
    BY <1>4 DEF Sound
<1>10. (streaming' => here') /\ \A t \in left' : turn'[t].stage # "unsent"
    BY <1>1, <1>4 DEF PageInv, StillStreaming
<1> QED
    BY <1>3, <1>4, <1>5, <1>6, <1>7, <1>8, <1>9, <1>10 DEF PageIInv, PageInv

\* The page is loaded anew: no turn is under way.
LEMMA OpenKeeps == ASSUME PageIInv, OpenConversation PROVE PageIInv'
<1>1. PageTypeOK /\ PageInv
    BY DEF PageIInv
<1>2. \A t \in 1..Turns : turn[t] \in TurnState
    BY <1>1 DEF PageTypeOK
<1>3. \A t \in 1..Turns : /\ Over(t) \in TurnState /\ Over(t).stage = "over" /\ Over(t).frame = None
                          /\ Over(t).created = FALSE
    BY <1>2 DEF Over, Unsent, TurnState
<1>4. /\ messages' = <<>> /\ pending' = <<>> /\ streaming' = FALSE /\ error' = FALSE
      /\ turn' = [t \in 1..Turns |-> IF Busy(t) THEN Over(t) ELSE turn[t]]
      /\ conv' \in 1..Turns /\ UNCHANGED <<aborted, cleared, here, left>>
    BY DEF OpenConversation
<1>5. PageTypeOK'
    <2>1. messages' \in Seq(Message) /\ pending' \in Seq(PendingUpdate)
        BY <1>4
    <2>2. turn' \in [1..Turns -> TurnState]
        BY <1>2, <1>3, <1>4
    <2>3. conv' \in (1..Turns) \cup {None} /\ aborted' \subseteq 1..Turns /\ cleared' \subseteq 1..Turns
        BY <1>1, <1>4 DEF PageTypeOK
    <2>4. streaming' \in BOOLEAN /\ error' \in BOOLEAN /\ here' \in BOOLEAN /\ left' \subseteq 1..Turns
        BY <1>1, <1>4 DEF PageTypeOK
    <2> QED
        BY <2>1, <2>2, <2>3, <2>4 DEF PageTypeOK
<1>6. \A t \in 1..Turns : turn'[t].stage \notin {"asked", "reading"}
    BY <1>3, <1>4 DEF Busy
<1>7. Under' = {}
    BY <1>6 DEF Under, Busy
<1>8. \A t \in 1..Turns : /\ turn'[t].frame # None => Reading(t)' /\ turn'[t].frame \in 1..turn'[t].got
                          /\ turn'[t].created => turn'[t].got >= 1
    <2> SUFFICES ASSUME NEW t \in 1..Turns
                 PROVE  /\ turn'[t].frame # None => turn'[t].stage = "reading" /\ turn'[t].frame \in 1..turn'[t].got
                        /\ turn'[t].created => turn'[t].got >= 1
        BY DEF Reading
    <2>1. CASE Busy(t)
        BY <1>3, <1>4, <2>1
    <2>2. CASE ~Busy(t)
        BY <1>1, <1>4, <2>2 DEF PageInv, Reading
    <2> QED
        BY <2>1, <2>2
<1>9. Sound(messages)'
    BY <1>4 DEF Sound
<1>10. \A t \in left' : turn'[t].stage # "unsent"
    <2> SUFFICES ASSUME NEW t \in left PROVE turn'[t].stage # "unsent"
        BY <1>4
    <2>1. t \in 1..Turns /\ turn[t].stage # "unsent"
        BY <1>1 DEF PageTypeOK, PageInv
    <2> QED
        BY <1>3, <1>4, <2>1
<1> QED
    BY <1>4, <1>5, <1>7, <1>8, <1>9, <1>10 DEF PageIInv, PageInv, StillStreaming

\* The page is left: what was under way is under way elsewhere.
LEMMA LeaveKeeps == ASSUME PageIInv, Leave PROVE PageIInv'
<1>1. PageTypeOK /\ PageInv
    BY DEF PageIInv
<1>2. /\ messages' = <<>> /\ pending' = <<>> /\ streaming' = FALSE /\ error' = FALSE /\ conv' = None
      /\ here' = FALSE /\ left' = left \cup Under /\ UNCHANGED <<turn, aborted, cleared>>
    BY DEF Leave
<1>3. PageTypeOK'
    <2>1. messages' \in Seq(Message) /\ pending' \in Seq(PendingUpdate)
        BY <1>2
    <2>2. left' \subseteq 1..Turns
        BY <1>1, <1>2 DEF PageTypeOK, Under
    <2>3. turn' \in [1..Turns -> TurnState] /\ aborted' \subseteq 1..Turns /\ cleared' \subseteq 1..Turns
        BY <1>1, <1>2 DEF PageTypeOK
    <2> QED
        BY <1>2, <2>1, <2>2, <2>3 DEF PageTypeOK
<1>4. Under' = {}
    BY <1>2 DEF Under, Busy
<1>5. \A t \in left' : turn'[t].stage # "unsent"
    BY <1>1, <1>2 DEF PageInv, Under, Busy
<1>6. Sound(messages)'
    BY <1>2 DEF Sound
<1>7. \A t \in 1..Turns : /\ turn'[t].frame # None => Reading(t)' /\ turn'[t].frame \in 1..turn'[t].got
                          /\ turn'[t].created => turn'[t].got >= 1
    BY <1>1, <1>2 DEF PageInv, Reading
<1> QED
    BY <1>2, <1>3, <1>4, <1>5, <1>6, <1>7 DEF PageIInv, PageInv

\* A step that changes neither the turns nor what is shown.
LEMMA ShownAsBefore ==
    ASSUME PageIInv, PageTypeOK', UNCHANGED <<messages, streaming, pending, turn, cleared, left>>, here => here'
    PROVE  PageIInv'
<1>1. Under' = Under /\ (StillStreaming' <=> StillStreaming)
    BY DEF Under, Busy, StillStreaming
<1>2. \A c \in 1..Turns : Serving(c) => Serving(c)'
    BY <1>1 DEF Serving, Awaits, Answered, User
<1>3. Sound(messages) => Sound(messages)'
    BY DEF Sound, User
<1> QED
    BY <1>1, <1>2, <1>3 DEF PageIInv, PageInv, Reading

\* The user comes back.
LEMMA ReturnKeeps == ASSUME PageIInv, Return PROVE PageIInv'
<1>1. PageTypeOK'
    BY DEF PageIInv, PageTypeOK, Return
<1> QED
    BY <1>1, ShownAsBefore DEF Return

\* A question is sent when nothing is under way and nothing waits, whatever the
\* list it is added to.
LEMMA AskKeeps ==
    ASSUME PageIInv, NEW list \in Seq(Message), Sound(list), Ask(list)
    PROVE  PageIInv'
<1>1. PageTypeOK /\ PageInv
    BY DEF PageIInv
<1>2. PICK t \in 1..Turns :
         /\ turn[t] = Unsent
         /\ turn' = [turn EXCEPT ![t] = [Unsent EXCEPT !.stage = "asked", !.conv = conv]]
         /\ messages' = Append(list, User(t))
    BY DEF Ask
<1>3. /\ here /\ ~streaming /\ streaming' = TRUE /\ error' = FALSE /\ pending' = <<>>
      /\ UNCHANGED <<conv, aborted, cleared, here, left>>
    BY DEF Ask
<1>4. pending = <<>> /\ Under = {}
    BY <1>1, <1>3 DEF PageInv
<1>5. \A s \in 1..Turns : turn[s] \in TurnState /\ turn[s].got \in Nat
    BY <1>1 DEF PageTypeOK, TurnState
<1>6. User(t) \in Message /\ User(t).role = "user" /\ User(t).turn = t
    BY MessagesAre
<1> DEFINE asked == [Unsent EXCEPT !.stage = "asked", !.conv = conv]
<1>7. /\ asked \in TurnState /\ asked.stage = "asked" /\ asked.got = 0 /\ asked.created = FALSE
      /\ asked.frame = None /\ Unsent.got = 0
    BY <1>1 DEF Unsent, TurnState, PageTypeOK
<1> HIDE DEF asked
<1>8. turn' \in [1..Turns -> TurnState] /\ turn'[t] = asked /\ \A s \in 1..Turns : s # t => turn'[s] = turn[s]
    BY <1>1, <1>2, <1>7 DEF PageTypeOK, asked
<1>9. Len(list) \in Nat /\ messages' \in Seq(Message) /\ Len(messages') = Len(list) + 1
      /\ messages'[Len(list) + 1] = User(t) /\ \A i \in 1..Len(list) : messages'[i] = list[i]
    BY <1>2, <1>6
<1>10. PageTypeOK'
    <2>1. pending' \in Seq(PendingUpdate)
        BY <1>3
    <2>2. conv' \in (1..Turns) \cup {None} /\ aborted' \subseteq 1..Turns /\ cleared' \subseteq 1..Turns
        BY <1>1, <1>3 DEF PageTypeOK
    <2>3. streaming' \in BOOLEAN /\ error' \in BOOLEAN /\ here' \in BOOLEAN /\ left' \subseteq 1..Turns
        BY <1>1, <1>3 DEF PageTypeOK
    <2> QED
        BY <1>8, <1>9, <2>1, <2>2, <2>3 DEF PageTypeOK
<1>11. Under' = {t}
    <2>1. t \notin left
        BY <1>1, <1>2 DEF PageInv, Unsent
    <2>2. \A s \in (1..Turns) \ left : turn'[s].stage \in {"asked", "reading"} <=> s = t
        BY <1>4, <1>7, <1>8 DEF Under, Busy
    <2> QED
        BY <1>3, <2>1, <2>2 DEF Under, Busy
<1>12. StillStreaming'
    <2>1. DOMAIN <<>> = {}
        OBVIOUS
    <2> QED
        BY <1>3, <2>1 DEF StillStreaming
<1>13. Sound(messages)'
    <2> SUFFICES ASSUME NEW i \in 1..(Len(list) + 1), messages'[i].role = "assistant"
                 PROVE  /\ IF i = 1 THEN messages'[i].turn \in cleared' ELSE messages'[i - 1] = User(messages'[i].turn)
                        /\ messages'[i].text[1] = messages'[i].turn
                        /\ messages'[i].text[2] \in 1..turn'[messages'[i].turn].got
                        /\ messages'[i].cites \in {None, messages'[i].turn}
        BY <1>9 DEF Sound, User
    <2>1. i \in 1..Len(list)
        BY <1>6, <1>9
    <2>2. messages'[i] = list[i] /\ (i # 1 => messages'[i - 1] = list[i - 1]) /\ list[i] \in Message
        BY <1>9, <2>1
    <2>3. /\ IF i = 1 THEN list[i].turn \in cleared ELSE list[i - 1] = User(list[i].turn)
          /\ list[i].text[1] = list[i].turn /\ list[i].text[2] \in 1..turn[list[i].turn].got
          /\ list[i].cites \in {None, list[i].turn}
        BY <2>1, <2>2 DEF Sound
    <2>4. list[i].turn \in 1..Turns
        BY <2>2 DEF Message
    <2>5. turn'[list[i].turn].got = turn[list[i].turn].got
        BY <1>2, <1>7, <1>8, <2>4
    <2> QED
        BY <1>3, <2>2, <2>3, <2>5
<1>14. Serving(t)'
    <2>1. Awaits(messages, t)'
        <3>1. messages' # <<>>
            BY <1>9
        <3>2. messages'[Len(messages')] = User(t)
            BY <1>9
        <3> QED
            BY <3>1, <3>2 DEF Awaits, User
    <2> QED
        BY <1>3, <1>11, <2>1 DEF Serving
<1>15. \A s \in 1..Turns : /\ turn'[s].frame # None => Reading(s)' /\ turn'[s].frame \in 1..turn'[s].got
                           /\ turn'[s].created => turn'[s].got >= 1
    <2> SUFFICES ASSUME NEW s \in 1..Turns
                 PROVE  /\ turn'[s].frame # None => turn'[s].stage = "reading" /\ turn'[s].frame \in 1..turn'[s].got
                        /\ turn'[s].created => turn'[s].got >= 1
        BY DEF Reading
    <2>1. CASE s = t
        BY <1>7, <1>8, <2>1
    <2>2. CASE s # t
        BY <1>1, <1>8, <2>2 DEF PageInv, Reading
    <2> QED
        BY <2>1, <2>2
<1>16. \A s \in left' : turn'[s].stage # "unsent"
    <2> SUFFICES ASSUME NEW s \in left PROVE turn'[s].stage # "unsent"
        BY <1>3
    <2>1. s \in 1..Turns /\ turn[s].stage # "unsent"
        BY <1>1 DEF PageTypeOK, PageInv
    <2> QED
        BY <1>7, <1>8, <2>1
<1> QED
    BY <1>3, <1>10, <1>11, <1>12, <1>13, <1>14, <1>15, <1>16 DEF PageIInv, PageInv

\* A question, or the last one again.
LEMMA QuestionKeeps == ASSUME PageIInv, HandleSend \/ RetryLast PROVE PageIInv'
<1>1. Shown \in Seq(Message) /\ Sound(Shown)
    BY ShownIs DEF PageIInv
<1>2. WithoutAnswers(Shown) \in Seq(Message) /\ Sound(WithoutAnswers(Shown))
    BY <1>1, WithoutAnswersIs DEF Sound
<1>3. CASE HandleSend
    BY <1>1, <1>3, AskKeeps DEF HandleSend
<1>4. CASE RetryLast
    BY <1>2, <1>4, AskKeeps DEF RetryLast
<1> QED
    BY <1>3, <1>4

\* While a turn is under way the page is busy with it and nothing waits that
\* ends it.
LEMMA UnderIs ==
    ASSUME PageTypeOK, PageInv, NEW t \in Under
    PROVE  /\ Under = {t} /\ Serving(t) /\ streaming = TRUE /\ here
           /\ \A i \in 1..Len(pending) : pending[i].kind \notin {"idle", "drop"}
<1>1. streaming /\ StillStreaming /\ streaming \in BOOLEAN /\ here
    BY DEF PageInv, PageTypeOK
<1>2. PICK c \in Under : Under = {c} /\ Serving(c)
    BY ShownIs
<1>3. \A i \in 1..Len(pending) : pending[i].kind # "idle"
    <2>1. DOMAIN pending = 1..Len(pending)
        BY DEF PageTypeOK
    <2> QED
        BY <1>1, <2>1 DEF StillStreaming
<1>4. \A i \in 1..Len(pending) : pending[i].kind # "drop"
    <2> SUFFICES ASSUME NEW i \in 1..Len(pending), pending[i].kind = "drop" PROVE FALSE
        OBVIOUS
    <2>1. Len(pending) = 2 /\ pending[2].kind = "idle"
        BY <1>2 DEF Serving
    <2> QED
        BY <1>3, <2>1
<1> QED
    BY <1>1, <1>2, <1>3, <1>4

\* What turn t may become and add to the queue in a step of its stream.
Fits(t, s, updates) ==
    /\ s \in TurnState /\ updates \in Seq(PendingUpdate)
    /\ s.stage \in {"reading", "over"} /\ s.got >= turn[t].got /\ (s.created => s.got >= 1)
    /\ s.frame # None => s.stage = "reading" /\ s.frame \in 1..s.got
    /\ s.stage = "reading" <=> \A i \in 1..Len(updates) : updates[i].kind # "idle"
    /\ s.stage = "reading" => (s.created <=> turn[t].created \/ \E i \in 1..Len(updates) : updates[i].kind = "create")
    /\ \A i \in 1..Len(updates) :
          /\ updates[i].turn = t
          /\ updates[i].kind = "content" => updates[i].n \in 1..s.got
          /\ updates[i].kind = "create" => i = 1 /\ Len(updates) = 1 /\ ~turn[t].created /\ s.created
          /\ updates[i].kind = "drop" => /\ i = 1 /\ Len(updates) = 2 /\ updates[2].kind = "idle"
                                         /\ turn[t].stage = "asked"

\* A step of the stream of the page that is mounted keeps the invariant if it
\* fits.
LEMMA OwnStep ==
    ASSUME PageIInv, NEW t \in Under, NEW s, NEW updates, Fits(t, s, updates),
           Set(t, s), Queue(t, updates), error' \in BOOLEAN, conv' \in (1..Turns) \cup {None},
           here' \in BOOLEAN, here => here'
    PROVE  PageIInv'
<1>0. /\ s \in TurnState /\ updates \in Seq(PendingUpdate)
      /\ s.stage \in {"reading", "over"} /\ s.got >= turn[t].got /\ (s.created => s.got >= 1)
      /\ s.frame # None => s.stage = "reading" /\ s.frame \in 1..s.got
      /\ s.stage = "reading" <=> \A i \in 1..Len(updates) : updates[i].kind # "idle"
      /\ s.stage = "reading" => (s.created <=> turn[t].created \/ \E i \in 1..Len(updates) : updates[i].kind = "create")
      /\ \A i \in 1..Len(updates) :
            /\ updates[i].turn = t
            /\ updates[i].kind = "content" => updates[i].n \in 1..s.got
            /\ updates[i].kind = "create" => i = 1 /\ Len(updates) = 1 /\ ~turn[t].created /\ s.created
            /\ updates[i].kind = "drop" => /\ i = 1 /\ Len(updates) = 2 /\ updates[2].kind = "idle"
                                           /\ turn[t].stage = "asked"
    BY DEF Fits
<1>1. PageTypeOK /\ PageInv
    BY DEF PageIInv
<1>2. /\ Under = {t} /\ Serving(t) /\ streaming = TRUE /\ here
      /\ \A i \in 1..Len(pending) : pending[i].kind \notin {"idle", "drop"}
    BY <1>0, <1>1, UnderIs
<1>3. t \in (1..Turns) \ left /\ turn[t].stage \in {"asked", "reading"}
    BY DEF Under, Busy
<1>4. pending' = pending \o updates /\ UNCHANGED <<messages, streaming, aborted, cleared, left>>
    BY <1>3 DEF Queue
<1>5. turn' \in [1..Turns -> TurnState] /\ turn'[t] = s /\ \A u \in 1..Turns : u # t => turn'[u] = turn[u]
    BY <1>0, <1>1, <1>3 DEF Set, PageTypeOK
<1> DEFINE N == Len(pending)
           M == Len(updates)
<1>6. /\ N \in Nat /\ M \in Nat /\ pending' \in Seq(PendingUpdate) /\ Len(pending') = N + M
      /\ \A i \in 1..N : pending'[i] = pending[i]
      /\ \A i \in 1..M : pending'[N + i] = updates[i]
    <2>1. pending \in Seq(PendingUpdate)
        BY <1>0, <1>1 DEF PageTypeOK
    <2> HIDE DEF PendingUpdate
    <2> QED
        BY <1>0, <1>4, <2>1
<1>7. PageTypeOK'
    <2>1. conv' \in (1..Turns) \cup {None} /\ aborted' \subseteq 1..Turns /\ cleared' \subseteq 1..Turns
        BY <1>0, <1>1, <1>4 DEF PageTypeOK
    <2>2. /\ streaming' \in BOOLEAN /\ error' \in BOOLEAN /\ messages' \in Seq(Message)
          /\ here' \in BOOLEAN /\ left' \subseteq 1..Turns
        BY <1>0, <1>1, <1>4 DEF PageTypeOK
    <2> QED
        BY <1>0, <1>5, <1>6, <2>1, <2>2 DEF PageTypeOK
<1>8. \A u \in 1..Turns : turn'[u].got >= turn[u].got
    <2> SUFFICES ASSUME NEW u \in 1..Turns PROVE turn'[u].got >= turn[u].got
        OBVIOUS
    <2>1. turn[u].got \in Nat
        BY <1>0, <1>1 DEF PageTypeOK, TurnState
    <2> QED
        BY <1>0, <1>5, <2>1
<1>9. Sound(messages)'
    <2>1. messages \in Seq(Message) /\ Sound(messages)
        BY <1>0, <1>1 DEF PageTypeOK, PageInv
    <2> QED
        BY <1>0, <1>1, <1>4, <1>7, <1>8, <2>1, SoundStays
<1>10. Under' = IF s.stage = "reading" THEN {t} ELSE {}
    <2>1. \A u \in (1..Turns) \ left : u # t => turn'[u].stage \notin {"asked", "reading"}
        BY <1>0, <1>2, <1>5 DEF Under, Busy
    <2>2. turn'[t].stage \in {"asked", "reading"} <=> s.stage = "reading"
        BY <1>0, <1>3, <1>5
    <2> QED
        BY <1>0, <1>3, <1>4, <2>1, <2>2 DEF Under, Busy
<1>11. StillStreaming' <=> s.stage = "reading"
    <2>1. StillStreaming' <=> \A i \in 1..(N + M) : pending'[i].kind # "idle"
        <3>1. DOMAIN pending' = 1..(N + M)
            BY <1>0, <1>6
        <3> QED
            BY <1>0, <1>2, <1>4, <3>1 DEF StillStreaming
    <2>2. (\A i \in 1..(N + M) : pending'[i].kind # "idle") <=> \A i \in 1..M : updates[i].kind # "idle"
        <3>1. ASSUME NEW i \in 1..M, updates[i].kind = "idle" PROVE N + i \in 1..(N + M) /\ pending'[N + i].kind = "idle"
            BY <1>0, <1>6, <3>1
        <3>2. ASSUME NEW i \in 1..(N + M), pending'[i].kind = "idle" PROVE \E j \in 1..M : updates[j].kind = "idle"
            <4>1. i \notin 1..N
                BY <1>0, <1>2, <1>6, <3>2
            <4>2. i - N \in 1..M /\ N + (i - N) = i
                BY <1>0, <1>6, <4>1
            <4>3. pending'[i] = updates[i - N]
                BY <1>0, <1>6, <4>2
            <4> QED
                BY <1>0, <3>2, <4>2, <4>3
        <3> HIDE DEF N, M
        <3> QED
            BY <1>0, <3>1, <3>2
    <2> QED
        BY <1>0, <2>1, <2>2
<1>12. \A u \in 1..Turns : /\ turn'[u].frame # None => Reading(u)' /\ turn'[u].frame \in 1..turn'[u].got
                           /\ turn'[u].created => turn'[u].got >= 1
    <2> SUFFICES ASSUME NEW u \in 1..Turns
                 PROVE  /\ turn'[u].frame # None => turn'[u].stage = "reading" /\ turn'[u].frame \in 1..turn'[u].got
                        /\ turn'[u].created => turn'[u].got >= 1
        BY DEF Reading
    <2>1. CASE u = t
        BY <1>0, <1>5, <2>1
    <2>2. CASE u # t
        BY <1>0, <1>1, <1>5, <2>2 DEF PageInv, Reading
    <2> QED
        BY <1>0, <2>1, <2>2
<1>13. Serving(t)'
    <2>1. Awaits(messages, t)' <=> Awaits(messages, t)
        BY <1>0, <1>4 DEF Awaits, User
    <2>2. Answered(messages, t)' <=> Answered(messages, t)
        BY <1>0, <1>4 DEF Answered
    <2>3. Awaits(messages, t) \/ Answered(messages, t)
        BY <1>0, <1>2 DEF Serving
    <2>4. ~turn[t].created => Awaits(messages, t)
        BY <1>0, <1>2 DEF Serving
    <2>5. turn[t].stage = "asked" => N = 0
        <3>1. Len(<<>>) = 0
            OBVIOUS
        <3> QED
            BY <1>0, <1>2, <3>1 DEF Serving
    <2>6. \A i \in 1..N :
             /\ pending[i].turn = t
             /\ pending[i].kind = "content" => pending[i].n \in 1..turn[t].got
             /\ pending[i].kind = "create" =>
                   /\ Awaits(messages, t) /\ turn[t].got >= 1 /\ turn[t].created
                   /\ \A j \in 1..N : pending[j].kind = "create" => j = i
        BY <1>0, <1>2 DEF Serving
    <2>7. turn[t].got \in Nat /\ s.got \in Nat
        BY <1>0, <1>1, <1>3 DEF PageTypeOK, TurnState
    <2>8. ASSUME NEW i \in 1..(N + M)
          PROVE  /\ pending'[i].turn = t
                 /\ pending'[i].kind = "content" => pending'[i].n \in 1..s.got
                 /\ pending'[i].kind = "create" =>
                       /\ Awaits(messages, t) /\ s.got >= 1
                       /\ s.stage = "reading" => s.created
                       /\ \A j \in 1..(N + M) : pending'[j].kind = "create" => j = i
                 /\ pending'[i].kind = "drop" => i = 1 /\ N + M = 2 /\ pending'[2].kind = "idle"
        <3>1. CASE i \in 1..N
            <4>1. pending'[i] = pending[i] /\ pending[i].kind # "drop"
                BY <1>0, <1>2, <1>6, <3>1
            <4>2. ASSUME pending[i].kind = "create", NEW j \in 1..(N + M), pending'[j].kind = "create"
                  PROVE  j = i
                <5>1. CASE j \in 1..N
                    BY <1>0, <1>6, <2>6, <3>1, <4>2, <5>1
                <5>2. CASE j \notin 1..N
                    <6>1. j - N \in 1..M /\ N + (j - N) = j
                        BY <1>0, <1>6, <5>2
                    <6>2. pending'[j] = updates[j - N]
                        BY <1>0, <1>6, <6>1
                    <6> QED
                        BY <1>0, <2>6, <3>1, <4>2, <6>1, <6>2
                <5> QED
                    BY <1>0, <5>1, <5>2
            <4> HIDE DEF N, M
            <4> QED
                BY <1>0, <2>6, <2>7, <3>1, <4>1, <4>2
        <3>2. CASE i \notin 1..N
            <4> DEFINE k == i - N
            <4>1. k \in 1..M /\ N + k = i
                BY <1>0, <1>6, <3>2
            <4>2. pending'[i] = updates[k]
                BY <1>0, <1>6, <4>1
            <4> HIDE DEF k
            <4>3. ASSUME updates[k].kind = "create", NEW j \in 1..(N + M), pending'[j].kind = "create"
                  PROVE  j = i
                <5>1. k = 1 /\ M = 1 /\ ~turn[t].created
                    BY <1>0, <4>1, <4>3
                <5>2. j \notin 1..N
                    BY <1>0, <1>6, <2>6, <4>3, <5>1
                <5> QED
                    BY <1>0, <1>6, <4>1, <5>1, <5>2
            <4>4. updates[k].kind = "drop" => i = 1 /\ N + M = 2 /\ pending'[2].kind = "idle"
                <5> SUFFICES ASSUME updates[k].kind = "drop" PROVE i = 1 /\ N + M = 2 /\ pending'[2].kind = "idle"
                    OBVIOUS
                <5>1. k = 1 /\ M = 2 /\ updates[2].kind = "idle" /\ turn[t].stage = "asked"
                    BY <1>0, <4>1
                <5>2. N = 0
                    BY <1>0, <2>5, <5>1
                <5> QED
                    BY <1>0, <1>6, <4>1, <5>1, <5>2
            <4>5. updates[k].turn = t /\ (updates[k].kind = "content" => updates[k].n \in 1..s.got)
                BY <1>0, <4>1
            <4>6. updates[k].kind = "create" => ~turn[t].created /\ s.created
                BY <1>0, <4>1
            <4> HIDE DEF N, M
            <4> QED
                BY <1>0, <2>4, <4>2, <4>3, <4>4, <4>5, <4>6
        <3> QED
            BY <1>0, <3>1, <3>2
    <2>9. s.stage = "reading" /\ ~s.created => Awaits(messages, t)
        BY <1>0, <2>4
    <2>10. Under' \subseteq {t} /\ (t \in Under' <=> s.stage = "reading")
        BY <1>0, <1>10
    <2> HIDE DEF N, M
    <2> QED
        BY <1>0, <1>5, <1>6, <2>1, <2>2, <2>3, <2>8, <2>9, <2>10 DEF Serving, N, M
<1>14. Under' # {} <=> s.stage = "reading"
    BY <1>0, <1>10
<1>15. \A u \in left' : turn'[u].stage # "unsent"
    <2> SUFFICES ASSUME NEW u \in left PROVE turn'[u].stage # "unsent"
        BY <1>4
    <2>1. u \in 1..Turns /\ u # t /\ turn[u].stage # "unsent"
        BY <1>1, <1>3 DEF PageTypeOK, PageInv
    <2> QED
        BY <1>5, <2>1
<1> QED
    BY <1>0, <1>2, <1>3, <1>4, <1>7, <1>9, <1>11, <1>12, <1>13, <1>14, <1>15 DEF PageIInv, PageInv

\* A step of a stream whose page was left changes nothing that is shown.
LEMMA LooseStep ==
    ASSUME PageIInv, NEW t \in left, NEW s, NEW updates, Fits(t, s, updates),
           Set(t, s), Queue(t, updates), error' \in BOOLEAN, conv' \in (1..Turns) \cup {None},
           here' \in BOOLEAN, here => here'
    PROVE  PageIInv'
<1>1. PageTypeOK /\ PageInv /\ t \in 1..Turns
    BY DEF PageIInv, PageTypeOK
<1>2. /\ s \in TurnState /\ s.stage # "asked" /\ s.got >= turn[t].got /\ (s.created => s.got >= 1)
      /\ s.frame # None => s.stage = "reading" /\ s.frame \in 1..s.got
      /\ s.stage = "reading" \/ s.stage = "over"
    BY DEF Fits
<1>3. UNCHANGED <<messages, streaming, pending, aborted, cleared, left>>
    BY DEF Queue
<1>4. turn' \in [1..Turns -> TurnState] /\ turn'[t] = s /\ \A u \in 1..Turns : u # t => turn'[u] = turn[u]
    BY <1>1, <1>2 DEF Set, PageTypeOK
<1>5. \A u \in 1..Turns : turn[u].got \in Nat /\ turn'[u].got \in Nat /\ turn'[u].got >= turn[u].got
    <2>1. \A u \in 1..Turns : turn[u].got \in Nat /\ turn'[u].got \in Nat
        BY <1>1, <1>4 DEF PageTypeOK, TurnState
    <2> QED
        BY <1>2, <1>4, <2>1
<1>6. PageTypeOK'
    <2>1. messages' \in Seq(Message) /\ pending' \in Seq(PendingUpdate) /\ streaming' \in BOOLEAN
        BY <1>1, <1>3 DEF PageTypeOK
    <2>2. aborted' \subseteq 1..Turns /\ cleared' \subseteq 1..Turns /\ left' \subseteq 1..Turns
        BY <1>1, <1>3 DEF PageTypeOK
    <2> QED
        BY <1>4, <2>1, <2>2 DEF PageTypeOK
<1>7. Sound(messages)'
    <2>1. messages \in Seq(Message) /\ Sound(messages)
        BY <1>1 DEF PageTypeOK, PageInv
    <2> QED
        BY <1>1, <1>3, <1>5, <1>6, <2>1, SoundStays
<1>8. Under' = Under /\ (StillStreaming' <=> StillStreaming)
    BY <1>3, <1>4 DEF Under, Busy, StillStreaming
<1>9. ASSUME NEW c \in 1..Turns, Serving(c)
      PROVE  Serving(c)'
    <2>1. Awaits(messages, c)' <=> Awaits(messages, c)
        BY <1>3 DEF Awaits, User
    <2>2. Answered(messages, c)' <=> Answered(messages, c)
        BY <1>3 DEF Answered
    <2>3. turn'[c].stage = "asked" => turn[c].stage = "asked"
        BY <1>2, <1>4
    <2>4. c \in Under => turn'[c] = turn[c]
        BY <1>4 DEF Under
    <2>5. \A i \in 1..Len(pending) :
             /\ pending[i].turn = c
             /\ pending[i].kind = "content" => pending[i].n \in 1..turn'[c].got
             /\ pending[i].kind = "create" =>
                   /\ Awaits(messages, c) /\ turn'[c].got >= 1
                   /\ c \in Under => turn'[c].created
                   /\ \A j \in 1..Len(pending) : pending[j].kind = "create" => j = i
             /\ pending[i].kind = "drop" => i = 1 /\ Len(pending) = 2 /\ pending[2].kind = "idle"
        BY <1>5, <1>9, <2>4 DEF Serving
    <2> QED
        BY <1>3, <1>8, <1>9, <2>1, <2>2, <2>3, <2>4, <2>5 DEF Serving
<1>10. \A u \in 1..Turns : /\ turn'[u].frame # None => Reading(u)' /\ turn'[u].frame \in 1..turn'[u].got
                           /\ turn'[u].created => turn'[u].got >= 1
    <2> SUFFICES ASSUME NEW u \in 1..Turns
                 PROVE  /\ turn'[u].frame # None => turn'[u].stage = "reading" /\ turn'[u].frame \in 1..turn'[u].got
                        /\ turn'[u].created => turn'[u].got >= 1
        BY DEF Reading
    <2>1. CASE u = t
        BY <1>2, <1>4, <2>1
    <2>2. CASE u # t
        BY <1>1, <1>4, <2>2 DEF PageInv, Reading
    <2> QED
        BY <2>1, <2>2
<1>11. \A u \in left' : turn'[u].stage # "unsent"
    <2> SUFFICES ASSUME NEW u \in left PROVE turn'[u].stage # "unsent"
        BY <1>3
    <2>1. u \in 1..Turns /\ turn[u].stage # "unsent"
        BY <1>1 DEF PageTypeOK, PageInv
    <2> QED
        BY <1>2, <1>4, <2>1
<1> QED
    BY <1>1, <1>3, <1>6, <1>7, <1>8, <1>9, <1>10, <1>11 DEF PageIInv, PageInv

\* A step of any stream.
LEMMA StreamStep ==
    ASSUME PageIInv, NEW t \in 1..Turns, Busy(t), NEW s, NEW updates, Fits(t, s, updates),
           Set(t, s), Queue(t, updates), error' \in BOOLEAN, conv' \in (1..Turns) \cup {None},
           here' \in BOOLEAN, here => here'
    PROVE  PageIInv'
<1>1. t \in left \/ t \in Under
    BY DEF Under
<1> QED
    BY <1>1, OwnStep, LooseStep

\* The state of a turn that is under way.
LEMMA TurnIs ==
    ASSUME PageTypeOK, PageInv, NEW t \in 1..Turns, Busy(t)
    PROVE  /\ turn[t] \in TurnState /\ turn[t].got \in Nat
           /\ turn[t].stage \in {"asked", "reading"}
           /\ turn[t].created => turn[t].got >= 1
           /\ turn[t].frame # None => turn[t].stage = "reading" /\ turn[t].frame \in 1..turn[t].got
           /\ Over(t) \in TurnState /\ Over(t).stage = "over" /\ Over(t).got = turn[t].got
           /\ Over(t).created = FALSE /\ Over(t).frame = None
<1>1. turn[t].stage \in {"asked", "reading"}
    BY DEF Busy
<1>2. turn[t] \in TurnState
    BY <1>1 DEF PageTypeOK
<1>3. turn[t].got \in Nat
    BY <1>2 DEF TurnState
<1>4. /\ Over(t) \in TurnState /\ Over(t).stage = "over" /\ Over(t).got = turn[t].got
      /\ Over(t).created = FALSE /\ Over(t).frame = None
    BY <1>2 DEF Over, Unsent, TurnState
<1> QED
    BY <1>1, <1>2, <1>3, <1>4 DEF PageInv, Reading

\* What a handler queues.
LEMMA UpdateIs ==
    ASSUME PageTypeOK, NEW t \in 1..Turns, NEW kind \in {"create", "content", "cite", "drop", "idle"}
    PROVE  /\ Update(kind, t) \in PendingUpdate
           /\ Update(kind, t).kind = kind /\ Update(kind, t).turn = t /\ Update(kind, t).n = turn[t].got
<1>1. turn[t].got \in Nat
    BY DEF PageTypeOK, TurnState
<1> QED
    BY <1>1 DEF Update, PendingUpdate

\* Lists of one and of two.
LEMMA Singleton ==
    ASSUME NEW S, NEW u \in S
    PROVE  <<u>> \in Seq(S) /\ Len(<<u>>) = 1 /\ \A i \in 1..Len(<<u>>) : i = 1 /\ <<u>>[i] = u
OBVIOUS

LEMMA Pair ==
    ASSUME NEW S, NEW u \in S, NEW v \in S
    PROVE  /\ <<u, v>> \in Seq(S) /\ Len(<<u, v>>) = 2 /\ <<u, v>>[1] = u /\ <<u, v>>[2] = v
           /\ \A i \in 1..2 : i = 1 \/ i = 2
OBVIOUS

\* A step that queues nothing,
LEMMA FitsNone ==
    ASSUME NEW t, NEW s \in TurnState, s.stage = "reading", s.got >= turn[t].got, s.created => s.got >= 1,
           s.frame # None => s.frame \in 1..s.got, s.created = turn[t].created, turn[t].created \in BOOLEAN
    PROVE  Fits(t, s, <<>>)
<1>1. <<>> \in Seq(PendingUpdate) /\ Len(<<>>) = 0 /\ \A i \in 1..Len(<<>>) : FALSE
    OBVIOUS
<1> QED
    BY <1>1 DEF Fits

\* one that queues an update,
LEMMA FitsOne ==
    ASSUME NEW t, NEW s \in TurnState, NEW u \in PendingUpdate, u.turn = t, u.kind # "drop",
           s.stage \in {"reading", "over"}, s.stage = "over" <=> u.kind = "idle",
           s.got >= turn[t].got, s.created => s.got >= 1,
           s.frame # None => s.stage = "reading" /\ s.frame \in 1..s.got,
           u.kind = "content" => u.n \in 1..s.got,
           u.kind = "create" => ~turn[t].created /\ s.created,
           s.stage = "reading" /\ u.kind # "create" => s.created = turn[t].created,
           turn[t].created \in BOOLEAN
    PROVE  Fits(t, s, <<u>>)
<1> DEFINE updates == <<u>>
<1>1. updates \in Seq(PendingUpdate) /\ Len(updates) = 1 /\ \A i \in 1..Len(updates) : i = 1 /\ updates[i] = u
    BY Singleton
<1>2. 1 \in 1..Len(updates)
    BY <1>1
<1> HIDE DEF updates
<1>3. (\A i \in 1..Len(updates) : updates[i].kind # "idle") <=> u.kind # "idle"
    BY <1>1, <1>2
<1>4. (\E i \in 1..Len(updates) : updates[i].kind = "create") <=> u.kind = "create"
    BY <1>1, <1>2
<1>5. \A i \in 1..Len(updates) :
          /\ updates[i].turn = t
          /\ updates[i].kind = "content" => updates[i].n \in 1..s.got
          /\ updates[i].kind = "create" => i = 1 /\ Len(updates) = 1 /\ ~turn[t].created /\ s.created
          /\ updates[i].kind # "drop"
    BY <1>1
<1>6. s.created \in BOOLEAN
    BY DEF TurnState
<1>7. Fits(t, s, updates)
    BY <1>1, <1>3, <1>4, <1>5, <1>6 DEF Fits
<1> QED
    BY <1>7 DEF updates

\* and a request that was refused.
LEMMA FitsRefusal ==
    ASSUME NEW t, NEW s \in TurnState, NEW u \in PendingUpdate, NEW v \in PendingUpdate,
           u.turn = t, v.turn = t, u.kind = "drop", v.kind = "idle",
           s.stage = "over", s.got >= turn[t].got, s.created = FALSE, s.frame = None, turn[t].stage = "asked"
    PROVE  Fits(t, s, <<u, v>>)
<1> DEFINE updates == <<u, v>>
<1>1. /\ updates \in Seq(PendingUpdate) /\ Len(updates) = 2 /\ updates[1] = u /\ updates[2] = v
      /\ \A i \in 1..2 : i = 1 \/ i = 2
    BY Pair
<1>2. 2 \in 1..Len(updates)
    BY <1>1
<1> HIDE DEF updates
<1>3. \A i \in 1..Len(updates) : (updates[i] = u /\ i = 1) \/ updates[i] = v
    BY <1>1
<1>4. ~\A i \in 1..Len(updates) : updates[i].kind # "idle"
    BY <1>1, <1>2
<1>5. \A i \in 1..Len(updates) :
          /\ updates[i].turn = t
          /\ updates[i].kind \notin {"content", "create"}
          /\ updates[i].kind = "drop" => i = 1
    BY <1>3
<1>6. Fits(t, s, updates)
    BY <1>1, <1>4, <1>5 DEF Fits
<1> QED
    BY <1>6 DEF updates

\* A turn that is over leaves a queue that ends its streaming.
LEMMA EndKeeps ==
    ASSUME PageIInv, NEW t \in 1..Turns, Busy(t), Set(t, Over(t)), error' \in BOOLEAN,
           conv' = conv, here' = here,
           \/ Queue(t, <<Update("idle", t)>>)
           \/ turn[t].stage = "asked" /\ Queue(t, <<Update("drop", t), Update("idle", t)>>)
    PROVE  PageIInv'
<1>1. PageTypeOK /\ PageInv
    BY DEF PageIInv
<1>2. /\ turn[t] \in TurnState /\ turn[t].got \in Nat
      /\ Over(t) \in TurnState /\ Over(t).stage = "over" /\ Over(t).got = turn[t].got
      /\ Over(t).created = FALSE /\ Over(t).frame = None
      /\ turn[t].created \in BOOLEAN
    BY <1>1, TurnIs DEF TurnState
<1>3. conv' \in (1..Turns) \cup {None} /\ here' \in BOOLEAN /\ (here => here')
    BY <1>1 DEF PageTypeOK
<1> DEFINE drop == Update("drop", t)
           idle == Update("idle", t)
<1>4. /\ drop \in PendingUpdate /\ drop.kind = "drop" /\ drop.turn = t
      /\ idle \in PendingUpdate /\ idle.kind = "idle" /\ idle.turn = t
    BY <1>1, <1>2, UpdateIs
<1> HIDE DEF drop, idle
<1>5. CASE Queue(t, <<idle>>)
    <2>1. Fits(t, Over(t), <<idle>>)
        BY <1>2, <1>4, FitsOne
    <2> QED
        BY <1>3, <1>5, <2>1, StreamStep
<1>6. CASE turn[t].stage = "asked" /\ Queue(t, <<drop, idle>>)
    <2>1. Over(t).got >= turn[t].got
        BY <1>2
    <2>2. Fits(t, Over(t), <<drop, idle>>)
        BY <1>2, <1>4, <1>6, <2>1, FitsRefusal, Zenon
    <2> QED
        BY <1>3, <1>6, <2>2, StreamStep
<1> QED
    BY <1>5, <1>6 DEF drop, idle

\* A token: the first one makes the answer, the others wait for a frame.
LEMMA TokenKeeps == ASSUME PageIInv, NEW t \in 1..Turns, Token(t) PROVE PageIInv'
<1>1. PageTypeOK /\ PageInv
    BY DEF PageIInv
<1>2. Busy(t) /\ turn[t].stage = "reading"
    BY DEF Token, Reading, Busy
<1>3. /\ turn[t] \in TurnState /\ turn[t].got \in Nat
      /\ turn[t].frame # None => turn[t].frame \in 1..turn[t].got
      /\ turn[t].created => turn[t].got >= 1
      /\ turn[t].created \in BOOLEAN
    BY <1>1, <1>2, TurnIs DEF TurnState
<1>4. error' \in BOOLEAN /\ conv' \in (1..Turns) \cup {None} /\ here' \in BOOLEAN /\ (here => here')
    BY <1>1 DEF Token, PageTypeOK
<1> DEFINE s == [turn[t] EXCEPT !.got = @ + 1]
<1>5. /\ s \in TurnState /\ s.got = turn[t].got + 1 /\ s.stage = "reading" /\ s.created = turn[t].created
      /\ s.frame = turn[t].frame
    BY <1>2, <1>3 DEF TurnState
<1> HIDE DEF s
<1>6. CASE s.created /\ Set(t, Scheduled(s)) /\ Queue(t, <<>>)
    <2>1. /\ Scheduled(s) \in TurnState /\ Scheduled(s).stage = "reading" /\ Scheduled(s).got = s.got
          /\ Scheduled(s).created = s.created /\ Scheduled(s).frame \in {s.got, s.frame}
        BY <1>5 DEF Scheduled, TurnState
    <2>2. Scheduled(s).frame # None => Scheduled(s).frame \in 1..s.got
        BY <1>3, <1>5, <2>1
    <2>3. Fits(t, Scheduled(s), <<>>)
        BY <1>3, <1>5, <2>1, <2>2, FitsNone
    <2> QED
        BY <1>2, <1>4, <1>6, <2>3, StreamStep
<1>7. CASE ~s.created /\ Set(t, [s EXCEPT !.created = TRUE]) /\ Queue(t, <<Update("create", t)>>)
    <2> DEFINE new == [s EXCEPT !.created = TRUE]
               u == Update("create", t)
    <2>1. /\ new \in TurnState /\ new.stage = "reading" /\ new.got = s.got
          /\ new.created = TRUE /\ new.frame = s.frame
        BY <1>5 DEF TurnState
    <2>2. u \in PendingUpdate /\ u.kind = "create" /\ u.turn = t
        BY <1>1, UpdateIs
    <2>3. new.frame # None => new.frame \in 1..new.got
        BY <1>3, <1>5, <2>1
    <2>4. Set(t, new) /\ Queue(t, <<u>>)
        BY <1>7
    <2>5. ~turn[t].created /\ new.got >= 1 /\ new.got >= turn[t].got
        BY <1>3, <1>5, <1>7, <2>1
    <2> HIDE DEF new, u
    <2>6. Fits(t, new, <<u>>)
        BY <1>3, <2>1, <2>2, <2>3, <2>5, FitsOne
    <2> QED
        BY <1>2, <1>4, <2>4, <2>6, StreamStep
<1> QED
    BY <1>6, <1>7 DEF Token, s

\* The other steps of a stream.
LEMMA OthersKeep ==
    ASSUME PageIInv, NEW t \in 1..Turns,
           Respond(t) \/ Refused(t) \/ Canceled(t) \/ Done(t) \/ AnimationFrame(t) \/ StreamEnds(t)
    PROVE  PageIInv'
<1>1. PageTypeOK /\ PageInv
    BY DEF PageIInv
<1>2. Busy(t)
    BY <1>1 DEF Respond, Refused, Canceled, Done, AnimationFrame, StreamEnds, Busy, Reading, PageInv
<1>3. /\ turn[t] \in TurnState /\ turn[t].got \in Nat
      /\ turn[t].created => turn[t].got >= 1
      /\ turn[t].frame # None => turn[t].stage = "reading" /\ turn[t].frame \in 1..turn[t].got
      /\ turn[t].created \in BOOLEAN
    BY <1>1, <1>2, TurnIs DEF TurnState
<1>4. conv \in (1..Turns) \cup {None} /\ error \in BOOLEAN /\ here \in BOOLEAN
    BY <1>1 DEF PageTypeOK
<1>5. CASE Refused(t) \/ Canceled(t) \/ StreamEnds(t)
    <2>1. Set(t, Over(t)) /\ error' \in BOOLEAN /\ conv' = conv /\ here' = here
        BY <1>4, <1>5 DEF Refused, Canceled, StreamEnds, SetError
    <2>2. \/ Queue(t, <<Update("idle", t)>>)
          \/ turn[t].stage = "asked" /\ Queue(t, <<Update("drop", t), Update("idle", t)>>)
        BY <1>5 DEF Refused, Canceled, StreamEnds
    <2> QED
        BY <1>2, <2>1, <2>2, EndKeeps
<1>6. CASE Respond(t)
    <2> DEFINE s == [turn[t] EXCEPT !.stage = "reading"]
    <2>1. /\ s \in TurnState /\ s.stage = "reading" /\ s.got = turn[t].got
          /\ s.created = turn[t].created /\ s.frame = turn[t].frame
        BY <1>3 DEF TurnState
    <2>2. Set(t, s) /\ Queue(t, <<>>) /\ error' \in BOOLEAN /\ conv' \in (1..Turns) \cup {None} /\ here' = here
        BY <1>4, <1>6 DEF Respond
    <2> HIDE DEF s
    <2>3. Fits(t, s, <<>>)
        BY <1>3, <2>1, FitsNone
    <2> QED
        BY <1>2, <1>4, <2>2, <2>3, StreamStep
<1>7. CASE Done(t)
    <2> DEFINE s == [Scheduled(turn[t]) EXCEPT !.done = TRUE]
               u == Update("cite", t)
    <2>1. turn[t].stage = "reading"
        BY <1>7 DEF Done, Reading
    <2>2. /\ Scheduled(turn[t]) \in TurnState /\ Scheduled(turn[t]).stage = "reading"
          /\ Scheduled(turn[t]).got = turn[t].got /\ Scheduled(turn[t]).created = turn[t].created
          /\ Scheduled(turn[t]).frame = turn[t].frame \/ (turn[t].created /\ Scheduled(turn[t]).frame = turn[t].got)
        <3>1. CASE turn[t].created /\ turn[t].frame = None
            BY <1>3, <2>1, <3>1 DEF TurnState, Scheduled
        <3>2. CASE ~(turn[t].created /\ turn[t].frame = None)
            BY <1>3, <2>1, <3>2 DEF Scheduled
        <3> QED
            BY <3>1, <3>2
    <2>3. /\ s \in TurnState /\ s.stage = "reading" /\ s.got = turn[t].got
          /\ s.created = turn[t].created
          /\ s.frame = turn[t].frame \/ (turn[t].created /\ s.frame = turn[t].got)
        BY <2>2 DEF TurnState
    <2>4. u \in PendingUpdate /\ u.kind = "cite" /\ u.turn = t
        BY <1>1, UpdateIs
    <2>5. Set(t, s) /\ Queue(t, <<u>>) /\ error' \in BOOLEAN
        BY <1>4, <1>7 DEF Done
    <2>6. conv' \in (1..Turns) \cup {None} /\ here' \in BOOLEAN /\ (here => here')
        BY <1>4, <1>7 DEF Done
    <2> HIDE DEF s, u
    <2>7. s.frame # None => s.frame \in 1..s.got
        BY <1>3, <2>3
    <2>8. Fits(t, s, <<u>>)
        BY <1>3, <2>3, <2>4, <2>7, FitsOne
    <2> QED
        BY <1>2, <2>5, <2>6, <2>8, StreamStep
<1>8. CASE AnimationFrame(t)
    <2> DEFINE s == [turn[t] EXCEPT !.frame = None]
               u == [Update("content", t) EXCEPT !.n = turn[t].frame]
    <2>1. turn[t].frame # None
        BY <1>8 DEF AnimationFrame
    <2>2. turn[t].stage = "reading" /\ turn[t].frame \in 1..turn[t].got /\ turn[t].frame \in Nat
        BY <1>3, <2>1
    <2>3. /\ s \in TurnState /\ s.stage = "reading" /\ s.got = turn[t].got
          /\ s.created = turn[t].created /\ s.frame = None
        BY <1>3, <2>2 DEF TurnState
    <2>4. u \in PendingUpdate /\ u.kind = "content" /\ u.turn = t /\ u.n = turn[t].frame
        BY <1>1, <2>2, UpdateIs DEF PendingUpdate
    <2>5. Set(t, s) /\ Queue(t, <<u>>) /\ error' \in BOOLEAN /\ conv' \in (1..Turns) \cup {None} /\ here' = here
        BY <1>4, <1>8 DEF AnimationFrame
    <2> HIDE DEF s, u
    <2>6. Fits(t, s, <<u>>)
        BY <1>3, <2>2, <2>3, <2>4, FitsOne
    <2> QED
        BY <1>2, <1>4, <2>5, <2>6, StreamStep
<1> QED
    BY <1>5, <1>6, <1>7, <1>8

\* Every step of the page keeps the invariant.
LEMMA PageStep == PageIInv /\ [PageNext]_pageVars => PageIInv'
<1> SUFFICES ASSUME PageIInv, [PageNext]_pageVars PROVE PageIInv'
    OBVIOUS
<1>1. CASE \/ Render \/ HandleSend \/ RetryLast \/ Stop \/ NewChat \/ OpenConversation
           \/ ChatLink \/ Leave \/ Return
    BY <1>1, RenderKeeps, QuestionKeeps, StopKeeps, NewChatKeeps, OpenKeeps, ChatLinkKeeps, LeaveKeeps, ReturnKeeps
<1>2. ASSUME NEW t \in 1..Turns, Stream(t) PROVE PageIInv'
    BY <1>2, TokenKeeps, OthersKeep DEF Stream
<1>3. CASE UNCHANGED pageVars
    <2>1. PageTypeOK'
        BY <1>3 DEF pageVars, PageIInv, PageTypeOK
    <2> QED
        BY <1>3, <2>1, ShownAsBefore DEF pageVars
<1> QED
    BY <1>1, <1>2, <1>3 DEF PageNext

-----------------------------------------------------------------------------
\* The invariant of the page holds for any number of questions and tokens.
THEOREM PageInvariant == PageSpec => []PageIInv
BY PageStart, PageStep, PTL DEF PageSpec

\* Every variable of the page keeps its type.
THEOREM PageTypeCorrect == PageSpec => []PageTypeOK
<1>1. PageIInv => PageTypeOK
    BY DEF PageIInv
<1> QED
    BY <1>1, PageInvariant, PTL

\* An answer stands under its question with text and citations of its own
\* (Chat.tsx, the updaters of processStream and scheduleUpdate).
THEOREM AnswersStay == PageSpec => []AnswersUnderQuestions
<1>1. PageIInv => AnswersUnderQuestions
    <2> SUFFICES ASSUME PageIInv PROVE AnswersUnderQuestions
        OBVIOUS
    <2>1. DOMAIN messages = 1..Len(messages)
        BY DEF PageIInv, PageTypeOK
    <2>2. Sound(messages)
        BY DEF PageIInv, PageInv
    <2> QED
        BY <2>1, <2>2 DEF AnswersUnderQuestions, Sound
<1> QED
    BY <1>1, PageInvariant, PTL

\* A page sends no second question into a stream of its own that is under
\* way, although sendMessage asks the flag of the last render (Chat.tsx,
\* isStreaming); streams of pages that were left are read on beside it.
THEOREM StreamIsSingle == PageSpec => []OneStream
<1>1. PageIInv => OneStream
    <2> SUFFICES ASSUME PageIInv PROVE OneStream
        OBVIOUS
    <2>1. (\A s, t \in Under : s = t) /\ (Under # {} => here)
        BY UnderIs DEF PageIInv
    <2> QED
        BY <2>1 DEF OneStream, PageIInv, PageInv
<1> QED
    BY <1>1, PageInvariant, PTL
=============================================================================
