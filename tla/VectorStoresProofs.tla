------------------------- MODULE VectorStoresProofs -------------------------
(***************************************************************************)
(* For any processes, clients, documents and tenants, and every provider:  *)
(* a search finds no row that was deleted before it began, and what was    *)
(* answered stays in the store or its log and is found.                    *)
(***************************************************************************)
EXTENDS VectorStores, SequenceTheorems, TLAPS

\* What callers do with the answer of a call: what is sent, logged or done.
Update == [stage : {"sent", "logged", "done"}, op : {"insert", "delete"},
           doc : Documents, rows : SUBSET Rows]
Question == [stage : {"asked", "found"}, tenant : Tenants, old : SUBSET Rows,
             sure : SUBSET Rows, rows : SUBSET Rows]

\* A call is idle, an update or a question; its stage tells which.
LEMMA CallCases ==
    ASSUME NEW k \in Call
    PROVE  \/ k = Idle /\ k.stage = "idle"
           \/ k \in Update /\ k.stage \in {"sent", "logged", "done"}
           \/ k \in Question /\ k.stage \in {"asked", "found"}
BY DEF Call, Idle, Update, Question

\* An update stays a call when it moves on.
LEMMA MovedUpdate ==
    ASSUME NEW k \in Update, NEW s \in {"sent", "logged", "done"}
    PROVE  [k EXCEPT !.stage = s] \in Call /\ [k EXCEPT !.stage = s] \in Update
BY DEF Call, Update

\* What a client sends is a request, also when nobody waits for it.
LEMMA RequestIsTyped ==
    ASSUME TypeOK, NEW c \in Clients, call[c].stage = "sent"
    PROVE  RequestOf(c) \in Request /\ [RequestOf(c) EXCEPT !.by = NoOne] \in Request
<1>1. call[c] \in Update
    BY CallCases DEF TypeOK
<1> QED
    BY <1>1 DEF RequestOf, Request, Update

\* Nobody waits for the updates of the clients in C any more.
LEMMA DetachedIsTyped ==
    ASSUME log \in Seq(Request), NEW C, Detached(C)
    PROVE  /\ log' \in Seq(Request) /\ Len(log') = Len(log)
           /\ \A i \in 1..Len(log) :
                 log'[i] = IF log[i].by \in C THEN [log[i] EXCEPT !.by = NoOne] ELSE log[i]
<1>1. DOMAIN log = 1..Len(log) /\ Len(log) \in Nat
    OBVIOUS
<1>2. \A i \in 1..Len(log) : log[i] \in Request
    OBVIOUS
<1>3. \A i \in 1..Len(log) : [log[i] EXCEPT !.by = NoOne] \in Request
    BY <1>2 DEF Request
<1>4. log' = [i \in 1..Len(log) |-> IF log[i].by \in C THEN [log[i] EXCEPT !.by = NoOne]
                                                        ELSE log[i]]
    BY <1>1 DEF Detached
<1>5. log' \in [1..Len(log) -> Request]
    BY <1>2, <1>3, <1>4
<1>6. log' \in Seq(Request) /\ Len(log') = Len(log)
    BY <1>1, <1>5
<1> QED
    BY <1>4, <1>6

\* A request turns stores into stores.
LEMMA EffectIsTyped ==
    ASSUME TypeOK, NEW q \in Request
    PROVE  Effect(q) \in [Processes \cup {NoOne} -> SUBSET Rows]
BY DEF TypeOK, Effect, Inserted, Without, Request

\* The initial state is typed.
LEMMA InitTypes == Init => TypeOK
<1> SUFFICES ASSUME Init PROVE TypeOK
    OBVIOUS
<1>1. log \in Seq(Request) /\ adrift \subseteq Request
    BY DEF Init
<1>2. call \in [Clients -> Call] /\ held \in [Processes \cup {NoOne} -> SUBSET Rows]
    BY DEF Init, Call
<1>3. lost \in 0..MaxLost
    BY VectorStoresAssumption DEF Init
<1> QED
    BY <1>1, <1>2, <1>3 DEF Init, TypeOK

\* Every step keeps the types.
LEMMA TypeStep == TypeOK /\ [Next]_vars => TypeOK'
<1> SUFFICES ASSUME TypeOK, [Next]_vars PROVE TypeOK'
    OBVIOUS
<1> USE VectorStoresAssumption DEF TypeOK, history
<1>1. CASE UNCHANGED vars
    BY <1>1 DEF vars
<1>2. ASSUME NEW p \in Processes, Start(p) \/ CollectionMissing(p) PROVE TypeOK'
    BY <1>2 DEF Start, CollectionMissing
<1>3. ASSUME NEW p \in Processes, Recreate(p) PROVE TypeOK'
    BY <1>3 DEF Recreate, PutAt
<1>4. ASSUME NEW c \in Clients, Insert(c) PROVE TypeOK'
    BY <1>4 DEF Insert, Inserted, NewRows, DocRows, Call
<1>5. ASSUME NEW c \in Clients, Delete(c) PROVE TypeOK'
    BY <1>5 DEF Delete, Without, DocRows, PutAt, Call
<1>6. ASSUME NEW c \in Clients, Search(c) PROVE TypeOK'
    BY <1>6 DEF Search, Call, TenantRows
<1>7. ASSUME NEW c \in Clients, Read(c) PROVE TypeOK'
    <2>1. call[c] \in Question
        BY <1>7, CallCases DEF Read
    <2>2. \A found \in SUBSET Rows : [call[c] EXCEPT !.stage = "found", !.rows = found] \in Call
        BY <2>1 DEF Call, Question
    <2> QED
        BY ZenonT(60), <1>7, <2>2 DEF Read
<1>8. ASSUME NEW c \in Clients, Commit(c) PROVE TypeOK'
    <2>1. call[c] \in Update
        BY <1>8, CallCases DEF Commit
    <2>2. [call[c] EXCEPT !.stage = "done"] \in Call
        BY <2>1, MovedUpdate
    <2> QED
        BY <1>8, <2>2, RequestIsTyped, EffectIsTyped DEF Commit
<1>9. ASSUME NEW c \in Clients, Receive(c) PROVE TypeOK'
    <2>1. call[c] \in Update
        BY <1>9, CallCases DEF Receive
    <2>2. /\ [call[c] EXCEPT !.stage = "done"] \in Call
          /\ [call[c] EXCEPT !.stage = "logged"] \in Call
        BY <2>1, MovedUpdate
    <2>3. RequestOf(c) \in Request
        BY <1>9, RequestIsTyped DEF Receive
    <2>4. log' \in Seq(Request)
        BY <1>9, <2>3, AppendProperties DEF Receive
    <2>5. call' \in [Clients -> Call]
        BY <1>9, <2>2 DEF Receive
    <2> QED
        BY <1>9, <2>4, <2>5 DEF Receive
<1>10. ASSUME NEW c \in Clients, InsertAnswered(c) PROVE TypeOK'
    BY <1>10, CallCases DEF InsertAnswered, Call, Update
<1>11. ASSUME NEW c \in Clients, DeleteAnswered(c) PROVE TypeOK'
    BY <1>11, CallCases DEF DeleteAnswered, Call, Update
<1>12. ASSUME NEW c \in Clients, SearchAnswered(c) PROVE TypeOK'
    BY <1>12 DEF SearchAnswered, Call
<1>13. ASSUME NEW c \in Clients, GiveUp(c) PROVE TypeOK'
    <2>1. log' \in Seq(Request)
        BY <1>13, DetachedIsTyped DEF GiveUp
    <2>2. adrift' \subseteq Request
        BY <1>13, RequestIsTyped DEF GiveUp
    <2> QED
        BY <1>13, <2>1, <2>2 DEF GiveUp, Call
<1>14. ASSUME NEW p \in Processes, Die(p) PROVE TypeOK'
    <2>1. log' \in Seq(Request)
        BY <1>14, DetachedIsTyped DEF Die
    <2>2. adrift' \subseteq Request
        BY <1>14, RequestIsTyped DEF Die
    <2>3. call' \in [Clients -> Call]
        BY <1>14 DEF Die, Call
    <2> QED
        BY <1>14, <2>1, <2>2, <2>3 DEF Die, PutAt
<1>15. ASSUME Land PROVE TypeOK'
    <2>1. PICK q \in adrift :
               /\ adrift' = adrift \ {q}
               /\ \/ provider = "pgvector" /\ held' = Effect(q) /\ UNCHANGED log
                  \/ provider = "qdrant" /\ log' = Append(log, q) /\ UNCHANGED held
        BY <1>15 DEF Land
    <2>2. Effect(q) \in [Processes \cup {NoOne} -> SUBSET Rows]
        BY EffectIsTyped
    <2>3. Append(log, q) \in Seq(Request)
        BY AppendProperties
    <2> QED
        BY <1>15, <2>1, <2>2, <2>3 DEF Land
<1>16. ASSUME Apply PROVE TypeOK'
    <2>1. Head(log) \in Request /\ Tail(log) \in Seq(Request)
        BY <1>16, HeadTailProperties DEF Apply
    <2>2. \A c \in Clients : call[c].stage = "logged" => [call[c] EXCEPT !.stage = "done"] \in Call
        BY CallCases, MovedUpdate
    <2> QED
        BY <1>16, <2>1, <2>2, EffectIsTyped DEF Apply
<1> QED
    BY <1>1, <1>2, <1>3, <1>4, <1>5, <1>6, <1>7, <1>8, <1>9, <1>10, <1>11, <1>12, <1>13,
       <1>14, <1>15, <1>16 DEF Next

\* Every variable keeps its type.
THEOREM TypeCorrect == Spec => []TypeOK
BY InitTypes, TypeStep, PTL DEF Spec

-----------------------------------------------------------------------------
(* The invariant.  A row travels from its caller, or adrift, into the log  *)
(* or the store; once its insertion is answered it is on its way no more,  *)
(* so a delete that comes into effect later leaves it nowhere.             *)

Inserts(q) == IF q.op = "insert" THEN q.rows ELSE {}

\* Rows of client c that are on their way, and that are in or in the log.
SentBy(c) == IF call[c].stage = "sent" /\ call[c].op = "insert" THEN call[c].rows ELSE {}
DoneBy(c) == IF call[c].stage = "done" /\ call[c].op = "insert" THEN call[c].rows ELSE {}

OnTheWay(r) == (\E c \in Clients : r \in SentBy(c)) \/ (\E q \in adrift : r \in Inserts(q))

Arrived(r) == r \in acked \/ \E c \in Clients : r \in DoneBy(c)

Logged(r) == \E i \in 1..Len(log) : r \in Inserts(log[i])

Stored(r) == \E s \in Processes \cup {NoOne} : r \in held[s]

\* Every provider has its own part of the state.
OwnParts ==
    /\ Local => /\ held[NoOne] = {} /\ adrift = {}
                /\ \A c \in Clients : call[c].stage \in {"idle", "found"}
                /\ \A p \in Processes : \A r \in held[p] : home[r] = p
    /\ ~Local => \A p \in Processes : held[p] = {}
    /\ provider # "qdrant" => log = <<>>
    /\ \A q \in adrift : q.by = NoOne

\* Rows that no client has inserted are nowhere.
FreshRows == \A r \in Rows : home[r] = NoOne =>
    ~OnTheWay(r) /\ ~Arrived(r) /\ ~Logged(r) /\ ~Stored(r)

\* A row is on one way only, and not when it has arrived.
SentOnce ==
    /\ \A r \in Rows : OnTheWay(r) => ~Arrived(r)
    /\ \A c, e \in Clients : c # e => SentBy(c) \cap SentBy(e) = {}
    /\ \A c \in Clients : \A q \in adrift : SentBy(c) \cap Inserts(q) = {}
    /\ \A q, t \in adrift : q # t => Inserts(q) \cap Inserts(t) = {}

Buried(r) == home[r] # NoOne /\ ~OnTheWay(r) /\ ~Logged(r) /\ ~Stored(r)

\* A delete that waits in the log comes after every insert of its rows.
Awaited(i, c) ==
    /\ call[c].stage = "logged" /\ call[c].op = "delete" /\ log[i].op = "delete"
    /\ log[i].doc = call[c].doc
    /\ \A j \in 1..Len(log) :
          /\ j > i => call[c].rows \cap Inserts(log[j]) = {}
          /\ log[j].by = c => j = i

Deletes ==
    /\ \A r \in gone : Buried(r)
    /\ \A c \in Clients : call[c].stage \in {"sent", "logged", "done"} /\ call[c].op = "delete" =>
          /\ call[c].rows \subseteq acked \cap DocRows(call[c].doc)
          /\ call[c].stage = "done" => \A r \in call[c].rows : Buried(r)
    /\ \A i \in 1..Len(log) : \A c \in Clients : log[i].by = c => Awaited(i, c)

Finds == \A c \in Clients :
    /\ call[c].stage \in {"asked", "found"} => call[c].old \subseteq gone
    /\ call[c].stage = "found" => /\ call[c].rows \cap call[c].old = {}
                                  /\ call[c].rows \subseteq TenantRows(call[c].tenant)

IInv == TypeOK /\ OwnParts /\ FreshRows /\ SentOnce /\ Deletes /\ Finds

\* The log with one more entry.
LEMMA Appended ==
    ASSUME log \in Seq(Request), NEW q \in Request, log' = Append(log, q)
    PROVE  /\ Len(log') = Len(log) + 1 /\ log'[Len(log) + 1] = q
           /\ \A i \in 1..Len(log) : log'[i] = log[i]
BY AppendProperties

\* The log without its oldest entry.
LEMMA Dropped ==
    ASSUME log \in Seq(Request), log # <<>>, log' = Tail(log)
    PROVE  /\ Len(log') = Len(log) - 1 /\ Head(log) = log[1] /\ Len(log) >= 1
           /\ \A i \in 1..Len(log') : log'[i] = log[i + 1]
BY HeadTailProperties

\* What a step has to show besides the types.
Keeps == OwnParts' /\ FreshRows' /\ SentOnce' /\ Deletes' /\ Finds'

\* A start-up without a collection to make changes nothing of this.
LEMMA StartKeeps ==
    ASSUME IInv, NEW p \in Processes, Start(p) \/ CollectionMissing(p)
    PROVE  Keeps
<1> USE VectorStoresAssumption DEF Keeps, IInv, history
<1>1. UNCHANGED <<provider, held, log, call, adrift, home, acked, gone>>
    BY DEF Start, CollectionMissing
<1>2. OwnParts'
    BY <1>1 DEF OwnParts, Local
<1>3. FreshRows' /\ SentOnce'
    BY <1>1 DEF FreshRows, SentOnce, OnTheWay, Arrived, Logged, Stored, SentBy, DoneBy, Inserts
<1>4. Deletes'
    BY <1>1 DEF Deletes, Buried, OnTheWay, Logged, Stored, SentBy, Awaited, DocRows, Inserts
<1>5. Finds'
    BY <1>1 DEF Finds, TenantRows
<1> QED
    BY <1>2, <1>3, <1>4, <1>5

\* An empty store and an empty log hold no deleted row.
LEMMA RecreateKeeps ==
    ASSUME IInv, NEW p \in Processes, Recreate(p)
    PROVE  Keeps
<1> USE VectorStoresAssumption DEF Keeps, IInv, history
<1>1. /\ UNCHANGED <<provider, call, adrift, home, acked, gone>>
      /\ held' = [held EXCEPT ![NoOne] = {}] /\ log' = <<>> /\ Len(log') = 0
    BY DEF Recreate
<1>2. OwnParts'
    BY <1>1 DEF OwnParts, Local, TypeOK
<1>3. FreshRows' /\ SentOnce'
    BY <1>1 DEF FreshRows, SentOnce, OnTheWay, Arrived, Logged, Stored, SentBy, DoneBy, TypeOK, Inserts
<1>4. Deletes'
    BY <1>1 DEF Deletes, Buried, OnTheWay, Logged, Stored, SentBy, Awaited, DocRows, TypeOK, Inserts
<1>5. Finds'
    BY <1>1 DEF Finds, TenantRows
<1> QED
    BY <1>2, <1>3, <1>4, <1>5

\* New rows are in nobody's way: they were nowhere.
LEMMA InsertKeeps ==
    ASSUME IInv, NEW c \in Clients, Insert(c)
    PROVE  Keeps
<1> USE VectorStoresAssumption DEF Keeps, IInv, history
<1> DEFINE p == ProcessOf[c]
<1>0. PICK d \in Documents, R \in SUBSET Rows :
          /\ NewRows(d, R)
          /\ home' = [r \in Rows |-> IF r \in R THEN p ELSE home[r]]
          /\ \/ /\ Local
                /\ held' = Inserted(p, R)
                /\ acked' = acked \cup R
                /\ UNCHANGED call
             \/ /\ ~Local
                /\ call' = [call EXCEPT ![c] =
                               [stage |-> "sent", op |-> "insert", doc |-> d, rows |-> R]]
                /\ UNCHANGED <<held, acked>>
    BY DEF Insert
<1>1. /\ UNCHANGED <<provider, log, adrift, gone>> /\ p \in Processes /\ p # NoOne
      /\ call[c] = Idle /\ call[c].stage = "idle"
    BY DEF Insert, Free, Idle
<1>2. /\ \A r \in R : home[r] = NoOne /\ home'[r] = p
      /\ \A r \in Rows \ R : home'[r] = home[r]
      /\ \A r \in R : ~OnTheWay(r) /\ ~Arrived(r) /\ ~Logged(r) /\ ~Stored(r) /\ r \notin gone
    BY <1>0 DEF NewRows, FreshRows, Deletes, Buried
<1>3. CASE Local
    <2>1. /\ held' = [held EXCEPT ![p] = @ \cup R] /\ acked' = acked \cup R /\ UNCHANGED call
        BY <1>0, <1>3 DEF Inserted
    <2>2. OwnParts'
        BY <1>1, <1>2, <1>3, <2>1 DEF OwnParts, Local, Stored, TypeOK
    <2>3. \A r \in Rows : OnTheWay(r)' <=> OnTheWay(r)
        BY <1>1, <2>1 DEF OnTheWay, SentBy, Inserts
    <2>4. FreshRows'
        BY <1>1, <1>2, <2>1, <2>3 DEF FreshRows, Arrived, Logged, Stored, DoneBy, TypeOK, Inserts
    <2>5. SentOnce'
        BY <1>1, <1>2, <2>1, <2>3 DEF SentOnce, Arrived, SentBy, DoneBy, Inserts
    <2>6. Deletes'
        BY <1>1, <1>2, <1>3, <2>1, <2>3
           DEF Deletes, Buried, Logged, Stored, Awaited, OwnParts, TypeOK, DocRows, Inserts
    <2>7. Finds'
        BY <1>1, <2>1 DEF Finds, TenantRows
    <2> QED
        BY <2>2, <2>4, <2>5, <2>6, <2>7
<1>4. CASE ~Local
    <2>1. /\ UNCHANGED <<held, acked>>
          /\ call'[c] = [stage |-> "sent", op |-> "insert", doc |-> d, rows |-> R]
          /\ \A e \in Clients \ {c} : call'[e] = call[e]
        BY <1>0, <1>4 DEF TypeOK
    <2>2. OwnParts'
        BY <1>1, <1>4, <2>1 DEF OwnParts, Local
    <2>3. /\ SentBy(c)' = R /\ DoneBy(c)' = {} /\ SentBy(c) = {} /\ DoneBy(c) = {}
          /\ \A e \in Clients \ {c} : SentBy(e)' = SentBy(e) /\ DoneBy(e)' = DoneBy(e)
        BY <1>1, <2>1 DEF SentBy, DoneBy
    <2>4. /\ \A r \in Rows : OnTheWay(r)' <=> (OnTheWay(r) \/ r \in R)
          /\ \A r \in Rows : Arrived(r)' <=> Arrived(r)
        <3>1. ASSUME NEW r \in Rows PROVE OnTheWay(r)' <=> (OnTheWay(r) \/ r \in R)
            BY <1>1, <2>1, <2>3 DEF OnTheWay, Inserts
        <3>2. ASSUME NEW r \in Rows PROVE Arrived(r)' <=> Arrived(r)
            BY <1>1, <2>1, <2>3 DEF Arrived
        <3> QED
            BY <3>1, <3>2
    <2>5. FreshRows'
        BY <1>1, <1>2, <2>1, <2>4 DEF FreshRows, Logged, Stored, Inserts
    <2>6. SentOnce'
        BY <1>1, <1>2, <2>3, <2>4 DEF SentOnce, OnTheWay, Inserts, TypeOK
    <2>7. \A r \in Rows : Buried(r) => Buried(r)'
        BY <1>1, <1>2, <2>1, <2>4 DEF Buried, Logged, Stored, Inserts
    <2>8. Deletes'
        <3>1. \A i \in 1..Len(log) : \A e \in Clients : log[i].by = e => Awaited(i, e)'
            BY <1>1, <2>1 DEF Deletes, Awaited, Inserts
        <3>2. \A e \in Clients : call'[e].stage \in {"sent", "logged", "done"} /\ call'[e].op = "delete" =>
                  /\ call'[e].rows \subseteq acked' \cap DocRows(call'[e].doc)
                  /\ call'[e].stage = "done" => \A r \in call'[e].rows : Buried(r)'
            BY <1>1, <2>1, <2>7 DEF Deletes, DocRows, TypeOK
        <3>3. \A r \in gone : Buried(r)'
            BY <2>7 DEF Deletes, TypeOK
        <3> QED
            BY <1>1, <2>1, <3>1, <3>2, <3>3 DEF Deletes, DocRows
    <2>9. Finds'
        BY <1>1, <2>1 DEF Finds, TenantRows
    <2> QED
        BY <2>2, <2>5, <2>6, <2>8, <2>9
<1> QED
    BY <1>3, <1>4

\* In the dictionary the rows go at once; elsewhere the call says which were
\* answered, and so are on their way no more.
LEMMA DeleteKeeps ==
    ASSUME IInv, NEW c \in Clients, Delete(c)
    PROVE  Keeps
<1> USE VectorStoresAssumption DEF Keeps, IInv, history
<1> DEFINE p == ProcessOf[c]
<1>0. PICK d \in Documents :
          \/ /\ Local
             /\ held' = Without(p, d)
             /\ gone' = gone \cup ((DocRows(d) \cap PutAt(p)) \cap acked)
             /\ UNCHANGED call
          \/ /\ ~Local
             /\ call' = [call EXCEPT ![c] =
                            [stage |-> "sent", op |-> "delete", doc |-> d,
                             rows |-> (DocRows(d) \cap PutAt(p)) \cap acked]]
             /\ UNCHANGED <<held, gone>>
    BY DEF Delete
<1>1. /\ UNCHANGED <<provider, log, adrift, home, acked>> /\ p \in Processes /\ p # NoOne
      /\ call[c] = Idle /\ call[c].stage = "idle"
    BY DEF Delete, Free, Idle
<1>2. CASE Local
    <2>1. /\ held' = [held EXCEPT ![p] = @ \ DocRows(d)] /\ UNCHANGED call
          /\ gone' = gone \cup ((DocRows(d) \cap PutAt(p)) \cap acked)
        BY <1>0, <1>2 DEF Without
    <2>2. OwnParts'
        BY <1>1, <1>2, <2>1 DEF OwnParts, Local, TypeOK
    <2>3. /\ \A r \in Rows : OnTheWay(r)' <=> OnTheWay(r)
          /\ \A r \in Rows : Arrived(r)' <=> Arrived(r)
          /\ \A r \in Rows : Stored(r)' => Stored(r)
        <3>1. \A r \in Rows : OnTheWay(r)' <=> OnTheWay(r)
            BY <1>1, <2>1 DEF OnTheWay, SentBy, Inserts
        <3>2. \A r \in Rows : Arrived(r)' <=> Arrived(r)
            BY <1>1, <2>1 DEF Arrived, DoneBy
        <3>3. \A r \in Rows : Stored(r)' => Stored(r)
            BY <1>1, <2>1 DEF Stored, TypeOK
        <3> QED
            BY <3>1, <3>2, <3>3
    <2>4. FreshRows' /\ SentOnce'
        BY <1>1, <2>1, <2>3 DEF FreshRows, SentOnce, Logged, SentBy, Inserts
    <2>5. \A r \in (DocRows(d) \cap PutAt(p)) \cap acked : home[r] = p
        BY <1>1, <1>2 DEF PutAt, StoreOf, Local
    <2>6. \A r \in (DocRows(d) \cap PutAt(p)) \cap acked : Buried(r)'
        <3>1. ASSUME NEW r \in (DocRows(d) \cap PutAt(p)) \cap acked PROVE Buried(r)'
            <4>1. r \in Rows /\ home'[r] # NoOne /\ home[r] = p
                BY <1>1, <2>5 DEF DocRows
            <4>2. ~OnTheWay(r)'
                BY <2>3, <4>1 DEF SentOnce, Arrived
            <4>3. ~Logged(r)'
                BY <1>1, <1>2 DEF Logged, OwnParts, Local, Inserts
            <4>4. ~Stored(r)'
                BY <1>1, <1>2, <2>1, <4>1 DEF Stored, OwnParts, TypeOK
            <4> QED
                BY <4>1, <4>2, <4>3, <4>4 DEF Buried
        <3> QED
            BY <3>1
    <2>7. \A r \in Rows : Buried(r) => Buried(r)'
        BY <1>1, <2>3 DEF Buried, Logged, Inserts
    <2>8. Deletes'
        BY <1>1, <1>2, <2>1, <2>6, <2>7 DEF Deletes, Awaited, OwnParts, TypeOK, Inserts
    <2>9. Finds'
        BY <1>1, <2>1 DEF Finds, TenantRows
    <2> QED
        BY <2>2, <2>4, <2>8, <2>9
<1>3. CASE ~Local
    <2>1. /\ UNCHANGED <<held, gone>>
          /\ call'[c] = [stage |-> "sent", op |-> "delete", doc |-> d,
                         rows |-> (DocRows(d) \cap PutAt(p)) \cap acked]
          /\ \A e \in Clients \ {c} : call'[e] = call[e]
        BY <1>0, <1>3 DEF TypeOK
    <2>2. OwnParts'
        BY <1>1, <1>3, <2>1 DEF OwnParts, Local
    <2>3. \A e \in Clients : SentBy(e)' = SentBy(e) /\ DoneBy(e)' = DoneBy(e)
        BY <1>1, <2>1 DEF SentBy, DoneBy
    <2>4. FreshRows' /\ SentOnce'
        BY <1>1, <2>1, <2>3 DEF FreshRows, SentOnce, OnTheWay, Arrived, Logged, Stored, Inserts
    <2>5. \A r \in Rows : Buried(r) => Buried(r)'
        BY <1>1, <2>1, <2>3 DEF Buried, OnTheWay, Logged, Stored, Inserts
    <2>6. Deletes'
        <3>1. \A i \in 1..Len(log) : \A e \in Clients : log[i].by = e => Awaited(i, e)'
            BY <1>1, <2>1 DEF Deletes, Awaited, Inserts
        <3>2. \A e \in Clients : call'[e].stage \in {"sent", "logged", "done"} /\ call'[e].op = "delete" =>
                  /\ call'[e].rows \subseteq acked' \cap DocRows(call'[e].doc)
                  /\ call'[e].stage = "done" => \A r \in call'[e].rows : Buried(r)'
            BY <1>1, <2>1, <2>5 DEF Deletes, DocRows, TypeOK
        <3>3. \A r \in gone : Buried(r)'
            BY <2>5 DEF Deletes, TypeOK
        <3> QED
            BY <1>1, <2>1, <3>1, <3>2, <3>3 DEF Deletes, DocRows
    <2>7. Finds'
        BY <1>1, <2>1 DEF Finds, TenantRows
    <2> QED
        BY <2>2, <2>4, <2>6, <2>7
<1> QED
    BY <1>2, <1>3

\* Searches change nothing but the call.
LEMMA SearchesKeep ==
    ASSUME IInv, NEW c \in Clients, Search(c) \/ Read(c) \/ SearchAnswered(c)
    PROVE  Keeps
<1> USE VectorStoresAssumption DEF Keeps, IInv, history
<1>1. /\ UNCHANGED <<provider, held, log, adrift, home, acked, gone>>
      /\ \A e \in Clients \ {c} : call'[e] = call[e]
    BY DEF Search, Read, SearchAnswered, TypeOK
<1>2. /\ call[c].stage \in {"idle", "asked", "found"} /\ call'[c].stage \in {"idle", "asked", "found"}
      /\ Local => call'[c].stage \in {"idle", "found"}
    <2>1. CASE Search(c)
        BY <2>1 DEF Search, Free, Idle, TypeOK
    <2>2. CASE Read(c)
        <3>1. call[c] \in Question
            BY <2>2, CallCases DEF Read, TypeOK
        <3>2. PICK found \in SUBSET Rows :
                  call' = [call EXCEPT ![c].stage = "found", ![c].rows = found]
            BY <2>2 DEF Read
        <3>3. call'[c].stage = "found"
            BY <3>1, <3>2 DEF TypeOK, Question
        <3> QED
            BY <2>2, <3>3 DEF Read
    <2>3. CASE SearchAnswered(c)
        BY <2>3 DEF SearchAnswered, Idle, TypeOK
    <2> QED
        BY <2>1, <2>2, <2>3
<1>3. OwnParts'
    BY <1>1, <1>2 DEF OwnParts, Local
<1>4. \A e \in Clients : SentBy(e)' = SentBy(e) /\ DoneBy(e)' = DoneBy(e)
    BY <1>1, <1>2 DEF SentBy, DoneBy
<1>5. FreshRows' /\ SentOnce'
    BY <1>1, <1>4 DEF FreshRows, SentOnce, OnTheWay, Arrived, Logged, Stored, Inserts
<1>6. \A r \in Rows : Buried(r) => Buried(r)'
    BY <1>1, <1>4 DEF Buried, OnTheWay, Logged, Stored, Inserts
<1>7. Deletes'
    <2>1. \A i \in 1..Len(log) : \A e \in Clients : log[i].by = e => Awaited(i, e)'
        BY <1>1, <1>2 DEF Deletes, Awaited, Inserts
    <2>2. \A e \in Clients : call'[e].stage \in {"sent", "logged", "done"} /\ call'[e].op = "delete" =>
              /\ call'[e].rows \subseteq acked' \cap DocRows(call'[e].doc)
              /\ call'[e].stage = "done" => \A r \in call'[e].rows : Buried(r)'
        BY <1>1, <1>2, <1>6 DEF Deletes, DocRows, TypeOK
    <2>3. \A r \in gone : Buried(r)'
        BY <1>6 DEF Deletes, TypeOK
    <2> QED
        BY <1>1, <2>1, <2>2, <2>3 DEF Deletes, DocRows
<1>8. Finds'
    <2>1. CASE Search(c)
        <3>1. PICK t \in Tenants, found \in SUBSET Rows :
                  /\ IF Local THEN Nearest(ProcessOf[c], t, found) ELSE found = {}
                  /\ call' = [call EXCEPT ![c] =
                        [stage |-> IF Local THEN "found" ELSE "asked", tenant |-> t, old |-> gone,
                         sure |-> (acked \ doomed) \cap TenantRows(t) \cap PutAt(ProcessOf[c]),
                         rows |-> found]]
            BY <2>1 DEF Search
        <3>2. /\ call'[c].old = gone /\ call'[c].rows = found /\ call'[c].tenant = t
              /\ call'[c].stage = "found" => Nearest(ProcessOf[c], t, found)
            BY <3>1 DEF TypeOK
        <3>3. Nearest(ProcessOf[c], t, found) => found \subseteq held[ProcessOf[c]] \cap TenantRows(t)
            BY DEF Nearest
        <3>4. held[ProcessOf[c]] \cap gone = {}
            BY DEF Deletes, Buried, Stored
        <3> QED
            BY <1>1, <3>2, <3>3, <3>4 DEF Finds, TenantRows
    <2>2. CASE Read(c)
        <3>1. PICK found \in SUBSET Rows :
                  /\ Nearest(NoOne, call[c].tenant, found)
                  /\ call' = [call EXCEPT ![c].stage = "found", ![c].rows = found]
            BY <2>2 DEF Read
        <3>2. call[c] \in Question /\ call[c].stage = "asked"
            BY <2>2, CallCases DEF Read, TypeOK
        <3>3. /\ call'[c].old = call[c].old /\ call'[c].tenant = call[c].tenant
              /\ call'[c].rows = found
            BY <3>1, <3>2 DEF TypeOK, Question
        <3>4. found \subseteq held[NoOne] \cap TenantRows(call[c].tenant)
            BY <3>1 DEF Nearest
        <3>5. held[NoOne] \cap gone = {} /\ call[c].old \subseteq gone
            BY <3>2 DEF Deletes, Buried, Stored, Finds
        <3> QED
            BY <1>1, <3>3, <3>4, <3>5 DEF Finds, TenantRows
    <2>3. CASE SearchAnswered(c)
        BY <1>1, <2>3 DEF SearchAnswered, Finds, TenantRows, Idle, TypeOK
    <2> QED
        BY <2>1, <2>2, <2>3
<1> QED
    BY <1>3, <1>5, <1>7, <1>8

\* A transaction commits: what it inserts is on the way no more, and what it
\* deletes had arrived.
LEMMA CommitKeeps ==
    ASSUME IInv, NEW c \in Clients, Commit(c)
    PROVE  Keeps
<1> USE VectorStoresAssumption DEF Keeps, IInv, history
<1>0. /\ call[c] \in Update /\ call'[c].stage = "done" /\ call'[c].op = call[c].op
      /\ call'[c].rows = call[c].rows /\ call'[c].doc = call[c].doc /\ call[c].stage = "sent"
      /\ \A e \in Clients \ {c} : call'[e] = call[e]
    BY CallCases DEF Commit, TypeOK, Update
<1>1. /\ UNCHANGED <<provider, log, adrift, home, acked, gone>> /\ ~Local /\ log = <<>>
      /\ call[c].op = "insert" => held' = [held EXCEPT ![NoOne] = @ \cup call[c].rows]
      /\ call[c].op = "delete" => held' = [held EXCEPT ![NoOne] = @ \ DocRows(call[c].doc)]
    BY <1>0 DEF Commit, Local, OwnParts, Effect, RequestOf, Inserted, Without, Update
<1>2. OwnParts'
    BY <1>0, <1>1 DEF OwnParts, Local, TypeOK, Update
<1>3. \A r : OnTheWay(r)' => OnTheWay(r)
    BY <1>0, <1>1 DEF OnTheWay, SentBy, Inserts
<1>4. FreshRows'
    BY <1>0, <1>1, <1>3 DEF FreshRows, OnTheWay, Arrived, Logged, Stored, SentBy, DoneBy, TypeOK, Update, Inserts
<1>5. SentOnce'
    BY <1>0, <1>1, <1>3 DEF SentOnce, OnTheWay, Arrived, SentBy, DoneBy, TypeOK, Update, Inserts
<1>6. Deletes'
    <2>1. Len(log) = 0 /\ \A r : ~Logged(r)'
        BY <1>1 DEF Logged
    <2>2. \A r \in Rows : Buried(r) => Buried(r)'
        <3>1. ASSUME NEW r \in Rows, Buried(r) PROVE ~Stored(r)'
            <4>1. call[c].op = "insert" => r \notin call[c].rows
                BY <1>0, <3>1 DEF Buried, OnTheWay, SentBy
            <4> QED
                BY <1>0, <1>1, <3>1, <4>1 DEF Buried, Stored, TypeOK, Update
        <3> QED
            BY <1>1, <1>3, <2>1, <3>1 DEF Buried
    <2>3. ASSUME call[c].op = "delete", NEW r \in call[c].rows PROVE Buried(r)'
        <3>1. r \in acked /\ r \in DocRows(call[c].doc) /\ r \in Rows
            BY <1>0, <2>3 DEF Deletes, TypeOK
        <3>2. home[r] # NoOne /\ ~OnTheWay(r)
            BY <3>1 DEF SentOnce, FreshRows, Arrived
        <3>3. ~Stored(r)'
            BY <1>1, <2>3, <3>1 DEF Stored, OwnParts, TypeOK
        <3> QED
            BY <1>1, <1>3, <2>1, <3>1, <3>2, <3>3 DEF Buried
    <2>4. \A e \in Clients : call'[e].stage \in {"sent", "logged", "done"} /\ call'[e].op = "delete" =>
              /\ call'[e].rows \subseteq acked' \cap DocRows(call'[e].doc)
              /\ call'[e].stage = "done" => \A r \in call'[e].rows : Buried(r)'
        BY <1>0, <1>1, <2>2, <2>3 DEF Deletes, DocRows, TypeOK
    <2>5. \A r \in gone : Buried(r)'
        BY <2>2 DEF Deletes, TypeOK
    <2> QED
        BY <1>1, <2>1, <2>4, <2>5 DEF Deletes, DocRows
<1>7. Finds'
    BY <1>0, <1>1 DEF Finds, TenantRows
<1> QED
    BY <1>2, <1>4, <1>5, <1>6, <1>7

\* An insert is answered: its rows were in the store or the log already.
LEMMA InsertAnsweredKeeps ==
    ASSUME IInv, NEW c \in Clients, InsertAnswered(c)
    PROVE  Keeps
<1> USE VectorStoresAssumption DEF Keeps, IInv, history
<1>0. /\ call[c] \in Update /\ call'[c] = Idle /\ call'[c].stage = "idle"
      /\ call[c].stage = "done" /\ call[c].op = "insert"
      /\ \A e \in Clients \ {c} : call'[e] = call[e]
    BY CallCases DEF InsertAnswered, TypeOK, Update, Idle
<1>1. UNCHANGED <<provider, held, log, adrift, home, gone>> /\ acked' = acked \cup call[c].rows
    BY DEF InsertAnswered
<1>2. OwnParts'
    BY <1>0, <1>1 DEF OwnParts, Local
<1>3. /\ \A e \in Clients : SentBy(e)' = SentBy(e)
      /\ \A e \in Clients \ {c} : DoneBy(e)' = DoneBy(e)
      /\ DoneBy(c) = call[c].rows /\ DoneBy(c)' = {}
    BY <1>0, <1>1 DEF SentBy, DoneBy
<1>4. \A r \in Rows : Arrived(r)' <=> Arrived(r)
    BY <1>1, <1>3 DEF Arrived
<1>5. FreshRows' /\ SentOnce'
    BY <1>1, <1>3, <1>4 DEF FreshRows, SentOnce, OnTheWay, Logged, Stored, Inserts
<1>6. \A r \in Rows : Buried(r) => Buried(r)'
    BY <1>1, <1>3 DEF Buried, OnTheWay, Logged, Stored, Inserts
<1>7. Deletes'
    <2>1. \A i \in 1..Len(log) : \A e \in Clients : log[i].by = e => Awaited(i, e)'
        BY <1>0, <1>1 DEF Deletes, Awaited, Inserts
    <2>2. \A e \in Clients : call'[e].stage \in {"sent", "logged", "done"} /\ call'[e].op = "delete" =>
              /\ call'[e].rows \subseteq acked' \cap DocRows(call'[e].doc)
              /\ call'[e].stage = "done" => \A r \in call'[e].rows : Buried(r)'
        BY <1>0, <1>1, <1>6 DEF Deletes, DocRows, TypeOK
    <2>3. \A r \in gone : Buried(r)'
        BY <1>6 DEF Deletes, TypeOK
    <2> QED
        BY <1>1, <2>1, <2>2, <2>3 DEF Deletes, DocRows
<1>8. Finds'
    BY <1>0, <1>1 DEF Finds, TenantRows
<1> QED
    BY <1>2, <1>5, <1>7, <1>8

\* A delete is answered: its rows are buried.
LEMMA DeleteAnsweredKeeps ==
    ASSUME IInv, NEW c \in Clients, DeleteAnswered(c)
    PROVE  Keeps
<1> USE VectorStoresAssumption DEF Keeps, IInv, history
<1>0. /\ call[c] \in Update /\ call'[c] = Idle /\ call'[c].stage = "idle"
      /\ call[c].stage = "done" /\ call[c].op = "delete"
      /\ \A e \in Clients \ {c} : call'[e] = call[e]
    BY CallCases DEF DeleteAnswered, TypeOK, Update, Idle
<1>1. UNCHANGED <<provider, held, log, adrift, home, acked>> /\ gone' = gone \cup call[c].rows
    BY DEF DeleteAnswered
<1>2. OwnParts'
    BY <1>0, <1>1 DEF OwnParts, Local
<1>3. \A e \in Clients : SentBy(e)' = SentBy(e) /\ DoneBy(e)' = DoneBy(e)
    BY <1>0, <1>1 DEF SentBy, DoneBy
<1>4. FreshRows' /\ SentOnce'
    BY <1>1, <1>3 DEF FreshRows, SentOnce, OnTheWay, Arrived, Logged, Stored, Inserts
<1>5. \A r \in Rows : Buried(r) => Buried(r)'
    BY <1>1, <1>3 DEF Buried, OnTheWay, Logged, Stored, Inserts
<1>6. Deletes'
    <2>1. \A i \in 1..Len(log) : \A e \in Clients : log[i].by = e => Awaited(i, e)'
        BY <1>0, <1>1 DEF Deletes, Awaited, Inserts
    <2>2. \A e \in Clients : call'[e].stage \in {"sent", "logged", "done"} /\ call'[e].op = "delete" =>
              /\ call'[e].rows \subseteq acked' \cap DocRows(call'[e].doc)
              /\ call'[e].stage = "done" => \A r \in call'[e].rows : Buried(r)'
        BY <1>0, <1>1, <1>5 DEF Deletes, DocRows, TypeOK
    <2>3. \A r \in gone' : Buried(r)'
        BY <1>0, <1>1, <1>5 DEF Deletes, TypeOK, Update
    <2> QED
        BY <1>1, <2>1, <2>2, <2>3 DEF Deletes, DocRows
<1>7. Finds'
    BY <1>0, <1>1 DEF Finds, TenantRows
<1> QED
    BY <1>2, <1>4, <1>6, <1>7

\* An update enters the log: an insert was on the way, so no delete that waits
\* there has its rows; a delete comes after all of its rows.
LEMMA ReceiveKeeps ==
    ASSUME IInv, NEW c \in Clients, Receive(c)
    PROVE  Keeps
<1> USE VectorStoresAssumption DEF Keeps, IInv, history
<1>n. PICK n \in Nat : n = Len(log)
    BY LenProperties DEF TypeOK
<1>0. /\ call[c] \in Update /\ call[c].stage = "sent" /\ call'[c].op = call[c].op
      /\ call'[c].stage = IF call[c].op = "insert" THEN "done" ELSE "logged"
      /\ call'[c].rows = call[c].rows /\ call'[c].doc = call[c].doc
      /\ \A e \in Clients \ {c} : call'[e] = call[e]
    BY CallCases DEF Receive, TypeOK, Update
<1>1. /\ UNCHANGED <<provider, held, adrift, home, acked, gone>> /\ provider = "qdrant"
      /\ log' = Append(log, RequestOf(c))
    BY DEF Receive
<1>2. /\ Len(log') = n + 1 /\ n \in Nat /\ \A i \in 1..n : log'[i] = log[i]
      /\ log'[n + 1] = RequestOf(c)
    BY <1>n, <1>0, <1>1, RequestIsTyped, Appended, LenProperties DEF TypeOK
<1>3. /\ log'[n + 1].op = call[c].op /\ log'[n + 1].rows = call[c].rows
      /\ log'[n + 1].doc = call[c].doc
      /\ log'[n + 1].by = IF call[c].op = "delete" THEN c ELSE NoOne
    BY <1>2 DEF RequestOf
<1>4. OwnParts'
    BY <1>0, <1>1 DEF OwnParts, Local
<1>5. /\ \A e \in Clients \ {c} : SentBy(e)' = SentBy(e) /\ DoneBy(e)' = DoneBy(e)
      /\ DoneBy(c) = {} /\ SentBy(c)' = {}
      /\ DoneBy(c)' = SentBy(c)
      /\ Inserts(log'[n + 1]) = SentBy(c)
    BY <1>0, <1>3 DEF SentBy, DoneBy, Inserts
<1>6. /\ \A r : OnTheWay(r)' => \/ OnTheWay(r) /\ r \notin SentBy(c)
                               \/ \E q \in adrift : r \in Inserts(q)
      /\ \A r : Arrived(r)' <=> (Arrived(r) \/ r \in SentBy(c))
    <2>1. \A r : Arrived(r)' <=> (Arrived(r) \/ r \in SentBy(c))
        BY <1>1, <1>5 DEF Arrived
    <2>2. ASSUME NEW r, OnTheWay(r)', ~\E q \in adrift : r \in Inserts(q)
          PROVE  OnTheWay(r) /\ r \notin SentBy(c)
        <3>1. PICK e \in Clients : e # c /\ r \in SentBy(e)
            BY <1>1, <1>5, <2>2 DEF OnTheWay, Inserts
        <3> QED
            BY <3>1 DEF OnTheWay, SentOnce
    <2> QED
        BY <2>1, <2>2
<1>7. \A r : /\ Logged(r)' => Logged(r) \/ r \in SentBy(c)
             /\ OnTheWay(r)' => OnTheWay(r)
    <2>1. ASSUME NEW r, Logged(r)' PROVE Logged(r) \/ r \in SentBy(c)
        <3>1. PICK i \in 1..(n + 1) : r \in Inserts(log'[i])
            BY <1>2, <2>1 DEF Logged, Inserts
        <3> QED
            BY <1>n, <1>2, <1>5, <3>1 DEF Logged, Inserts
    <2>2. ASSUME NEW r, OnTheWay(r)' PROVE OnTheWay(r)
        BY <1>1, <1>6, <2>2 DEF OnTheWay
    <2> QED
        BY <2>1, <2>2
<1>8. FreshRows'
    <2>1. \A r \in SentBy(c) : OnTheWay(r)
        BY DEF OnTheWay
    <2> QED
        BY <1>1, <1>6, <1>7, <2>1 DEF FreshRows, Stored
<1>9. SentOnce'
    <2>1. \A r \in Rows : OnTheWay(r)' => ~Arrived(r)'
        BY <1>6, <1>7 DEF SentOnce
    <2> QED
        BY <1>1, <1>5, <2>1 DEF SentOnce, Inserts
<1>10. \A r \in Rows : Buried(r) => Buried(r)'
    <2>1. \A r \in SentBy(c) : OnTheWay(r)
        BY DEF OnTheWay
    <2> QED
        BY <1>1, <1>7, <2>1 DEF Buried, Stored
<1>11. Deletes'
    <2>1. ASSUME NEW i \in 1..n, NEW e \in Clients, log[i].by = e PROVE Awaited(i, e)'
        <3>1. Awaited(i, e) /\ e # c
            <4>1. Awaited(i, e)
                BY <1>n, <2>1 DEF Deletes
            <4> QED
                BY <1>0, <4>1 DEF Awaited
        <3>2. call[e].rows \cap Inserts(log'[n + 1]) = {}
            <4>1. call[e].rows \subseteq acked /\ call[e].rows \subseteq Rows
                BY <3>1 DEF Deletes, Awaited, TypeOK
            <4>2. \A r \in Rows : r \in SentBy(c) => r \notin acked
                BY DEF SentOnce, OnTheWay, Arrived
            <4> QED
                BY <1>5, <4>1, <4>2
        <3>3. log'[n + 1].by # e
            BY <1>3, <3>1
        <3> QED
            BY <1>n, <1>0, <1>2, <3>1, <3>2, <3>3 DEF Awaited, Inserts
    <2>2. ASSUME NEW e \in Clients, log'[n + 1].by = e PROVE Awaited(n + 1, e)'
        <3>1. e = c /\ call[c].op = "delete"
            BY <1>3, <2>2
        <3>2. \A i \in 1..n : log[i].by # c
            BY <1>n, <1>0 DEF Deletes, Awaited
        <3> QED
            BY <1>n, <1>0, <1>2, <1>3, <3>1, <3>2 DEF Awaited
    <2>3. \A e \in Clients : call'[e].stage \in {"sent", "logged", "done"} /\ call'[e].op = "delete" =>
              /\ call'[e].rows \subseteq acked' \cap DocRows(call'[e].doc)
              /\ call'[e].stage = "done" => \A r \in call'[e].rows : Buried(r)'
        <3>1. ASSUME NEW e \in Clients, e # c,
                     call'[e].stage \in {"sent", "logged", "done"}, call'[e].op = "delete"
              PROVE  /\ call'[e].rows \subseteq acked' \cap DocRows(call'[e].doc)
                     /\ call'[e].stage = "done" => \A r \in call'[e].rows : Buried(r)'
            <4>1. call'[e] = call[e]
                BY <1>0, <3>1
            <4>2. /\ call[e].rows \subseteq acked \cap DocRows(call[e].doc)
                  /\ call[e].stage = "done" => \A r \in call[e].rows : Buried(r)
                BY <3>1, <4>1 DEF Deletes
            <4> QED
                BY <1>1, <1>10, <4>1, <4>2 DEF DocRows
        <3>2. call[c].op = "delete" => /\ call'[c].stage = "logged"
                                       /\ call'[c].rows \subseteq acked' \cap DocRows(call'[c].doc)
            BY <1>0, <1>1 DEF Deletes
        <3> QED
            BY <1>0, <3>1, <3>2
    <2>4. \A r \in gone : Buried(r)'
        BY <1>10 DEF Deletes, TypeOK
    <2>5. \A i \in 1..Len(log') : \A e \in Clients : log'[i].by = e => Awaited(i, e)'
        BY <1>2, <2>1, <2>2
    <2> QED
        BY <1>1, <2>3, <2>4, <2>5 DEF Deletes, DocRows
<1>12. Finds'
    BY <1>0, <1>1 DEF Finds, TenantRows
<1> QED
    BY <1>4, <1>8, <1>9, <1>11, <1>12

\* Clients that give up or die leave their requests adrift or lost.
LEMMA WithdrawnKeeps ==
    ASSUME IInv, NEW C \in SUBSET Clients, NEW S \in SUBSET {c \in C : call[c].stage = "sent"},
           call' = [c \in Clients |-> IF c \in C THEN Idle ELSE call[c]],
           adrift' = adrift \cup {[RequestOf(c) EXCEPT !.by = NoOne] : c \in S},
           Detached(C),
           \A s \in Processes \cup {NoOne} : held'[s] \subseteq held[s],
           UNCHANGED <<provider, home, acked, gone>>
    PROVE  Keeps
<1> USE VectorStoresAssumption DEF Keeps, IInv
<1>1. /\ log' \in Seq(Request) /\ Len(log') = Len(log)
      /\ \A i \in 1..Len(log) :
            log'[i] = IF log[i].by \in C THEN [log[i] EXCEPT !.by = NoOne] ELSE log[i]
      /\ \A i \in 1..Len(log) : log[i] \in Request
    <2>1. log \in Seq(Request)
        BY DEF TypeOK
    <2>2. \A i \in 1..Len(log) : log[i] \in Request
        BY <2>1
    <2> QED
        BY <2>1, <2>2, DetachedIsTyped
<1>2. \A i \in 1..Len(log) :
          /\ log'[i].op = log[i].op /\ log'[i].rows = log[i].rows /\ log'[i].doc = log[i].doc
          /\ log'[i].by = IF log[i].by \in C THEN NoOne ELSE log[i].by
          /\ Inserts(log'[i]) = Inserts(log[i])
    <2>1. ASSUME NEW i \in 1..Len(log)
          PROVE  /\ log'[i].op = log[i].op /\ log'[i].rows = log[i].rows /\ log'[i].doc = log[i].doc
                 /\ log'[i].by = IF log[i].by \in C THEN NoOne ELSE log[i].by
        <3>1. CASE log[i].by \in C
            <4>1. log[i] \in Request /\ log'[i] = [log[i] EXCEPT !.by = NoOne]
                BY <1>1, <3>1
            <4> QED
                BY <3>1, <4>1 DEF Request
        <3>2. CASE log[i].by \notin C
            BY <1>1, <3>2
        <3> QED
            BY <3>1, <3>2
    <2> QED
        BY <2>1 DEF Inserts
<1>3. /\ \A c \in C : call'[c] = Idle /\ call'[c].stage = "idle"
      /\ \A e \in Clients \ C : call'[e] = call[e]
    BY DEF Idle
<1>4. \A c \in S : /\ [RequestOf(c) EXCEPT !.by = NoOne].by = NoOne
                    /\ Inserts([RequestOf(c) EXCEPT !.by = NoOne]) = SentBy(c)
    BY DEF RequestOf, Inserts, SentBy
<1>5. OwnParts'
    <2>1. ASSUME provider # "qdrant" PROVE log' = <<>>
        <3>1. log' \in Seq(Request)
            BY <1>1
        <3>2. Len(log') = 0
            BY <1>1, <2>1 DEF OwnParts
        <3> QED
            BY <3>1, <3>2, EmptySeq
    <2>2. ASSUME NEW q \in adrift' PROVE q.by = NoOne
        <3>1. CASE q \in adrift
            BY <3>1 DEF OwnParts
        <3>2. CASE q \notin adrift
            <4>1. PICK c \in S : q = [RequestOf(c) EXCEPT !.by = NoOne]
                BY <3>2
            <4> QED
                BY <1>4, <4>1
        <3> QED
            BY <3>1, <3>2
    <2>3. Local => S = {} /\ adrift' = {}
        BY DEF OwnParts
    <2> QED
        BY ZenonT(60), <1>3, <2>1, <2>2, <2>3 DEF OwnParts, Local, TypeOK
<1>6. /\ \A c \in C : SentBy(c)' = {} /\ DoneBy(c)' = {}
      /\ \A e \in Clients \ C : SentBy(e)' = SentBy(e) /\ DoneBy(e)' = DoneBy(e)
    BY <1>3 DEF SentBy, DoneBy
<1>7. /\ \A r : OnTheWay(r)' => OnTheWay(r)
      /\ \A r : Arrived(r)' => Arrived(r)
      /\ \A r : Logged(r)' => Logged(r)
      /\ \A r : Stored(r)' => Stored(r)
    <2>1. ASSUME NEW r, OnTheWay(r)' PROVE OnTheWay(r)
        <3>1. CASE \E c \in Clients : r \in SentBy(c)'
            BY <1>6, <3>1 DEF OnTheWay
        <3>2. CASE \E q \in adrift' : r \in Inserts(q)
            <4>1. PICK q \in adrift' : r \in Inserts(q)
                BY <3>2
            <4>2. CASE q \in adrift
                BY <4>1, <4>2 DEF OnTheWay
            <4>3. CASE q \notin adrift
                <5>1. PICK c \in S : q = [RequestOf(c) EXCEPT !.by = NoOne]
                    BY <4>3
                <5> QED
                    BY <1>4, <4>1, <5>1 DEF OnTheWay
            <4> QED
                BY <4>2, <4>3
        <3> QED
            BY <2>1, <3>1, <3>2 DEF OnTheWay, Inserts
    <2>2. ASSUME NEW r, Arrived(r)' PROVE Arrived(r)
        BY <1>6, <2>2 DEF Arrived
    <2>3. ASSUME NEW r, Logged(r)' PROVE Logged(r)
        BY <1>1, <1>2, <2>3 DEF Logged, Inserts
    <2>4. ASSUME NEW r, Stored(r)' PROVE Stored(r)
        BY <2>4 DEF Stored
    <2> QED
        BY <2>1, <2>2, <2>3, <2>4
<1>8. FreshRows'
    BY <1>7 DEF FreshRows
<1>9. SentOnce'
    <2>1. \A r \in Rows : OnTheWay(r)' => ~Arrived(r)'
        BY <1>7 DEF SentOnce
    <2>2. \A c, e \in Clients : c # e => SentBy(c)' \cap SentBy(e)' = {}
        BY <1>6 DEF SentOnce
    <2>3. ASSUME NEW c \in Clients, NEW q \in adrift' PROVE SentBy(c)' \cap Inserts(q) = {}
        <3>1. CASE q \in adrift
            BY <1>6, <3>1 DEF SentOnce
        <3>2. CASE q \notin adrift
            <4>1. PICK e \in S : q = [RequestOf(e) EXCEPT !.by = NoOne]
                BY <3>2
            <4> QED
                BY <1>4, <1>6, <4>1 DEF SentOnce
        <3> QED
            BY <3>1, <3>2
    <2>4. ASSUME NEW q \in adrift', NEW t \in adrift', q # t PROVE Inserts(q) \cap Inserts(t) = {}
        <3>1. ASSUME NEW x \in adrift', x \notin adrift
              PROVE  \E c \in S : x = [RequestOf(c) EXCEPT !.by = NoOne] /\ Inserts(x) = SentBy(c)
            BY <1>4, <3>1
        <3>2. CASE q \in adrift /\ t \in adrift
            BY <2>4, <3>2 DEF SentOnce
        <3>3. CASE q \in adrift /\ t \notin adrift
            BY <3>1, <3>3 DEF SentOnce
        <3>4. CASE q \notin adrift /\ t \in adrift
            BY <3>1, <3>4 DEF SentOnce
        <3>5. CASE q \notin adrift /\ t \notin adrift
            <4>1. PICK c \in S : q = [RequestOf(c) EXCEPT !.by = NoOne] /\ Inserts(q) = SentBy(c)
                BY <3>1, <3>5
            <4>2. PICK e \in S : t = [RequestOf(e) EXCEPT !.by = NoOne] /\ Inserts(t) = SentBy(e)
                BY <3>1, <3>5
            <4> QED
                BY <2>4, <4>1, <4>2 DEF SentOnce
        <3> QED
            BY <3>2, <3>3, <3>4, <3>5
    <2> QED
        BY <2>1, <2>2, <2>3, <2>4 DEF SentOnce, Inserts
<1>10. \A r \in Rows : Buried(r) => Buried(r)'
    BY <1>7 DEF Buried
<1>11. Deletes'
    <2>1. ASSUME NEW i \in 1..Len(log'), NEW e \in Clients, log'[i].by = e PROVE Awaited(i, e)'
        <3>1. log[i].by = e /\ e \notin C
            BY <1>1, <1>2, <2>1
        <3>2. Awaited(i, e)
            BY <1>1, <2>1, <3>1 DEF Deletes
        <3>3. call'[e] = call[e]
            BY <1>3, <3>1
        <3>4. ASSUME NEW j \in 1..Len(log')
              PROVE  /\ j > i => call'[e].rows \cap Inserts(log'[j]) = {}
                     /\ log'[j].by = e => j = i
            BY <1>1, <1>2, <3>2, <3>3, <3>4 DEF Awaited
        <3> QED
            BY <1>1, <1>2, <2>1, <3>2, <3>3, <3>4 DEF Awaited, Inserts
    <2>2. ASSUME NEW e \in Clients,
                 call'[e].stage \in {"sent", "logged", "done"}, call'[e].op = "delete"
          PROVE  /\ call'[e].rows \subseteq acked' \cap DocRows(call'[e].doc)
                 /\ call'[e].stage = "done" => \A r \in call'[e].rows : Buried(r)'
        <3>1. call'[e] = call[e]
            BY <1>3, <2>2
        <3>2. /\ call[e].rows \subseteq acked \cap DocRows(call[e].doc)
              /\ call[e].stage = "done" => \A r \in call[e].rows : Buried(r)
            BY <2>2, <3>1 DEF Deletes
        <3> QED
            BY <1>10, <3>1, <3>2 DEF DocRows
    <2>3. \A r \in gone : Buried(r)'
        BY <1>10 DEF Deletes, TypeOK
    <2> QED
        BY <2>1, <2>2, <2>3 DEF Deletes, DocRows
<1>12. Finds'
    BY ZenonT(60), <1>3 DEF Finds, TenantRows
<1> QED
    BY <1>5, <1>8, <1>9, <1>11, <1>12

\* A caller that gives up: one client, whose request may go on.
LEMMA GiveUpKeeps ==
    ASSUME IInv, NEW c \in Clients, GiveUp(c)
    PROVE  Keeps
<1>1. /\ call' = [e \in Clients |-> IF e \in {c} THEN Idle ELSE call[e]]
      /\ Detached({c}) /\ UNCHANGED <<provider, held, home, acked, gone>>
    BY DEF GiveUp, IInv, TypeOK
<1>2. PICK S \in SUBSET {e \in {c} : call[e].stage = "sent"} :
           adrift' = adrift \cup {[RequestOf(e) EXCEPT !.by = NoOne] : e \in S}
    <2>1. CASE adrift' = adrift
        <3>1. adrift' = adrift \cup {[RequestOf(e) EXCEPT !.by = NoOne] : e \in {}}
            BY <2>1
        <3> QED
            BY <3>1
    <2>2. CASE adrift' # adrift
        <3>1. /\ call[c].stage = "sent"
              /\ adrift' = adrift \cup {[RequestOf(e) EXCEPT !.by = NoOne] : e \in {c}}
            BY <2>2 DEF GiveUp
        <3> QED
            BY <3>1
    <2> QED
        BY <2>1, <2>2
<1> QED
    BY <1>1, <1>2, WithdrawnKeeps

\* A process that dies: all of its clients, and what its dictionary holds.
LEMMA DieKeeps ==
    ASSUME IInv, NEW p \in Processes, Die(p)
    PROVE  Keeps
<1> DEFINE there == {c \in Clients : ProcessOf[c] = p}
<1>1. /\ call' = [c \in Clients |-> IF c \in there THEN Idle ELSE call[c]]
      /\ Detached(there) /\ UNCHANGED <<provider, home, acked, gone>>
      /\ held' = [held EXCEPT ![p] = {}]
    BY DEF Die
<1>2. PICK S \in SUBSET {c \in there : call[c].stage = "sent"} :
           adrift' = adrift \cup {[RequestOf(c) EXCEPT !.by = NoOne] : c \in S}
    BY DEF Die
<1>3. \A s \in Processes \cup {NoOne} : held'[s] \subseteq held[s]
    BY <1>1 DEF IInv, TypeOK
<1>4. there \in SUBSET Clients
    OBVIOUS
<1> HIDE DEF there
<1> QED
    BY <1>1, <1>2, <1>3, <1>4, WithdrawnKeeps

\* A request of a caller that gave up takes effect: its rows were on the way,
\* so no deleted row comes back, and nobody waits for it.
LEMMA LandKeeps ==
    ASSUME IInv, Land
    PROVE  Keeps
<1> USE VectorStoresAssumption DEF Keeps, IInv, history
<1>n. PICK n \in Nat : n = Len(log)
    BY LenProperties DEF TypeOK
<1>0. PICK q \in adrift :
          /\ adrift' = adrift \ {q}
          /\ \/ provider = "pgvector" /\ held' = Effect(q) /\ UNCHANGED log
             \/ provider = "qdrant" /\ log' = Append(log, q) /\ UNCHANGED held
    BY DEF Land
<1>1. /\ UNCHANGED <<provider, call, home, acked, gone>> /\ ~Local
      /\ q \in Request /\ q.by = NoOne
    BY <1>0 DEF Land, Local, OwnParts, TypeOK
<1>2. /\ \A c \in Clients : SentBy(c)' = SentBy(c) /\ DoneBy(c)' = DoneBy(c)
      /\ \A r : Arrived(r)' <=> Arrived(r)
    <2>1. \A c \in Clients : SentBy(c)' = SentBy(c) /\ DoneBy(c)' = DoneBy(c)
        BY <1>1 DEF SentBy, DoneBy
    <2> QED
        BY <1>1, <2>1 DEF Arrived
<1>3. \A r : OnTheWay(r)' => OnTheWay(r) /\ r \notin Inserts(q)
    <2>1. ASSUME NEW r, OnTheWay(r)', NEW c \in Clients, r \in SentBy(c)'
          PROVE  OnTheWay(r) /\ r \notin Inserts(q)
        BY <1>2, <2>1 DEF OnTheWay, SentOnce
    <2>2. ASSUME NEW r, NEW t \in adrift', r \in Inserts(t)
          PROVE  OnTheWay(r) /\ r \notin Inserts(q)
        BY <1>0, <2>2 DEF OnTheWay, SentOnce
    <2> QED
        BY <2>1, <2>2 DEF OnTheWay, Inserts
<1>4. \A r \in Inserts(q) : OnTheWay(r)
    BY DEF OnTheWay
<1>5. SentOnce'
    <2>1. \A r \in Rows : OnTheWay(r)' => ~Arrived(r)'
        BY <1>2, <1>3 DEF SentOnce
    <2> QED
        BY <1>0, <1>2, <2>1 DEF SentOnce, Inserts
<1>6. Finds'
    BY <1>1 DEF Finds, TenantRows
<1>7. CASE provider = "pgvector"
    <2>1. /\ held' = Effect(q) /\ log' = log /\ log = <<>> /\ Len(log) = 0
        BY <1>0, <1>7 DEF OwnParts
    <2>2. /\ held' \in [Processes \cup {NoOne} -> SUBSET Rows]
          /\ \A p \in Processes : held'[p] = held[p]
          /\ \A r \in held'[NoOne] : r \in held[NoOne] \/ r \in Inserts(q)
        BY <1>1, <2>1, EffectIsTyped DEF Effect, Inserted, Without, Inserts, TypeOK
    <2>3. OwnParts'
        BY <1>0, <1>1, <2>1, <2>2 DEF OwnParts, Local
    <2>4. /\ \A r : Stored(r)' => Stored(r) \/ r \in Inserts(q)
          /\ \A r : ~Logged(r)'
        BY <2>1, <2>2 DEF Stored, Logged
    <2>5. FreshRows'
        BY <1>1, <1>2, <1>3, <1>4, <2>4 DEF FreshRows
    <2>6. \A r \in Rows : Buried(r) => Buried(r)'
        BY <1>1, <1>3, <1>4, <2>4 DEF Buried
    <2>7. Deletes'
        <3>1. \A r \in gone : Buried(r)'
            BY <2>6 DEF Deletes, TypeOK
        <3>2. \A e \in Clients : call'[e].stage \in {"sent", "logged", "done"} /\ call'[e].op = "delete" =>
                  /\ call'[e].rows \subseteq acked' \cap DocRows(call'[e].doc)
                  /\ call'[e].stage = "done" => \A r \in call'[e].rows : Buried(r)'
            BY <1>1, <2>6 DEF Deletes, DocRows, TypeOK
        <3> QED
            BY <1>1, <2>1, <3>1, <3>2 DEF Deletes, DocRows
    <2> QED
        BY <1>5, <1>6, <2>3, <2>5, <2>7
<1>8. CASE provider = "qdrant"
    <2>1. /\ UNCHANGED held /\ log' = Append(log, q)
        BY <1>0, <1>8
    <2>2. /\ Len(log') = n + 1 /\ \A i \in 1..n : log'[i] = log[i]
          /\ log'[n + 1] = q
        BY <1>n, <1>1, <2>1, Appended DEF TypeOK
    <2>3. OwnParts'
        BY <1>0, <1>1, <1>8, <2>1 DEF OwnParts, Local
    <2>4. /\ \A r : Stored(r)' => Stored(r)
          /\ \A r : Logged(r)' => Logged(r) \/ r \in Inserts(q)
        <3>1. ASSUME NEW r, Logged(r)' PROVE Logged(r) \/ r \in Inserts(q)
            <4>1. PICK i \in 1..(n + 1) : r \in Inserts(log'[i])
                BY <2>2, <3>1 DEF Logged, Inserts
            <4> QED
                BY <1>n, <2>2, <4>1 DEF Logged
        <3> QED
            BY <2>1, <3>1 DEF Stored
    <2>5. FreshRows'
        BY <1>1, <1>2, <1>3, <1>4, <2>4 DEF FreshRows
    <2>6. \A r \in Rows : Buried(r) => Buried(r)'
        BY <1>1, <1>3, <1>4, <2>4 DEF Buried
    <2>7. Deletes'
        <3>1. ASSUME NEW i \in 1..n, NEW e \in Clients, log[i].by = e PROVE Awaited(i, e)'
            <4>1. Awaited(i, e)
                BY <1>n, <3>1 DEF Deletes
            <4>2. call[e].rows \cap Inserts(q) = {}
                <5>1. call[e].rows \subseteq acked /\ call[e].rows \subseteq Rows
                    BY <4>1 DEF Deletes, Awaited, TypeOK
                <5> QED
                    BY <1>4, <5>1 DEF SentOnce, Arrived
            <4>3. q.by # e
                BY <1>1
            <4>4. ASSUME NEW j \in 1..(n + 1)
                  PROVE  /\ j > i => call'[e].rows \cap Inserts(log'[j]) = {}
                         /\ log'[j].by = e => j = i
                <5>1. call'[e].rows = call[e].rows
                    BY <1>1
                <5>2. CASE j \in 1..n
                    <6>1. log'[j] = log[j]
                        BY <2>2, <5>2
                    <6>2. /\ j > i => call[e].rows \cap Inserts(log[j]) = {}
                          /\ log[j].by = e => j = i
                        BY <1>n, <4>1, <5>2 DEF Awaited
                    <6> QED
                        BY <5>1, <6>1, <6>2
                <5>3. CASE j = n + 1
                    <6>1. log'[j] = q
                        BY <2>2, <5>3
                    <6> QED
                        BY <4>2, <4>3, <5>1, <6>1
                <5> QED
                    BY <1>n, <4>4, <5>2, <5>3
            <4> QED
                BY <1>n, <1>1, <2>2, <4>1, <4>4 DEF Awaited, Inserts
        <3>2. \A i \in 1..Len(log') : \A e \in Clients : log'[i].by = e => Awaited(i, e)'
            BY <1>1, <2>2, <3>1
        <3>3. \A r \in gone : Buried(r)'
            BY <2>6 DEF Deletes, TypeOK
        <3>4. \A e \in Clients : call'[e].stage \in {"sent", "logged", "done"} /\ call'[e].op = "delete" =>
                  /\ call'[e].rows \subseteq acked' \cap DocRows(call'[e].doc)
                  /\ call'[e].stage = "done" => \A r \in call'[e].rows : Buried(r)'
            BY <1>1, <2>6 DEF Deletes, DocRows, TypeOK
        <3> QED
            BY <1>1, <3>2, <3>3, <3>4 DEF Deletes, DocRows
    <2> QED
        BY <1>5, <1>6, <2>3, <2>5, <2>7
<1> QED
    BY <1>0, <1>7, <1>8

\* Qdrant applies its oldest update.  When somebody waits for that delete, no
\* later entry of the log and no caller has its rows: they are buried.
LEMMA ApplyKeeps ==
    ASSUME IInv, Apply
    PROVE  Keeps
<1> USE VectorStoresAssumption DEF Keeps, IInv, history
<1> DEFINE q == log[1]
<1>n. PICK n \in Nat : n = Len(log')
    <2>1. log' \in Seq(Request)
        BY HeadTailProperties DEF Apply, TypeOK
    <2> QED
        BY <2>1, LenProperties
<1>0. /\ Len(log) = n + 1 /\ Head(log) = q
      /\ \A i \in 1..n : log'[i] = log[i + 1]
    <2>1. /\ Len(log') = Len(log) - 1 /\ Head(log) = log[1] /\ Len(log) >= 1
          /\ \A i \in 1..Len(log') : log'[i] = log[i + 1]
        BY Dropped DEF Apply, TypeOK
    <2>2. Len(log) \in Nat
        BY LenProperties DEF TypeOK
    <2> QED
        BY <1>n, <2>1, <2>2
<1>1. /\ UNCHANGED <<provider, adrift, home, acked, gone>> /\ provider = "qdrant" /\ ~Local
      /\ held' = Effect(q) /\ q \in Request /\ q = log[1] /\ 1 \in 1..Len(log)
    <2>1. q \in Request /\ 1 \in 1..Len(log)
        BY <1>0 DEF TypeOK
    <2> QED
        BY <1>0, <2>1 DEF Apply, OwnParts, Local
<1>2. \A c \in Clients :
          /\ call[c].stage = "logged" /\ q.by = c => /\ call[c] \in Update /\ call'[c].stage = "done"
                                                    /\ call'[c].op = call[c].op
                                                    /\ call'[c].rows = call[c].rows
                                                    /\ call'[c].doc = call[c].doc
                                                    /\ call[c].op = "delete"
          /\ ~(call[c].stage = "logged" /\ q.by = c) => call'[c] = call[c]
    <2>1. ASSUME NEW c \in Clients, call[c].stage = "logged", q.by = c
          PROVE  /\ call[c] \in Update /\ call'[c] = [call[c] EXCEPT !.stage = "done"]
                 /\ call[c].op = "delete"
        <3>1. Awaited(1, c)
            BY <1>1, <2>1 DEF Deletes
        <3> QED
            BY <1>0, <2>1, <3>1, CallCases DEF Apply, Awaited, TypeOK
    <2>2. ASSUME NEW c \in Clients, ~(call[c].stage = "logged" /\ q.by = c)
          PROVE  call'[c] = call[c]
        BY <1>0, <2>2 DEF Apply
    <2>3. ASSUME NEW c \in Clients, call[c].stage = "logged", q.by = c
          PROVE  /\ call'[c].stage = "done" /\ call'[c].op = call[c].op
                 /\ call'[c].rows = call[c].rows /\ call'[c].doc = call[c].doc
        <3>1. call[c] \in Update /\ call'[c] = [call[c] EXCEPT !.stage = "done"]
            BY <2>1, <2>3
        <3> QED
            BY <3>1 DEF Update
    <2> HIDE DEF q
    <2>4. ASSUME NEW c \in Clients
          PROVE  /\ call[c].stage = "logged" /\ q.by = c => /\ call[c] \in Update /\ call'[c].stage = "done"
                                                           /\ call'[c].op = call[c].op
                                                           /\ call'[c].rows = call[c].rows
                                                           /\ call'[c].doc = call[c].doc
                                                           /\ call[c].op = "delete"
                 /\ ~(call[c].stage = "logged" /\ q.by = c) => call'[c] = call[c]
        <3>1. CASE call[c].stage = "logged" /\ q.by = c
            BY <2>1, <2>3, <3>1
        <3>2. CASE ~(call[c].stage = "logged" /\ q.by = c)
            BY <2>2, <3>2
        <3> QED
            BY <3>1, <3>2
    <2> QED
        BY <2>4
<1>3. \A c \in Clients : SentBy(c)' = SentBy(c) /\ DoneBy(c)' = DoneBy(c)
    BY <1>2 DEF SentBy, DoneBy
<1>4. /\ \A r : OnTheWay(r)' <=> OnTheWay(r)
      /\ \A r : Arrived(r)' <=> Arrived(r)
    <2>1. \A r : OnTheWay(r)' <=> OnTheWay(r)
        BY <1>1, <1>3 DEF OnTheWay, Inserts
    <2>2. \A r : Arrived(r)' <=> Arrived(r)
        BY <1>1, <1>3 DEF Arrived
    <2> QED
        BY <2>1, <2>2
<1>5. /\ \A r : Logged(r)' => Logged(r)
      /\ \A r \in Inserts(q) : Logged(r)
    <2>1. ASSUME NEW r, Logged(r)' PROVE Logged(r)
        <3>1. PICK i \in 1..n : r \in Inserts(log'[i])
            BY <1>n, <2>1 DEF Logged, Inserts
        <3>2. i + 1 \in 1..Len(log) /\ log'[i] = log[i + 1]
            BY <1>0, <3>1
        <3> QED
            BY <3>1, <3>2 DEF Logged
    <2>2. \A r \in Inserts(q) : Logged(r)
        BY <1>1 DEF Logged
    <2> QED
        BY <2>1, <2>2
<1>6. /\ held' \in [Processes \cup {NoOne} -> SUBSET Rows]
      /\ \A p \in Processes : held'[p] = held[p]
      /\ \A r \in held'[NoOne] : r \in held[NoOne] \/ r \in Inserts(q)
      /\ q.op = "delete" => held'[NoOne] \cap DocRows(q.doc) = {}
    BY <1>1, EffectIsTyped DEF Effect, Inserted, Without, Inserts, TypeOK, Request
<1>7. OwnParts'
    BY <1>1, <1>6 DEF OwnParts, Local
<1>8. \A r : Stored(r)' => Stored(r) \/ Logged(r)
    BY <1>5, <1>6 DEF Stored
<1>9. FreshRows'
    BY <1>1, <1>4, <1>5, <1>8 DEF FreshRows
<1>10. SentOnce'
    BY <1>1, <1>3, <1>4 DEF SentOnce, Inserts
<1>11. \A r \in Rows : Buried(r) => Buried(r)'
    BY <1>1, <1>4, <1>5, <1>8 DEF Buried
<1>12. ASSUME NEW c \in Clients, call[c].stage = "logged", q.by = c, NEW r \in call[c].rows
       PROVE  Buried(r)'
    <2>1. /\ Awaited(1, c) /\ call[c].op = "delete"
          /\ call[c].rows \subseteq acked \cap DocRows(call[c].doc)
        <3>1. Awaited(1, c)
            BY <1>1, <1>12 DEF Deletes
        <3>2. call[c].op = "delete"
            BY <3>1 DEF Awaited
        <3> QED
            BY <1>12, <3>1, <3>2 DEF Deletes
    <2>2. r \in Rows /\ r \in acked /\ r \in DocRows(call[c].doc) /\ call[c].doc = q.doc
          /\ q.op = "delete"
        BY <1>12, <2>1 DEF Awaited, TypeOK
    <2>3. home[r] # NoOne /\ ~OnTheWay(r)
        BY <2>2 DEF SentOnce, FreshRows, Arrived
    <2>4. ~Logged(r)'
        <3>1. ASSUME NEW i \in 1..n PROVE r \notin Inserts(log'[i])
            <4>1. i + 1 \in 1..Len(log) /\ i + 1 > 1 /\ log'[i] = log[i + 1]
                BY <1>0, <3>1
            <4> QED
                BY <1>12, <2>1, <4>1 DEF Awaited
        <3> QED
            BY <1>n, <3>1 DEF Logged, Inserts
    <2>5. ~Stored(r)'
        BY <1>1, <1>6, <2>2 DEF Stored, OwnParts
    <2> QED
        BY <1>1, <1>4, <2>3, <2>4, <2>5 DEF Buried
<1>13. Deletes'
    <2>1. ASSUME NEW i \in 1..n, NEW e \in Clients, log'[i].by = e PROVE Awaited(i, e)'
        <3>1. i + 1 \in 1..Len(log) /\ log'[i] = log[i + 1] /\ log[i + 1].by = e
            BY <1>0, <2>1
        <3>2. Awaited(i + 1, e)
            BY <3>1 DEF Deletes
        <3>3. q.by # e
            BY <1>1, <3>1, <3>2 DEF Awaited
        <3>4. call'[e] = call[e]
            BY <1>2, <3>3
        <3>5. ASSUME NEW j \in 1..n
              PROVE  /\ j > i => call'[e].rows \cap Inserts(log'[j]) = {}
                     /\ log'[j].by = e => j = i
            <4>1. j + 1 \in 1..Len(log) /\ log'[j] = log[j + 1] /\ (j > i => j + 1 > i + 1)
                BY <1>0, <3>5
            <4>2. log[j + 1].by = e => j + 1 = i + 1
                BY <3>2, <4>1 DEF Awaited
            <4>3. j > i => call[e].rows \cap Inserts(log[j + 1]) = {}
                BY <3>2, <4>1 DEF Awaited
            <4> QED
                BY <3>4, <4>1, <4>2, <4>3
        <3> QED
            BY <1>n, <3>1, <3>2, <3>4, <3>5 DEF Awaited, Inserts
    <2>2. ASSUME NEW e \in Clients,
                 call'[e].stage \in {"sent", "logged", "done"}, call'[e].op = "delete"
          PROVE  /\ call'[e].rows \subseteq acked' \cap DocRows(call'[e].doc)
                 /\ call'[e].stage = "done" => \A r \in call'[e].rows : Buried(r)'
        <3>1. CASE call[e].stage = "logged" /\ q.by = e
            <4>1. call[e].rows \subseteq acked \cap DocRows(call[e].doc)
                BY <1>2, <3>1 DEF Deletes
            <4> QED
                BY <1>1, <1>2, <1>12, <3>1, <4>1
        <3>2. CASE ~(call[e].stage = "logged" /\ q.by = e)
            <4>1. call'[e] = call[e]
                BY <1>2, <3>2
            <4>2. /\ call[e].rows \subseteq acked \cap DocRows(call[e].doc)
                  /\ call[e].stage = "done" => \A r \in call[e].rows : Buried(r)
                BY <2>2, <4>1 DEF Deletes
            <4> QED
                BY <1>1, <1>11, <4>1, <4>2 DEF DocRows
        <3> QED
            BY <3>1, <3>2
    <2>3. \A r \in gone : Buried(r)'
        BY <1>11 DEF Deletes, TypeOK
    <2> QED
        BY <1>n, <1>1, <2>1, <2>2, <2>3 DEF Deletes, DocRows
<1>14. Finds'
    <2>1. \A c \in Clients : call[c].stage = "logged" /\ q.by = c => call'[c].stage = "done"
        BY <1>2
    <2> QED
        BY <1>1, <1>2, <2>1 DEF Finds, TenantRows
<1> QED
    BY <1>7, <1>9, <1>10, <1>13, <1>14

-----------------------------------------------------------------------------
\* Nothing is on its way, arrived or stored initially.
LEMMA InitInvariant == Init => IInv
<1> SUFFICES ASSUME Init PROVE IInv
    OBVIOUS
<1> USE VectorStoresAssumption DEF Init
<1>1. log = <<>> /\ Len(log) = 0
    OBVIOUS
<1>2. \A c \in Clients : call[c].stage = "idle" /\ SentBy(c) = {} /\ DoneBy(c) = {}
    BY DEF Idle, SentBy, DoneBy
<1>3. OwnParts
    BY <1>2 DEF OwnParts
<1>4. FreshRows /\ SentOnce
    BY <1>1, <1>2 DEF FreshRows, SentOnce, OnTheWay, Arrived, Logged, Stored
<1>5. Deletes /\ Finds
    BY <1>1, <1>2 DEF Deletes, Finds
<1> QED
    BY <1>3, <1>4, <1>5, InitTypes DEF IInv

\* Every step keeps the invariant.
LEMMA InvariantStep == IInv /\ [Next]_vars => IInv'
<1> SUFFICES ASSUME IInv, [Next]_vars PROVE IInv'
    OBVIOUS
<1>1. TypeOK'
    BY TypeStep DEF IInv
<1>2. Keeps
    <2>1. CASE UNCHANGED vars
        BY <2>1 DEF vars, Keeps, IInv, OwnParts, FreshRows, SentOnce, Deletes, Finds, Local, OnTheWay,
           Arrived, Logged, Stored, SentBy, DoneBy, Buried, Awaited, Inserts, DocRows, TenantRows
    <2>2. CASE Next
        BY <2>2, StartKeeps, RecreateKeeps, DieKeeps, InsertKeeps, DeleteKeeps, SearchesKeep,
           CommitKeeps, ReceiveKeeps, InsertAnsweredKeeps, DeleteAnsweredKeeps, GiveUpKeeps,
           LandKeeps, ApplyKeeps DEF Next
    <2> QED
        BY <2>1, <2>2
<1> QED
    BY <1>1, <1>2 DEF IInv, Keeps

\* The invariant above holds for any processes, clients and rows.
THEOREM Invariant == Spec => []IInv
BY InitInvariant, InvariantStep, PTL DEF Spec

\* A search finds no row whose insertion and whose document's deletion were
\* answered before it began, and no row of another tenant, in any store and
\* whatever callers give up or processes die.
THEOREM DeletedStaysUnfound == Spec => []DeletedIsUnfound
<1>1. IInv => DeletedIsUnfound
    BY DEF IInv, Finds, DeletedIsUnfound
<1> QED
    BY <1>1, Invariant, PTL

-----------------------------------------------------------------------------
(* The other half: what was answered is kept.  A row that nothing was about *)
(* to remove has no delete of its document under way, so no later entry of  *)
(* the log and no later transaction can take it away again.                 *)

Kept(r) == r \in held[StoreOf(home[r])] \/ Logged(r)

Untouched == \A r \in Rows : home[r] # NoOne /\ r \notin doomed => ~DeleteUnderWay(DocOf[r])

ArrivedIsKept == \A r \in Rows : Arrived(r) /\ r \notin doomed => Kept(r)

SureIsFound == \A c \in Clients :
    /\ call[c].stage \in {"asked", "found"} =>
          call[c].sure \subseteq acked \cap TenantRows(call[c].tenant)
    /\ (call[c].stage = "found" /\ provider # "qdrant" /\ Cardinality(call[c].rows) < TopK)
          => call[c].sure \ doomed \subseteq call[c].rows

KInv == Untouched /\ ArrivedIsKept /\ SureIsFound

\* The log of a typed state, by positions.
LEMMA LogPositions ==
    ASSUME TypeOK
    PROVE  /\ Len(log) \in Nat /\ DOMAIN log = 1..Len(log)
           /\ \A i \in 1..Len(log) : log[i] \in Request
BY LenProperties DEF TypeOK

\* A row stays untouched as long as no delete of its document starts.
LEMMA StillUntouched ==
    ASSUME Untouched,
           \A r \in Rows : home'[r] # NoOne /\ r \notin doomed' => home[r] # NoOne /\ r \notin doomed,
           \A d \in Documents : DeleteUnderWay(d)' => DeleteUnderWay(d)
    PROVE  Untouched'
BY VectorStoresAssumption DEF Untouched

\* A row that arrived was inserted by some process.
LEMMA ArrivedHasHome ==
    ASSUME IInv, NEW r \in Rows, Arrived(r)
    PROVE  home[r] \in Processes /\ home[r] # NoOne
BY DEF IInv, FreshRows, TypeOK

\* What a step that leaves the store, the log and the updates of the callers
\* alone has to show: that the searches find what is sure.
LEMMA QuietStep ==
    ASSUME IInv, KInv, UNCHANGED <<provider, held, log, adrift, home, acked, doomed>>,
           \A c \in Clients : call'[c].stage \in {"sent", "logged", "done"} => call'[c] = call[c]
    PROVE  Untouched' /\ ArrivedIsKept'
<1>1. \A d \in Documents : DeleteUnderWay(d)' => DeleteUnderWay(d)
    BY DEF DeleteUnderWay
<1>2. \A r : Arrived(r)' => Arrived(r)
    BY DEF Arrived, DoneBy
<1>3. \A r : Kept(r)' <=> Kept(r)
    BY DEF Kept, Logged, StoreOf, Inserts
<1> QED
    BY <1>1, <1>2, <1>3, StillUntouched DEF KInv, ArrivedIsKept

\* A start-up without a collection to make.
LEMMA StartKept ==
    ASSUME IInv, KInv, NEW p \in Processes, Start(p) \/ CollectionMissing(p)
    PROVE  KInv'
<1>1. UNCHANGED <<provider, held, log, call, adrift, home, acked, doomed>>
    BY DEF Start, CollectionMissing, history
<1>2. Untouched' /\ ArrivedIsKept'
    BY <1>1, QuietStep
<1>3. SureIsFound'
    BY <1>1 DEF KInv, SureIsFound, TenantRows
<1> QED
    BY <1>2, <1>3 DEF KInv

\* A new collection removes every row of the shared store.
LEMMA RecreateKept ==
    ASSUME IInv, KInv, NEW p \in Processes, Recreate(p)
    PROVE  KInv'
<1> USE VectorStoresAssumption
<1>1. /\ UNCHANGED <<provider, call, adrift, home, acked>> /\ doomed' = doomed \cup PutAt(p)
      /\ held' = [held EXCEPT ![NoOne] = {}] /\ log' = <<>>
    BY DEF Recreate
<1>2. \A d \in Documents : DeleteUnderWay(d)' => DeleteUnderWay(d)
    BY <1>1 DEF DeleteUnderWay
<1>3. Untouched'
    BY <1>1, <1>2, StillUntouched DEF KInv
<1>4. ASSUME NEW r \in Rows, Arrived(r)', r \notin doomed' PROVE Kept(r)'
    <2>1. Arrived(r) /\ r \notin doomed /\ r \notin PutAt(p)
        BY <1>1, <1>4 DEF Arrived, DoneBy
    <2>2. home[r] \in Processes /\ home[r] # NoOne /\ Kept(r)
        BY <2>1, ArrivedHasHome DEF KInv, ArrivedIsKept
    <2>3. provider = "in_memory"
        BY <2>1, <2>2 DEF PutAt, StoreOf
    <2>4. ~Logged(r) /\ r \in held[home[r]]
        <3>1. log = <<>>
            BY <2>3 DEF IInv, OwnParts
        <3> QED
            BY <2>2, <2>3, <3>1 DEF Kept, Logged, StoreOf
    <2> QED
        BY <1>1, <2>2, <2>3, <2>4 DEF Kept, StoreOf, IInv, TypeOK
<1>5. SureIsFound'
    BY <1>1 DEF KInv, SureIsFound, TenantRows
<1> QED
    BY <1>3, <1>4, <1>5 DEF KInv, ArrivedIsKept

\* New rows: those of a document that is being deleted are given up on, the
\* others have nothing against them.
LEMMA InsertKept ==
    ASSUME IInv, KInv, NEW c \in Clients, Insert(c)
    PROVE  KInv'
<1> USE VectorStoresAssumption
<1> DEFINE p == ProcessOf[c]
<1>0. PICK d \in Documents, R \in SUBSET Rows :
          /\ NewRows(d, R)
          /\ home' = [r \in Rows |-> IF r \in R THEN p ELSE home[r]]
          /\ doomed' = IF DeleteUnderWay(d) THEN doomed \cup R ELSE doomed
          /\ \/ /\ Local
                /\ held' = Inserted(p, R)
                /\ acked' = acked \cup R
                /\ UNCHANGED call
             \/ /\ ~Local
                /\ call' = [call EXCEPT ![c] =
                               [stage |-> "sent", op |-> "insert", doc |-> d, rows |-> R]]
                /\ UNCHANGED <<held, acked>>
    BY DEF Insert
<1>1. /\ UNCHANGED <<provider, log, adrift>> /\ p \in Processes /\ p # NoOne
      /\ call[c] = Idle /\ call[c].stage = "idle"
    BY DEF Insert, Free, Idle
<1>2. /\ R \subseteq DocRows(d)
      /\ \A r \in R : home[r] = NoOne /\ home'[r] = p /\ DocOf[r] = d
      /\ \A r \in Rows \ R : home'[r] = home[r]
    BY <1>0 DEF NewRows, DocRows
<1>3. \A e \in Clients : call'[e] = call[e] \/ (e = c /\ call'[e].stage = "sent" /\ call'[e].op = "insert")
    BY <1>0 DEF IInv, TypeOK
<1>4. \A k \in Documents : DeleteUnderWay(k)' => DeleteUnderWay(k)
    BY <1>1, <1>3 DEF DeleteUnderWay
<1>5. Untouched'
    BY <1>0, <1>2, <1>4 DEF KInv, Untouched
<1>6. ASSUME NEW r \in Rows, Arrived(r)', r \notin doomed' PROVE Kept(r)'
    <2>1. Arrived(r) \/ (Local /\ r \in R)
        BY <1>0, <1>3, <1>6 DEF Arrived, DoneBy
    <2>2. CASE Arrived(r)
        <3>1. r \notin doomed /\ home[r] # NoOne /\ Kept(r) /\ home[r] \in Processes
            BY <1>0, <1>6, <2>2, ArrivedHasHome DEF KInv, ArrivedIsKept
        <3>2. home'[r] = home[r]
            BY <1>2, <3>1
        <3>3. Logged(r) => Logged(r)'
            BY <1>1 DEF Logged, Inserts
        <3>4. \A x \in Processes \cup {NoOne} : held[x] \subseteq held'[x]
            BY <1>0 DEF Inserted, IInv, TypeOK
        <3> QED
            BY <1>1, <3>1, <3>2, <3>3, <3>4 DEF Kept, StoreOf
    <2>3. CASE Local /\ r \in R /\ ~Arrived(r)
        <3>1. held' = [held EXCEPT ![p] = @ \cup R]
            BY <1>0, <2>3 DEF Inserted
        <3> QED
            BY <1>1, <1>2, <2>3, <3>1 DEF Kept, StoreOf, Local, IInv, TypeOK
    <2> QED
        BY <2>1, <2>2, <2>3
<1>7. SureIsFound'
    BY <1>0, <1>1, <1>3 DEF KInv, SureIsFound, TenantRows
<1> QED
    BY <1>5, <1>6, <1>7 DEF KInv, ArrivedIsKept

\* A delete is about to remove what has been put where it looks; that is every
\* row of its document, except in the dictionaries of other processes.
LEMMA DeleteKept ==
    ASSUME IInv, KInv, NEW c \in Clients, Delete(c)
    PROVE  KInv'
<1> USE VectorStoresAssumption
<1> DEFINE p == ProcessOf[c]
<1>0. PICK d \in Documents :
          /\ doomed' = doomed \cup (DocRows(d) \cap PutAt(p))
          /\ \/ /\ Local
                /\ held' = Without(p, d)
                /\ UNCHANGED call
             \/ /\ ~Local
                /\ call' = [call EXCEPT ![c] =
                               [stage |-> "sent", op |-> "delete", doc |-> d,
                                rows |-> (DocRows(d) \cap PutAt(p)) \cap acked]]
                /\ UNCHANGED held
    BY DEF Delete
<1>1. /\ UNCHANGED <<provider, log, adrift, home, acked>> /\ p \in Processes /\ p # NoOne
      /\ call[c] = Idle /\ call[c].stage = "idle"
    BY DEF Delete, Free, Idle
<1>2. \A e \in Clients : \/ call'[e] = call[e]
                         \/ ~Local /\ e = c /\ call'[e].stage = "sent" /\ call'[e].op = "delete"
                            /\ call'[e].doc = d
    BY <1>0 DEF IInv, TypeOK
<1>3. Untouched'
    <2>1. ASSUME NEW r \in Rows, home'[r] # NoOne, r \notin doomed' PROVE ~DeleteUnderWay(DocOf[r])'
        <3>1. ~DeleteUnderWay(DocOf[r]) /\ r \notin DocRows(d) \cap PutAt(p)
            BY <1>0, <1>1, <2>1 DEF KInv, Untouched
        <3>2. ~Local => DocOf[r] # d
            BY <1>1, <2>1, <3>1 DEF DocRows, PutAt, StoreOf, Local
        <3> QED
            BY <1>1, <1>2, <3>1, <3>2 DEF DeleteUnderWay
    <2> QED
        BY <2>1 DEF Untouched
<1>4. ASSUME NEW r \in Rows, Arrived(r)', r \notin doomed' PROVE Kept(r)'
    <2>1. Arrived(r) /\ r \notin doomed /\ Kept(r) /\ r \notin DocRows(d) \cap PutAt(p)
        <3>1. Arrived(r)
            BY <1>1, <1>2, <1>4 DEF Arrived, DoneBy
        <3> QED
            BY <1>0, <1>4, <3>1 DEF KInv, ArrivedIsKept
    <2>2. home[r] \in Processes /\ home[r] # NoOne
        BY <2>1, ArrivedHasHome
    <2>3. Logged(r) => Logged(r)'
        BY <1>1 DEF Logged, Inserts
    <2>4. r \in held[StoreOf(home[r])] => r \in held'[StoreOf(home[r])]
        <3>1. CASE Local
            <4>1. held' = [held EXCEPT ![p] = @ \ DocRows(d)]
                BY <1>0, <3>1 DEF Without
            <4>2. home[r] = p => r \notin DocRows(d)
                BY <2>1, <2>2 DEF PutAt
            <4> QED
                BY <1>1, <2>2, <3>1, <4>1, <4>2 DEF StoreOf, Local, IInv, TypeOK
        <3>2. CASE ~Local
            BY <1>0, <3>2
        <3> QED
            BY <3>1, <3>2
    <2> QED
        BY <1>1, <2>1, <2>3, <2>4 DEF Kept, StoreOf
<1>5. SureIsFound'
    BY <1>0, <1>1, <1>2 DEF KInv, SureIsFound, TenantRows
<1> QED
    BY <1>3, <1>4, <1>5 DEF KInv, ArrivedIsKept

\* What is sure is an answered row of the tenant nothing was about to remove;
\* it is in the store when the search reads, and the search reads all of it
\* unless it fills up.
LEMMA SearchesKept ==
    ASSUME IInv, KInv, NEW c \in Clients, Search(c) \/ Read(c) \/ SearchAnswered(c)
    PROVE  KInv'
<1> USE VectorStoresAssumption
<1>1. /\ UNCHANGED <<provider, held, log, adrift, home, acked, doomed>>
      /\ \A e \in Clients \ {c} : call'[e] = call[e]
    BY DEF Search, Read, SearchAnswered, IInv, TypeOK, history
<1>2. call[c].stage \in {"idle", "asked", "found"} /\ call'[c].stage \in {"idle", "asked", "found"}
    <2>1. CASE Search(c)
        BY <2>1 DEF Search, Free, Idle, IInv, TypeOK
    <2>2. CASE Read(c)
        <3>1. call[c] \in Question
            BY <2>2, CallCases DEF Read, IInv, TypeOK
        <3>2. PICK found \in SUBSET Rows :
                  call' = [call EXCEPT ![c].stage = "found", ![c].rows = found]
            BY <2>2 DEF Read
        <3>3. call'[c].stage = "found"
            BY <3>1, <3>2 DEF IInv, TypeOK, Question
        <3> QED
            BY <2>2, <3>3 DEF Read
    <2>3. CASE SearchAnswered(c)
        BY <2>3 DEF SearchAnswered, Idle, IInv, TypeOK
    <2> QED
        BY <2>1, <2>2, <2>3
<1>3. Untouched' /\ ArrivedIsKept'
    BY <1>1, <1>2, QuietStep
<1>4. ASSUME NEW s \in Processes \cup {NoOne}, NEW t \in Tenants, NEW found, NEW sure,
             Nearest(s, t, found), sure \subseteq acked \cap TenantRows(t),
             \A r \in sure : StoreOf(home[r]) = s,
             provider # "qdrant", Cardinality(found) < TopK
      PROVE  sure \ doomed \subseteq found
    <2>1. ASSUME NEW r \in sure \ doomed PROVE r \in held[s] \cap TenantRows(t)
        <3>1. r \in Rows /\ Arrived(r) /\ r \notin doomed /\ r \in TenantRows(t)
            BY <1>4, <2>1 DEF Arrived, IInv, TypeOK
        <3>2. Kept(r)
            BY <3>1 DEF KInv, ArrivedIsKept
        <3>3. ~Logged(r)
            BY <1>4 DEF IInv, OwnParts, Logged
        <3> QED
            BY <1>4, <2>1, <3>1, <3>2, <3>3 DEF Kept
    <2>2. Cardinality(found) # TopK
        BY <1>4
    <2> QED
        BY <1>4, <2>1, <2>2 DEF Nearest
<1>5. /\ call'[c].stage \in {"asked", "found"} => call'[c].sure \subseteq acked \cap TenantRows(call'[c].tenant)
      /\ (call'[c].stage = "found" /\ provider # "qdrant" /\ Cardinality(call'[c].rows) < TopK)
             => call'[c].sure \ doomed \subseteq call'[c].rows
    <2>1. CASE Search(c)
        <3> DEFINE mine(t) == (acked \ doomed) \cap TenantRows(t) \cap PutAt(ProcessOf[c])
        <3>1. PICK t \in Tenants, found \in SUBSET Rows :
                  /\ IF Local THEN Nearest(ProcessOf[c], t, found) ELSE found = {}
                  /\ call' = [call EXCEPT ![c] =
                        [stage |-> IF Local THEN "found" ELSE "asked", tenant |-> t, old |-> gone,
                         sure |-> mine(t), rows |-> found]]
            BY <2>1 DEF Search
        <3>2. /\ call'[c].sure = mine(t) /\ call'[c].rows = found /\ call'[c].tenant = t
              /\ call'[c].stage = "found" => Local /\ Nearest(ProcessOf[c], t, found)
            BY <3>1 DEF IInv, TypeOK
        <3>3. mine(t) \subseteq acked \cap TenantRows(t)
            OBVIOUS
        <3>4. ProcessOf[c] \in Processes /\ (Local => StoreOf(ProcessOf[c]) = ProcessOf[c])
            BY DEF StoreOf, Local
        <3>5. Local => \A r \in mine(t) : StoreOf(home[r]) = ProcessOf[c]
            BY <3>4 DEF PutAt
        <3> HIDE DEF mine
        <3> QED
            BY <1>4, <3>2, <3>3, <3>4, <3>5
    <2>2. CASE Read(c)
        <3>1. PICK found \in SUBSET Rows :
                  /\ Nearest(NoOne, call[c].tenant, found)
                  /\ call' = [call EXCEPT ![c].stage = "found", ![c].rows = found]
            BY <2>2 DEF Read
        <3>2. call[c] \in Question /\ call[c].stage = "asked"
            BY <2>2, CallCases DEF Read, IInv, TypeOK
        <3>3. /\ call'[c].sure = call[c].sure /\ call'[c].tenant = call[c].tenant
              /\ call'[c].rows = found /\ call[c].tenant \in Tenants
            BY <3>1, <3>2 DEF IInv, TypeOK, Question
        <3>4. ~Local /\ call[c].sure \subseteq acked \cap TenantRows(call[c].tenant)
            BY <3>2 DEF IInv, OwnParts, KInv, SureIsFound
        <3>5. \A r \in call[c].sure : StoreOf(home[r]) = NoOne
            BY <3>4 DEF StoreOf, Local
        <3> QED
            BY <1>4, <3>1, <3>3, <3>4, <3>5
    <2>3. CASE SearchAnswered(c)
        BY <2>3 DEF SearchAnswered, Idle, IInv, TypeOK
    <2> QED
        BY <2>1, <2>2, <2>3
<1>6. SureIsFound'
    BY <1>1, <1>5 DEF KInv, SureIsFound, TenantRows
<1> QED
    BY <1>3, <1>6 DEF KInv

\* An update that changes the shared store: what it inserts is there, and what
\* it deletes was doomed.
LEMMA EffectIsKept ==
    ASSUME IInv, KInv, NEW q \in Request, DeleteUnderWay(q.doc) \/ q.op = "insert", ~Local,
           held' = Effect(q), UNCHANGED <<provider, home>>, doomed \subseteq doomed'
    PROVE  /\ \A r \in Inserts(q) : r \in Rows => r \in held'[NoOne]
           /\ \A r \in Rows : home[r] # NoOne /\ r \notin doomed' /\ r \in held[NoOne] => r \in held'[NoOne]
<1> USE VectorStoresAssumption
<1>1. /\ q.op = "insert" => held' = [held EXCEPT ![NoOne] = @ \cup q.rows]
      /\ q.op = "delete" => held' = [held EXCEPT ![NoOne] = @ \ DocRows(q.doc)]
      /\ q.op \in {"insert", "delete"}
    BY DEF Effect, Inserted, Without, Request
<1>2. ASSUME NEW r \in Rows, home[r] # NoOne, r \notin doomed', q.op = "delete"
      PROVE  r \notin DocRows(q.doc)
    BY <1>2 DEF KInv, Untouched, DocRows
<1> QED
    BY <1>1, <1>2 DEF Inserts, IInv, TypeOK

\* A transaction commits.
LEMMA CommitKept ==
    ASSUME IInv, KInv, NEW c \in Clients, Commit(c)
    PROVE  KInv'
<1> USE VectorStoresAssumption
<1>0. /\ call[c] \in Update /\ call'[c].stage = "done" /\ call'[c].op = call[c].op
      /\ call'[c].rows = call[c].rows /\ call'[c].doc = call[c].doc /\ call[c].stage = "sent"
      /\ \A e \in Clients \ {c} : call'[e] = call[e]
    BY CallCases DEF Commit, IInv, TypeOK, Update
<1>1. /\ UNCHANGED <<provider, log, adrift, home, acked, doomed>> /\ ~Local /\ log = <<>>
      /\ held' = Effect(RequestOf(c)) /\ RequestOf(c) \in Request
    BY <1>0, RequestIsTyped DEF Commit, Local, IInv, OwnParts, history
<1>2. /\ RequestOf(c).op = call[c].op /\ RequestOf(c).doc = call[c].doc
      /\ RequestOf(c).rows = call[c].rows
    BY DEF RequestOf
<1>3. DeleteUnderWay(call[c].doc) \/ call[c].op = "insert"
    BY <1>0 DEF DeleteUnderWay, Update
<1>4. /\ \A r \in Inserts(RequestOf(c)) : r \in Rows => r \in held'[NoOne]
      /\ \A r \in Rows : home[r] # NoOne /\ r \notin doomed' /\ r \in held[NoOne] => r \in held'[NoOne]
    BY <1>1, <1>2, <1>3, EffectIsKept
<1>5. \A d \in Documents : DeleteUnderWay(d)' => DeleteUnderWay(d)
    BY <1>0, <1>1 DEF DeleteUnderWay
<1>6. Untouched'
    BY <1>1, <1>5, StillUntouched DEF KInv
<1>7. ASSUME NEW r \in Rows, Arrived(r)', r \notin doomed' PROVE Kept(r)'
    <2>1. Arrived(r) \/ r \in Inserts(RequestOf(c))
        BY <1>0, <1>1, <1>2, <1>7 DEF Arrived, DoneBy, Inserts
    <2>2. Arrived(r) => home[r] # NoOne /\ r \in held[NoOne]
        <3>1. ~Logged(r)
            BY <1>1 DEF Logged
        <3> QED
            BY <1>1, <1>7, <3>1, ArrivedHasHome DEF KInv, ArrivedIsKept, Kept, StoreOf, Local
    <2>3. r \in held'[NoOne]
        BY <1>4, <1>7, <2>1, <2>2
    <2> QED
        BY <1>1, <2>3 DEF Kept, StoreOf, Local
<1>8. SureIsFound'
    BY <1>0, <1>1 DEF KInv, SureIsFound, TenantRows
<1> QED
    BY <1>6, <1>7, <1>8 DEF KInv, ArrivedIsKept

\* A call that ends: its rows were kept when it was done.
LEMMA AnsweredKept ==
    ASSUME IInv, KInv, NEW c \in Clients, InsertAnswered(c) \/ DeleteAnswered(c)
    PROVE  KInv'
<1>0. /\ call'[c] = Idle /\ call'[c].stage = "idle" /\ call[c].stage = "done"
      /\ call[c].op = "insert" => acked' = acked \cup call[c].rows
      /\ call[c].op # "insert" => acked' = acked
      /\ \A e \in Clients \ {c} : call'[e] = call[e]
    BY DEF InsertAnswered, DeleteAnswered, Idle, IInv, TypeOK
<1>1. UNCHANGED <<provider, held, log, adrift, home, doomed>>
    BY DEF InsertAnswered, DeleteAnswered
<1>2. \A d \in Documents : DeleteUnderWay(d)' => DeleteUnderWay(d)
    BY <1>0, <1>1 DEF DeleteUnderWay
<1>3. Untouched'
    BY <1>1, <1>2, StillUntouched DEF KInv
<1>4. \A r : Arrived(r)' => Arrived(r)
    BY <1>0 DEF Arrived, DoneBy
<1>5. \A r : Kept(r)' <=> Kept(r)
    BY <1>1 DEF Kept, Logged, StoreOf, Inserts
<1>6. ArrivedIsKept'
    BY <1>1, <1>4, <1>5 DEF KInv, ArrivedIsKept
<1>7. SureIsFound'
    BY <1>0, <1>1 DEF KInv, SureIsFound, TenantRows
<1> QED
    BY <1>3, <1>6, <1>7 DEF KInv

\* An update enters the log: an insert is kept there.
LEMMA ReceiveKept ==
    ASSUME IInv, KInv, NEW c \in Clients, Receive(c)
    PROVE  KInv'
<1>n. PICK n \in Nat : n = Len(log)
    BY LogPositions DEF IInv
<1>0. /\ call[c] \in Update /\ call[c].stage = "sent" /\ call'[c].op = call[c].op
      /\ call'[c].stage = IF call[c].op = "insert" THEN "done" ELSE "logged"
      /\ call'[c].rows = call[c].rows /\ call'[c].doc = call[c].doc
      /\ \A e \in Clients \ {c} : call'[e] = call[e]
    BY CallCases DEF Receive, IInv, TypeOK, Update
<1>1. /\ UNCHANGED <<provider, held, adrift, home, acked, doomed>>
      /\ log' = Append(log, RequestOf(c)) /\ RequestOf(c) \in Request
    BY <1>0, RequestIsTyped DEF Receive, IInv, history
<1>2. /\ Len(log') = n + 1 /\ \A i \in 1..n : log'[i] = log[i]
      /\ log'[n + 1].op = call[c].op /\ log'[n + 1].doc = call[c].doc
      /\ log'[n + 1].rows = call[c].rows
    <2>1. Len(log') = n + 1 /\ log'[n + 1] = RequestOf(c) /\ \A i \in 1..n : log'[i] = log[i]
        BY <1>n, <1>1, Appended DEF IInv, TypeOK
    <2> QED
        BY <2>1 DEF RequestOf
<1>3. DOMAIN log = 1..n /\ DOMAIN log' = 1..(n + 1)
    <2>1. log' \in Seq(Request)
        BY <1>1 DEF IInv, TypeOK
    <2> QED
        BY <1>n, <1>2, <2>1, LogPositions, LenProperties DEF IInv
<1>4. \A d \in Documents : DeleteUnderWay(d)' => DeleteUnderWay(d)
    BY <1>0, <1>1, <1>2, <1>3 DEF DeleteUnderWay
<1>5. Untouched'
    BY <1>1, <1>4, StillUntouched DEF KInv
<1>6. ASSUME NEW r \in Rows, Arrived(r)', r \notin doomed' PROVE Kept(r)'
    <2>1. Arrived(r) \/ r \in Inserts(log'[n + 1])
        BY <1>0, <1>1, <1>2, <1>6 DEF Arrived, DoneBy, Inserts
    <2>2. CASE Arrived(r)
        <3>1. Kept(r)
            BY <1>1, <1>6, <2>2 DEF KInv, ArrivedIsKept
        <3>2. Logged(r) => Logged(r)'
            BY <1>n, <1>2 DEF Logged, Inserts
        <3> QED
            BY <1>1, <3>1, <3>2 DEF Kept, StoreOf
    <2>3. CASE r \in Inserts(log'[n + 1])
        <3>1. n + 1 \in 1..Len(log')
            BY <1>2
        <3> QED
            BY <2>3, <3>1 DEF Kept, Logged, Inserts
    <2> QED
        BY <2>1, <2>2, <2>3
<1>7. SureIsFound'
    BY <1>0, <1>1 DEF KInv, SureIsFound, TenantRows
<1> QED
    BY SMTT(60), <1>5, <1>6, <1>7 DEF KInv, ArrivedIsKept

\* A step that takes a row away from its store has doomed it.
StillHeld ==
    \A r \in Rows : r \in held[StoreOf(home[r])] =>
        \/ home[r] \notin Processes \/ r \in doomed'
        \/ r \in held'[StoreOf(home[r])]

\* Clients that give up or die: no new delete starts, and the rows that a
\* dictionary loses were doomed by its death.
LEMMA WithdrawnKept ==
    ASSUME IInv, KInv, NEW C \in SUBSET Clients,
           NEW S \in SUBSET {c \in C : call[c].stage = "sent"},
           call' = [c \in Clients |-> IF c \in C THEN Idle ELSE call[c]],
           adrift' = adrift \cup {[RequestOf(c) EXCEPT !.by = NoOne] : c \in S},
           Detached(C), doomed \subseteq doomed',
           StillHeld, UNCHANGED <<provider, home, acked>>
    PROVE  KInv'
<1>1. /\ Len(log') = Len(log) /\ DOMAIN log = 1..Len(log) /\ DOMAIN log' = 1..Len(log)
      /\ \A i \in 1..Len(log) :
            log'[i] = IF log[i].by \in C THEN [log[i] EXCEPT !.by = NoOne] ELSE log[i]
      /\ \A i \in 1..Len(log) : log[i] \in Request
    <2>1. log' \in Seq(Request) /\ Len(log') = Len(log)
        BY DetachedIsTyped DEF IInv, TypeOK
    <2>2. DOMAIN log' = 1..Len(log')
        BY <2>1
    <2> QED
        BY <2>1, <2>2, LogPositions, DetachedIsTyped DEF IInv, TypeOK
<1>2. \A i \in 1..Len(log) :
          log'[i].op = log[i].op /\ log'[i].rows = log[i].rows /\ log'[i].doc = log[i].doc
    BY <1>1 DEF Request
<1>3. /\ \A c \in C : call'[c] = Idle /\ call'[c].stage = "idle"
      /\ \A e \in Clients \ C : call'[e] = call[e]
    BY DEF Idle
<1>4. ASSUME NEW q \in adrift', q.op = "delete" PROVE DeleteUnderWay(q.doc)
    <2>1. CASE q \in adrift
        BY <1>4, <2>1 DEF DeleteUnderWay
    <2>2. CASE q \notin adrift
        <3>1. PICK c \in S : q = [RequestOf(c) EXCEPT !.by = NoOne]
            BY <1>4, <2>2
        <3>2. q.op = call[c].op /\ q.doc = call[c].doc
            BY <3>1 DEF RequestOf
        <3> QED
            BY <1>4, <3>2 DEF DeleteUnderWay
    <2> QED
        BY <2>1, <2>2
<1>5. \A d \in Documents : DeleteUnderWay(d)' => DeleteUnderWay(d)
    <2>1. ASSUME NEW d \in Documents, DeleteUnderWay(d)' PROVE DeleteUnderWay(d)
        <3>1. CASE \E c \in Clients : call'[c].stage \in {"sent", "logged", "done"}
                                      /\ call'[c].op = "delete" /\ call'[c].doc = d
            BY <1>3, <3>1 DEF DeleteUnderWay
        <3>2. CASE \E q \in adrift' : q.op = "delete" /\ q.doc = d
            BY <1>4, <3>2
        <3>3. CASE \E i \in DOMAIN log' : log'[i].op = "delete" /\ log'[i].doc = d
            BY <1>1, <1>2, <3>3 DEF DeleteUnderWay
        <3> QED
            BY <2>1, <3>1, <3>2, <3>3 DEF DeleteUnderWay
    <2> QED
        BY <2>1
<1>6. Untouched'
    BY <1>5, StillUntouched DEF KInv
<1>7. ASSUME NEW r \in Rows, Arrived(r)', r \notin doomed' PROVE Kept(r)'
    <2>1. Arrived(r)
        BY <1>3, <1>7 DEF Arrived, DoneBy
    <2>2. Kept(r) /\ home[r] \in Processes
        BY <1>7, <2>1, ArrivedHasHome DEF KInv, ArrivedIsKept
    <2>3. Logged(r) => Logged(r)'
        BY <1>1, <1>2 DEF Logged, Inserts
    <2> QED
        BY <1>7, <2>2, <2>3 DEF Kept, StoreOf, StillHeld
<1>8. SureIsFound'
    BY SMTT(60), <1>3 DEF KInv, SureIsFound, TenantRows
<1> QED
    BY <1>6, <1>7, <1>8 DEF KInv, ArrivedIsKept

\* A caller that gives up takes no row away.
LEMMA GiveUpKept ==
    ASSUME IInv, KInv, NEW c \in Clients, GiveUp(c)
    PROVE  KInv'
<1>1. /\ call' = [e \in Clients |-> IF e \in {c} THEN Idle ELSE call[e]]
      /\ Detached({c}) /\ UNCHANGED <<provider, held, home, acked, doomed>>
      /\ {c} \in SUBSET Clients /\ doomed \subseteq doomed'
    BY DEF GiveUp, IInv, TypeOK
<1>2. PICK S \in SUBSET {e \in {c} : call[e].stage = "sent"} :
           adrift' = adrift \cup {[RequestOf(e) EXCEPT !.by = NoOne] : e \in S}
    <2>1. CASE adrift' = adrift
        <3>1. adrift' = adrift \cup {[RequestOf(e) EXCEPT !.by = NoOne] : e \in {}}
            BY <2>1
        <3> QED
            BY <3>1
    <2>2. CASE adrift' # adrift
        <3>1. /\ call[c].stage = "sent"
              /\ adrift' = adrift \cup {[RequestOf(e) EXCEPT !.by = NoOne] : e \in {c}}
            BY <2>2 DEF GiveUp
        <3> QED
            BY <3>1
    <2> QED
        BY <2>1, <2>2
<1>3. StillHeld
    BY <1>1 DEF StillHeld
<1> QED
    BY <1>1, <1>2, <1>3, WithdrawnKept

\* A process that dies takes its dictionary along, and what it held is doomed.
LEMMA DieKept ==
    ASSUME IInv, KInv, NEW p \in Processes, Die(p)
    PROVE  KInv'
<1> USE VectorStoresAssumption
<1> DEFINE there == {c \in Clients : ProcessOf[c] = p}
<1>1. /\ call' = [c \in Clients |-> IF c \in there THEN Idle ELSE call[c]]
      /\ Detached(there) /\ UNCHANGED <<provider, home, acked>>
      /\ held' = [held EXCEPT ![p] = {}]
      /\ doomed' = IF Local THEN doomed \cup PutAt(p) ELSE doomed
    BY DEF Die
<1>2. PICK S \in SUBSET {c \in there : call[c].stage = "sent"} :
           adrift' = adrift \cup {[RequestOf(c) EXCEPT !.by = NoOne] : c \in S}
    BY DEF Die
<1>3. ASSUME NEW r \in Rows, home[r] \in Processes, r \notin doomed', r \in held[StoreOf(home[r])]
      PROVE  r \in held'[StoreOf(home[r])]
    <2>1. home[r] # NoOne /\ StoreOf(home[r]) \in Processes \cup {NoOne}
        BY <1>3 DEF StoreOf
    <2>2. StoreOf(home[r]) # p
        BY <1>1, <1>3, <2>1 DEF PutAt, StoreOf, Local
    <2> QED
        BY <1>1, <1>3, <2>1, <2>2 DEF IInv, TypeOK
<1>4. there \in SUBSET Clients /\ doomed \subseteq doomed' /\ StillHeld
    BY <1>1, <1>3 DEF StillHeld
<1> HIDE DEF there
<1> QED
    BY <1>1, <1>2, <1>4, WithdrawnKept

\* A request of a caller that gave up takes effect: if it deletes, the rows of
\* its document were doomed.
LEMMA LandKept ==
    ASSUME IInv, KInv, Land
    PROVE  KInv'
<1>n. PICK n \in Nat : n = Len(log)
    BY LogPositions DEF IInv
<1>0. PICK q \in adrift :
          /\ adrift' = adrift \ {q}
          /\ \/ provider = "pgvector" /\ held' = Effect(q) /\ UNCHANGED log
             \/ provider = "qdrant" /\ log' = Append(log, q) /\ UNCHANGED held
    BY DEF Land
<1>1. /\ UNCHANGED <<provider, call, home, acked, doomed>> /\ ~Local
      /\ q \in Request /\ (DeleteUnderWay(q.doc) \/ q.op = "insert")
    BY <1>0 DEF Land, Local, DeleteUnderWay, Request, IInv, TypeOK, history
<1>2. /\ provider = "qdrant" => /\ DOMAIN log = 1..n /\ DOMAIN log' = 1..(n + 1)
                               /\ Len(log') = n + 1 /\ log'[n + 1] = q
                               /\ \A i \in 1..n : log'[i] = log[i]
      /\ provider # "qdrant" => log' = log /\ log = <<>>
    <2>1. CASE provider = "qdrant"
        <3>1. log' = Append(log, q) /\ log \in Seq(Request) /\ log' \in Seq(Request)
            BY SMTT(60), <1>0, <1>1, <2>1 DEF IInv, TypeOK
        <3>2. Len(log') = n + 1 /\ log'[n + 1] = q /\ \A i \in 1..n : log'[i] = log[i]
            BY <1>n, <1>1, <3>1, Appended
        <3> QED
            BY <1>n, <2>1, <3>1, <3>2, LenProperties
    <2>2. CASE provider # "qdrant"
        BY <1>0, <2>2 DEF IInv, OwnParts
    <2> QED
        BY <2>1, <2>2
<1>3. \A d \in Documents : DeleteUnderWay(d)' => DeleteUnderWay(d)
    <2>1. ASSUME NEW d \in Documents, DeleteUnderWay(d)' PROVE DeleteUnderWay(d)
        <3>1. CASE \E i \in DOMAIN log' : log'[i].op = "delete" /\ log'[i].doc = d
            BY <1>0, <1>2, <3>1 DEF DeleteUnderWay
        <3>2. CASE ~\E i \in DOMAIN log' : log'[i].op = "delete" /\ log'[i].doc = d
            BY <1>0, <1>1, <2>1, <3>2 DEF DeleteUnderWay
        <3> QED
            BY <3>1, <3>2
    <2> QED
        BY <2>1
<1>4. Untouched'
    BY <1>1, <1>3, StillUntouched DEF KInv
<1>5. ASSUME NEW r \in Rows, Arrived(r)', r \notin doomed' PROVE Kept(r)'
    <2>1. Arrived(r) /\ Kept(r) /\ home[r] # NoOne /\ StoreOf(home[r]) = NoOne
        <3>1. Arrived(r)
            BY <1>1, <1>5 DEF Arrived, DoneBy
        <3> QED
            BY <1>1, <1>5, <3>1, ArrivedHasHome DEF KInv, ArrivedIsKept, StoreOf, Local
    <2>2. CASE provider = "qdrant"
        <3>1. held' = held
            BY <1>0, <2>2
        <3>2. Logged(r) => Logged(r)'
            BY <1>n, <1>2, <2>2 DEF Logged, Inserts
        <3> QED
            BY <1>1, <2>1, <3>1, <3>2 DEF Kept, StoreOf
    <2>3. CASE provider # "qdrant"
        <3>1. held' = Effect(q) /\ ~Logged(r)
            BY <1>0, <1>2, <2>3 DEF Logged
        <3>2. r \in held[NoOne]
            BY <2>1, <3>1 DEF Kept
        <3>3. r \in held'[NoOne]
            BY <1>1, <1>5, <2>1, <3>1, <3>2, EffectIsKept
        <3> QED
            BY <1>1, <2>1, <3>3 DEF Kept, StoreOf
    <2> QED
        BY <2>2, <2>3
<1>6. SureIsFound'
    BY <1>1 DEF KInv, SureIsFound, TenantRows
<1> QED
    BY SMTT(60), <1>4, <1>5, <1>6 DEF KInv, ArrivedIsKept

\* Qdrant applies its oldest update: a logged insert moves into the store, and
\* a delete removes only what is doomed.
LEMMA ApplyKept ==
    ASSUME IInv, KInv, Apply
    PROVE  KInv'
<1> DEFINE q == log[1]
<1>n. PICK n \in Nat : n = Len(log')
    <2>1. log' \in Seq(Request)
        BY HeadTailProperties DEF Apply, IInv, TypeOK
    <2> QED
        BY <2>1, LenProperties
<1>0. /\ Len(log) = n + 1 /\ Head(log) = q /\ q \in Request
      /\ DOMAIN log = 1..(n + 1) /\ DOMAIN log' = 1..n
      /\ \A i \in 1..n : log'[i] = log[i + 1]
    <2>1. /\ Len(log') = Len(log) - 1 /\ Head(log) = log[1] /\ Len(log) >= 1
          /\ \A i \in 1..Len(log') : log'[i] = log[i + 1]
        BY Dropped DEF Apply, IInv, TypeOK
    <2>2. Len(log) \in Nat /\ DOMAIN log = 1..Len(log) /\ \A i \in 1..Len(log) : log[i] \in Request
        BY LogPositions DEF IInv
    <2>3. log' \in Seq(Request)
        BY HeadTailProperties DEF Apply, IInv, TypeOK
    <2> QED
        BY <1>n, <2>1, <2>2, <2>3, LenProperties
<1>1. /\ UNCHANGED <<provider, adrift, home, acked, doomed>> /\ ~Local
      /\ held' = Effect(q) /\ (DeleteUnderWay(q.doc) \/ q.op = "insert")
    <2>1. ~Local
        BY DEF Apply, IInv, OwnParts, Local
    <2>2. 1 \in DOMAIN log
        BY <1>0
    <2>3. DeleteUnderWay(q.doc) \/ q.op = "insert"
        BY <1>0, <2>2 DEF DeleteUnderWay, Request
    <2> QED
        BY <1>0, <2>1, <2>3 DEF Apply, history
<1>2. ASSUME NEW c \in Clients
      PROVE  \/ call'[c] = call[c]
             \/ /\ call[c].stage = "logged" /\ call'[c].stage = "done" /\ call[c].op = "delete"
                /\ call'[c].op = call[c].op /\ call'[c].doc = call[c].doc
    <2>1. CASE call[c].stage = "logged" /\ q.by = c
        <3>1. /\ call[c] \in Update /\ call'[c] = [call[c] EXCEPT !.stage = "done"]
              /\ call[c].op = "delete"
            <4>1. 1 \in 1..Len(log)
                BY <1>0
            <4>2. Awaited(1, c)
                BY <2>1, <4>1 DEF IInv, Deletes
            <4> QED
                BY <1>0, <2>1, <4>2, CallCases DEF Apply, Awaited, IInv, TypeOK
        <3> HIDE DEF q
        <3> QED
            BY <2>1, <3>1 DEF Update
    <2>2. CASE ~(call[c].stage = "logged" /\ q.by = c)
        BY <1>0, <2>2 DEF Apply
    <2> QED
        BY <2>1, <2>2
<1>3. \A d \in Documents : DeleteUnderWay(d)' => DeleteUnderWay(d)
    <2>1. ASSUME NEW d \in Documents, DeleteUnderWay(d)' PROVE DeleteUnderWay(d)
        <3>1. CASE \E i \in DOMAIN log' : log'[i].op = "delete" /\ log'[i].doc = d
            <4>1. PICK i \in 1..n : log'[i].op = "delete" /\ log'[i].doc = d
                BY <1>0, <3>1
            <4>2. i + 1 \in DOMAIN log /\ log'[i] = log[i + 1]
                BY <1>0, <4>1
            <4> QED
                BY <4>1, <4>2 DEF DeleteUnderWay
        <3>2. CASE ~\E i \in DOMAIN log' : log'[i].op = "delete" /\ log'[i].doc = d
            BY <1>1, <1>2, <2>1, <3>2 DEF DeleteUnderWay
        <3> QED
            BY <3>1, <3>2
    <2> QED
        BY <2>1
<1>4. Untouched'
    BY <1>1, <1>3, StillUntouched DEF KInv
<1>5. ASSUME NEW r \in Rows, Arrived(r)', r \notin doomed' PROVE Kept(r)'
    <2>1. Arrived(r) /\ Kept(r) /\ home[r] # NoOne /\ StoreOf(home[r]) = NoOne
        <3>1. Arrived(r)
            BY <1>1, <1>2, <1>5 DEF Arrived, DoneBy
        <3> QED
            BY <1>1, <1>5, <3>1, ArrivedHasHome DEF KInv, ArrivedIsKept, StoreOf, Local
    <2>2. /\ \A x \in Inserts(q) : x \in Rows => x \in held'[NoOne]
          /\ r \in held[NoOne] => r \in held'[NoOne]
        BY <1>0, <1>1, <1>5, <2>1, EffectIsKept
    <2>3. Logged(r) => r \in Inserts(q) \/ Logged(r)'
        <3>1. ASSUME Logged(r), r \notin Inserts(q) PROVE Logged(r)'
            <4>1. PICK i \in 1..(n + 1) : r \in Inserts(log[i])
                BY <1>0, <3>1 DEF Logged
            <4>2. i # 1
                BY <3>1, <4>1
            <4>3. i - 1 \in 1..n /\ log'[i - 1] = log[i]
                BY <1>0, <4>1, <4>2
            <4>4. r \in Inserts(log'[i - 1])
                BY <4>1, <4>3
            <4>5. \E j \in 1..Len(log') : r \in Inserts(log'[j])
                BY <1>n, <4>3, <4>4
            <4> QED
                BY <4>5 DEF Logged, Inserts
        <3> QED
            BY <3>1
    <2> QED
        BY <1>1, <2>1, <2>2, <2>3 DEF Kept, StoreOf
<1>6. SureIsFound'
    BY <1>1, <1>2 DEF KInv, SureIsFound, TenantRows
<1> QED
    BY <1>4, <1>5, <1>6 DEF KInv, ArrivedIsKept

\* Every step keeps it.
LEMMA KeptStep == IInv /\ KInv /\ [Next]_vars => KInv'
<1> SUFFICES ASSUME IInv, KInv, [Next]_vars PROVE KInv'
    OBVIOUS
<1>1. CASE UNCHANGED vars
    <2>1. UNCHANGED <<provider, held, log, call, adrift, home, acked, doomed>>
        BY <1>1 DEF vars
    <2>2. Untouched' /\ ArrivedIsKept'
        BY <2>1, QuietStep
    <2>3. SureIsFound'
        BY <2>1 DEF KInv, SureIsFound, TenantRows
    <2> QED
        BY <2>2, <2>3 DEF KInv
<1>2. CASE Next
    BY <1>2, StartKept, RecreateKept, DieKept, InsertKept, DeleteKept, SearchesKept, CommitKept,
       ReceiveKept, AnsweredKept, GiveUpKept, LandKept, ApplyKept DEF Next
<1> QED
    BY <1>1, <1>2

\* An answered insert stays in the store or in the log, and a search that has
\* room for it finds it, until a delete of its document, the death of the
\* process that holds it or another's start-up was about to remove it.
THEOREM AnsweredStays == Spec => []AnsweredIsKept
<1>1. Init => KInv
    <2> SUFFICES ASSUME Init PROVE KInv
        OBVIOUS
    <2>1. \A c \in Clients : call[c].stage = "idle" /\ DoneBy(c) = {}
        BY DEF Init, Idle, DoneBy
    <2> QED
        BY <2>1 DEF Init, KInv, Untouched, ArrivedIsKept, SureIsFound, Arrived
<1>2. KInv /\ IInv => AnsweredIsKept
    <2> SUFFICES ASSUME KInv, IInv PROVE AnsweredIsKept
        OBVIOUS
    <2>1. ASSUME NEW r \in acked \ doomed
          PROVE  \/ r \in held[StoreOf(home[r])]
                 \/ \E i \in DOMAIN log : log[i].op = "insert" /\ r \in log[i].rows
        <3>1. Kept(r)
            BY <2>1 DEF KInv, ArrivedIsKept, Arrived, IInv, TypeOK
        <3> QED
            BY <3>1, LogPositions DEF Kept, Logged, Inserts, IInv
    <2> QED
        BY <2>1 DEF AnsweredIsKept, KInv, SureIsFound
<1>3. [](IInv /\ KInv) => []AnsweredIsKept
    BY <1>2, PTL
<1> QED
    BY <1>1, <1>3, KeptStep, Invariant, PTL DEF Spec
=============================================================================
