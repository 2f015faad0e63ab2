---------------------------- MODULE VectorStores ----------------------------
(***************************************************************************)
(* The vector store as its callers see it, for each provider that          *)
(* vector_store_provider can name.  InMemoryVectorStore is a dictionary of *)
(* the process; its methods never await and so are one step each.          *)
(* PgVectorStore and QdrantStore hand the work to a thread, which goes on  *)
(* when the caller is canceled or times out.  A Qdrant server puts every   *)
(* update into a log it applies in order; it answers an upsert with        *)
(* wait=False at once and a delete after it was applied.                   *)
(*                                                                         *)
(* A row stands for a chunk's vector; chunk ids are new in every attempt   *)
(* of an ingestion, so a row is inserted once.  Distances are left out: a  *)
(* search may find any TopK of the rows it could find.                     *)
(***************************************************************************)
EXTENDS FiniteSets, Naturals, Sequences

CONSTANTS
    Processes,  \* API processes, each with its service container
    Clients,    \* requests and runs that call the store
    ProcessOf,  \* ProcessOf[c]: the process c runs in
    Rows, Documents, Tenants,
    DocOf,      \* DocOf[r]: the document of row r
    TenantOf,   \* TenantOf[d]: the tenant of document d
    TopK,
    MaxLost,    \* bound on the calls given up and on the restarts
    NoOne

Providers == {"in_memory", "pgvector", "qdrant"}

ASSUME VectorStoresAssumption ==
    /\ ProcessOf \in [Clients -> Processes]
    /\ DocOf \in [Rows -> Documents]
    /\ TenantOf \in [Documents -> Tenants]
    /\ TopK \in Nat /\ MaxLost \in Nat
    /\ NoOne \notin Clients \cup Processes

VARIABLES
    provider,    \* settings.vector_store_provider
    ready,       \* ready[p]: how far the start-up of process p is
    collection,  \* whether the Qdrant collection exists
    held,        \* held[p]: rows in the store of process p, or in the shared one
    log,         \* Qdrant: updates taken and not applied, oldest first
    call,        \* what client c does
    adrift,      \* requests whose caller gave up, still to take effect
    home,        \* history: the process that inserted the row
    acked,       \* history: rows whose insertion was answered
    doomed,      \* history: rows something was about to remove
    gone,        \* history: rows whose document was deleted, and that answered
    lost         \* calls given up and restarts so far

vars == <<provider, ready, collection, held, log, call, adrift, home, acked,
          doomed, gone, lost>>

Request == [op : {"insert", "delete"}, rows : SUBSET Rows, doc : Documents,
            by : Clients \cup {NoOne}]  \* by: who waits for it

Idle == [stage |-> "idle"]

\* rows: what an insert inserts, and what a delete has to remove for its
\* answer to be true; old, sure: gone, and what has to be found, at the call.
Call ==
    {Idle}
    \cup [stage : {"sent", "logged", "done"}, op : {"insert", "delete"},
          doc : Documents, rows : SUBSET Rows]
    \cup [stage : {"asked", "found"}, tenant : Tenants, old : SUBSET Rows,
          sure : SUBSET Rows, rows : SUBSET Rows]

TypeOK ==
    /\ provider \in Providers
    /\ ready \in [Processes -> {"down", "creating", "up"}]
    /\ collection \in BOOLEAN
    /\ held \in [Processes \cup {NoOne} -> SUBSET Rows]
    /\ log \in Seq(Request)
    /\ call \in [Clients -> Call]
    /\ adrift \subseteq Request
    /\ home \in [Rows -> Processes \cup {NoOne}]
    /\ acked \subseteq Rows /\ doomed \subseteq Rows /\ gone \subseteq Rows
    /\ lost \in 0..MaxLost

history == <<home, acked, doomed, gone, lost>>

\* The store a process uses.
StoreOf(p) == IF provider = "in_memory" THEN p ELSE NoOne
Local == provider = "in_memory"

DocRows(d) == {r \in Rows : DocOf[r] = d}
TenantRows(t) == {r \in Rows : TenantOf[DocOf[r]] = t}

\* Rows put into the store that process p uses.
PutAt(p) == {r \in Rows : home[r] # NoOne /\ StoreOf(home[r]) = StoreOf(p)}

Init ==
    /\ provider \in Providers
    /\ ready = [p \in Processes |-> "down"]
    /\ collection = FALSE
    /\ held = [s \in Processes \cup {NoOne} |-> {}]
    /\ log = <<>>
    /\ call = [c \in Clients |-> Idle]
    /\ adrift = {}
    /\ home = [r \in Rows |-> NoOne]
    /\ acked = {} /\ doomed = {} /\ gone = {} /\ lost = 0

-----------------------------------------------------------------------------
(* Start-up: acreate_collection. *)

\* The dictionary needs nothing; CREATE ... IF NOT EXISTS leaves a table alone.
Start(p) ==
    /\ ready[p] = "down"
    /\ provider = "qdrant" => collection
    /\ ready' = [ready EXCEPT ![p] = "up"]
    /\ UNCHANGED <<provider, collection, held, log, call, adrift, history>>

CollectionMissing(p) ==
    /\ ready[p] = "down"
    /\ provider = "qdrant" /\ ~collection
    /\ ready' = [ready EXCEPT ![p] = "creating"]
    /\ UNCHANGED <<provider, collection, held, log, call, adrift, history>>

\* recreate_collection removes the collection another process has made and
\* filled since the test.
Recreate(p) ==
    /\ ready[p] = "creating"
    /\ ready' = [ready EXCEPT ![p] = "up"]
    /\ collection' = TRUE
    /\ held' = [held EXCEPT ![NoOne] = {}]
    /\ log' = <<>>
    /\ doomed' = doomed \cup PutAt(p)
    /\ UNCHANGED <<provider, call, adrift, home, acked, gone, lost>>

-----------------------------------------------------------------------------
(* Calls. *)

Free(c) == call[c] = Idle /\ ready[ProcessOf[c]] = "up"

Inserted(s, R) == [held EXCEPT ![s] = @ \cup R]
Without(s, d) == [held EXCEPT ![s] = @ \ DocRows(d)]

\* A delete of d that was called and not answered, or given up.
DeleteUnderWay(d) ==
    \/ \E c \in Clients : call[c].stage \in {"sent", "logged", "done"}
                          /\ call[c].op = "delete" /\ call[c].doc = d
    \/ \E q \in adrift : q.op = "delete" /\ q.doc = d
    \/ \E i \in DOMAIN log : log[i].op = "delete" /\ log[i].doc = d

NewRows(d, R) == R # {} /\ R \subseteq {r \in DocRows(d) : home[r] = NoOne}

\* abatch_insert of rows of a document.
Insert(c) ==
    /\ Free(c)
    /\ \E d \in Documents : \E R \in SUBSET Rows :
         /\ NewRows(d, R)
         /\ home' = [r \in Rows |-> IF r \in R THEN ProcessOf[c] ELSE home[r]]
         /\ doomed' = IF DeleteUnderWay(d) THEN doomed \cup R ELSE doomed
         /\ \/ /\ Local
               /\ held' = Inserted(ProcessOf[c], R)
               /\ acked' = acked \cup R
               /\ UNCHANGED call
            \/ /\ ~Local
               /\ call' = [call EXCEPT ![c] =
                              [stage |-> "sent", op |-> "insert", doc |-> d, rows |-> R]]
               /\ UNCHANGED <<held, acked>>
    /\ UNCHANGED <<provider, ready, collection, log, adrift, gone, lost>>

\* adelete_document.
Delete(c) ==
    /\ Free(c)
    /\ \E d \in Documents :
         LET covered == DocRows(d) \cap PutAt(ProcessOf[c]) IN
         /\ doomed' = doomed \cup covered
         /\ \/ /\ Local
               /\ held' = Without(ProcessOf[c], d)
               /\ gone' = gone \cup (covered \cap acked)
               /\ UNCHANGED call
            \/ /\ ~Local
               /\ call' = [call EXCEPT ![c] =
                              [stage |-> "sent", op |-> "delete", doc |-> d,
                               rows |-> covered \cap acked]]
               /\ UNCHANGED <<held, gone>>
    /\ UNCHANGED <<provider, ready, collection, log, adrift, home, acked, lost>>

\* The nearest rows; Qdrant's index is approximate and may miss some.
Nearest(s, t, found) ==
    LET there == held[s] \cap TenantRows(t) IN
    /\ found \subseteq there /\ Cardinality(found) <= TopK
    /\ provider # "qdrant" => (found = there \/ Cardinality(found) = TopK)

\* asearch.
Search(c) ==
    /\ Free(c)
    /\ \E t \in Tenants : \E found \in SUBSET Rows :
         /\ IF Local THEN Nearest(ProcessOf[c], t, found) ELSE found = {}
         /\ call' = [call EXCEPT ![c] =
               [stage |-> IF Local THEN "found" ELSE "asked", tenant |-> t, old |-> gone,
                sure |-> (acked \ doomed) \cap TenantRows(t) \cap PutAt(ProcessOf[c]),
                rows |-> found]]
    /\ UNCHANGED <<provider, ready, collection, held, log, adrift, history>>

Read(c) ==
    /\ call[c].stage = "asked"
    /\ \E found \in SUBSET Rows :
         /\ Nearest(NoOne, call[c].tenant, found)
         /\ call' = [call EXCEPT ![c].stage = "found", ![c].rows = found]
    /\ UNCHANGED <<provider, ready, collection, held, log, adrift, history>>

-----------------------------------------------------------------------------
(* What the stores do with a request. *)

Effect(q) == IF q.op = "insert" THEN Inserted(NoOne, q.rows) ELSE Without(NoOne, q.doc)

RequestOf(c) == [op |-> call[c].op, rows |-> call[c].rows, doc |-> call[c].doc,
                 by |-> IF call[c].op = "delete" THEN c ELSE NoOne]

\* pgvector: the thread's transaction commits.
Commit(c) ==
    /\ provider = "pgvector" /\ call[c].stage = "sent"
    /\ held' = Effect(RequestOf(c))
    /\ call' = [call EXCEPT ![c].stage = "done"]
    /\ UNCHANGED <<provider, ready, collection, log, adrift, history>>

\* Qdrant: the update is in the log.  An upsert is answered now.
Receive(c) ==
    /\ provider = "qdrant" /\ call[c].stage = "sent"
    /\ log' = Append(log, RequestOf(c))
    /\ call' = [call EXCEPT ![c].stage = IF call[c].op = "insert" THEN "done" ELSE "logged"]
    /\ UNCHANGED <<provider, ready, collection, held, adrift, history>>

\* The same for a request whose caller has given up.
Land ==
    /\ \E q \in adrift :
         /\ adrift' = adrift \ {q}
         /\ \/ provider = "pgvector" /\ held' = Effect(q) /\ UNCHANGED log
            \/ provider = "qdrant" /\ log' = Append(log, q) /\ UNCHANGED held
    /\ UNCHANGED <<provider, ready, collection, call, history>>

\* Qdrant applies the oldest update, and answers it if somebody waits.
Apply ==
    /\ log # <<>>
    /\ held' = Effect(Head(log))
    /\ log' = Tail(log)
    /\ call' = [c \in Clients |->
                   IF call[c].stage = "logged" /\ Head(log).by = c
                   THEN [call[c] EXCEPT !.stage = "done"] ELSE call[c]]
    /\ UNCHANGED <<provider, ready, collection, adrift, history>>

-----------------------------------------------------------------------------
(* Answers, failures. *)

\* Variant: the caller does not await the thread's transaction.  "Variant"
\* operators are plausible errors that no step uses.
InsertUnawaited(c) ==
    /\ call[c].stage \in {"sent", "done"} /\ call[c].op = "insert"
    /\ acked' = acked \cup call[c].rows
    /\ call' = [call EXCEPT ![c] = Idle]
    /\ adrift' = IF call[c].stage = "sent" THEN adrift \cup {RequestOf(c)} ELSE adrift
    /\ UNCHANGED <<provider, ready, collection, held, log, home, doomed, gone, lost>>

InsertAnswered(c) ==
    /\ call[c].stage = "done" /\ call[c].op = "insert"
    /\ acked' = acked \cup call[c].rows
    /\ call' = [call EXCEPT ![c] = Idle]
    /\ UNCHANGED <<provider, ready, collection, held, log, adrift, home, doomed, gone, lost>>

\* Variant: the delete is sent with wait=False, like the upsert.
DeleteUnwaited(c) ==
    /\ call[c].stage \in {"logged", "done"} /\ call[c].op = "delete"
    /\ gone' = gone \cup call[c].rows
    /\ call' = [call EXCEPT ![c] = Idle]
    /\ UNCHANGED <<provider, ready, collection, held, log, adrift, home, acked, doomed, lost>>

DeleteAnswered(c) ==
    /\ call[c].stage = "done" /\ call[c].op = "delete"
    /\ gone' = gone \cup call[c].rows
    /\ call' = [call EXCEPT ![c] = Idle]
    /\ UNCHANGED <<provider, ready, collection, held, log, adrift, home, acked, doomed, lost>>

SearchAnswered(c) ==
    /\ call[c].stage = "found"
    /\ call' = [call EXCEPT ![c] = Idle]
    /\ UNCHANGED <<provider, ready, collection, held, log, adrift, history>>

Detached(C) ==
    log' = [i \in DOMAIN log |-> IF log[i].by \in C THEN [log[i] EXCEPT !.by = NoOne]
                                                    ELSE log[i]]

\* A time-out, a cancellation or an error: the request had no effect, or will
\* have it later.
GiveUp(c) ==
    /\ call[c].stage \in {"sent", "logged", "asked"} /\ lost < MaxLost
    /\ lost' = lost + 1
    /\ call' = [call EXCEPT ![c] = Idle]
    /\ adrift' \in IF call[c].stage = "sent"
                   THEN {adrift, adrift \cup {[RequestOf(c) EXCEPT !.by = NoOne]}}
                   ELSE {adrift}
    /\ Detached({c})
    /\ UNCHANGED <<provider, ready, collection, held, home, acked, doomed, gone>>

\* A process dies, and with it its calls and its dictionary.
Die(p) ==
    /\ ready[p] = "up" /\ lost < MaxLost
    /\ lost' = lost + 1
    /\ ready' = [ready EXCEPT ![p] = "down"]
    /\ LET there == {c \in Clients : ProcessOf[c] = p} IN
         /\ call' = [c \in Clients |-> IF c \in there THEN Idle ELSE call[c]]
         /\ \E sent \in SUBSET {c \in there : call[c].stage = "sent"} :
                adrift' = adrift \cup {[RequestOf(c) EXCEPT !.by = NoOne] : c \in sent}
         /\ Detached(there)
    /\ held' = [held EXCEPT ![p] = {}]
    /\ doomed' = IF Local THEN doomed \cup PutAt(p) ELSE doomed
    /\ UNCHANGED <<provider, collection, home, acked, gone>>

Next ==
    \/ \E p \in Processes : Start(p) \/ CollectionMissing(p) \/ Recreate(p) \/ Die(p)
    \/ \E c \in Clients : \/ Insert(c) \/ Delete(c) \/ Search(c) \/ Read(c)
                          \/ Commit(c) \/ Receive(c)
                          \/ InsertAnswered(c) \/ DeleteAnswered(c) \/ SearchAnswered(c)
                          \/ GiveUp(c)
    \/ Land \/ Apply

Spec == Init /\ [][Next]_vars

-----------------------------------------------------------------------------
(* Properties. *)

\* A search finds no row whose insertion had been answered before the document
\* was deleted, if that delete was answered before the search began; and no
\* row of another tenant.  Upserts that nobody waited for, requests that
\* arrive after their caller gave up and concurrent calls change nothing.
DeletedIsUnfound ==
    \A c \in Clients : call[c].stage = "found" =>
        /\ call[c].rows \cap call[c].old = {}
        /\ call[c].rows \subseteq TenantRows(call[c].tenant)

\* An answered insert is kept: until a delete, the death of the process that
\* holds it or another's start-up removes them, its rows are in the store or
\* in Qdrant's log, and a search of the other stores that has room for them
\* finds them.
AnsweredIsKept ==
    /\ \A r \in acked \ doomed :
          \/ r \in held[StoreOf(home[r])]
          \/ \E i \in DOMAIN log : log[i].op = "insert" /\ r \in log[i].rows
    /\ \A c \in Clients :
          (call[c].stage = "found" /\ provider # "qdrant" /\ Cardinality(call[c].rows) < TopK)
             => call[c].sure \ doomed \subseteq call[c].rows
=============================================================================
