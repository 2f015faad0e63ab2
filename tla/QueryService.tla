---------------------------- MODULE QueryService ----------------------------
(***************************************************************************)
(* A question asked through /chat, /chat/stream or /search/query, as       *)
(* QueryService.answer and stream_answer handle it, and what of it reaches *)
(* the database.  Every request has a database session of its own, given   *)
(* by get_session, whose writes others see once it commits and nobody if   *)
(* it is closed before.  Retrieval and generation are one step each, which *)
(* may raise.                                                              *)
(***************************************************************************)
CONSTANTS
    Requests,   \* questions; a conversation is named by the one that made it
    NoConv      \* no conversation_id in the request

VARIABLES
    stage,      \* how far the handler of r is
    asked,      \* conversation_id in the request
    conv,       \* the conversation r resolved to
    tx,         \* what r's session has written and not committed
    db,         \* committed rows
    history     \* messages r's handler read for the model

vars == <<stage, asked, conv, tx, db, history>>

Conversation(c)   == [table |-> "conversations", id |-> c]
Message(r, role)  == [table |-> "messages", of |-> r, role |-> role, conv |-> conv[r]]
Query(r)          == [table |-> "queries", of |-> r]
Evidence(r)       == [table |-> "evidence", of |-> r]

Init ==
    /\ stage = [r \in Requests |-> "idle"]
    /\ asked = [r \in Requests |-> NoConv]
    /\ conv = [r \in Requests |-> NoConv]
    /\ tx = [r \in Requests |-> {}]
    /\ db = {}
    /\ history = [r \in Requests |-> {}]

Go(r, from, to) == stage[r] = from /\ stage' = [stage EXCEPT ![r] = to]

\* What a statement of r's session sees.
Visible(r) == db \cup tx[r]

\* flush: the rows are r's until it commits.
Write(r, records) == tx' = [tx EXCEPT ![r] = @ \cup records]

\* A client asks, giving no conversation or one it was told of.
Ask(r) ==
    /\ Go(r, "idle", "asked")
    /\ \E c \in {NoConv} \cup {conv[q] : q \in {p \in Requests : stage[p] = "closed"}} :
           asked' = [asked EXCEPT ![r] = c]
    /\ UNCHANGED <<conv, tx, db, history>>

\* _resolve_conversation: the conversation asked for if there is one, else a
\* new one.
Resolve(r) ==
    /\ Go(r, "asked", "resolved")
    /\ \/ /\ asked[r] # NoConv /\ Conversation(asked[r]) \in Visible(r)
          /\ conv' = [conv EXCEPT ![r] = asked[r]]
          /\ UNCHANGED tx
       \/ /\ asked[r] = NoConv \/ Conversation(asked[r]) \notin Visible(r)
          /\ conv' = [conv EXCEPT ![r] = r]
          /\ Write(r, {Conversation(r)})
    /\ UNCHANGED <<asked, db, history>>

\* _get_history, then the question and the query row.
AddQuestion(r) ==
    /\ Go(r, "resolved", "questioned")
    /\ history' = [history EXCEPT ![r] =
                      {m \in Visible(r) : m.table = "messages" /\ m.conv = conv[r]}]
    /\ Write(r, {Message(r, "user"), Query(r)})
    /\ UNCHANGED <<asked, conv, db>>

\* retrieve and build_answer, or the tokens of the stream.
Generate(r) ==
    /\ Go(r, "questioned", "generated")
    /\ UNCHANGED <<asked, conv, tx, db, history>>

\* The answer, its evidence and the latency; the reply, or the done event.
AddAnswer(r) ==
    /\ Go(r, "generated", "answered")
    /\ Write(r, {Message(r, "assistant"), Evidence(r)})
    /\ UNCHANGED <<asked, conv, db, history>>

\* get_session closes the session: what was not committed is rolled back.
Close(r) ==
    /\ Go(r, "answered", "closed")
    /\ tx' = [tx EXCEPT ![r] = {}]
    /\ UNCHANGED <<asked, conv, db, history>>

\* A statement, a provider or the client's connection fails.
Abandon(r) ==
    /\ stage[r] \notin {"idle", "closed", "abandoned"}
    /\ stage' = [stage EXCEPT ![r] = "abandoned"]
    /\ tx' = [tx EXCEPT ![r] = {}]
    /\ UNCHANGED <<asked, conv, db, history>>

Next == \E r \in Requests : \/ Ask(r) \/ Resolve(r) \/ AddQuestion(r) \/ Generate(r)
                            \/ AddAnswer(r) \/ Close(r) \/ Abandon(r)

Spec == Init /\ [][Next]_vars

-----------------------------------------------------------------------------
(* What the repository says of the program, and the code does not do *)

\* README: conversation memory with full history persistence.  The question and
\* the answer of a request that was answered are in the database.
HistoryPersists ==
    \A r \in Requests : stage[r] = "closed" =>
        {Message(r, "user"), Message(r, "assistant")} \subseteq db
=============================================================================
