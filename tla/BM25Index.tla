------------------------------ MODULE BM25Index ------------------------------
(***************************************************************************)
(* The in-process BM25 index of one API process (retrieval/bm25.py).  The  *)
(* event loop's thread writes it: add_chunks at the end of an ingestion    *)
(* run, delete_document in a run and in DELETE /documents/{id}.  Searches  *)
(* run in threads of their own (asyncio.to_thread); a search copies the    *)
(* chunk table under the lock and then reads the postings and the document *)
(* frequencies, which it holds by reference, without it.                   *)
(*                                                                         *)
(* Term frequencies, lengths, scores and the cut to top_k are left out: of *)
(* a score only its sign matters, and of a result list only its members.   *)
(* add_chunk and delete_document are one step each.  A reader that sees one *)
(* half done finds some of its postings changed and others not yet; as a    *)
(* search of that tenant it counts as disturbed either way.                 *)
(***************************************************************************)
EXTENDS Integers, FiniteSets

CONSTANTS
    Tenants, Docs, Terms, Chunks, Readers,
    Batches,     \* ingestion runs; each makes chunk ids of its own
    TenantOf,    \* TenantOf[d]
    DocOf,       \* DocOf[b]: the document run b ingests
    BatchOf,     \* BatchOf[c]: the run that made chunk c
    TermsOf,     \* TermsOf[c]: the terms in the text of c
    NoTerm       \* no postings are being iterated

ASSUME IndexAssumption ==
    /\ IsFiniteSet(Chunks)
    /\ Tenants # {}
    /\ TenantOf \in [Docs -> Tenants]
    /\ DocOf \in [Batches -> Docs]
    /\ BatchOf \in [Chunks -> Batches]
    /\ TermsOf \in [Chunks -> SUBSET Terms]
    /\ NoTerm \notin Terms

VARIABLES
    docs,        \* docs[t]: chunk ids of the records of tenant t
    inverted,    \* inverted[t][w]: chunk ids in the postings of term w
    df,          \* df[t][w]: document frequency of w
    ndoc,        \* ndoc[t]: number of chunks of t
    adding,      \* chunks the add_chunks call under way has still to add
    begun,       \* runs whose add_chunks has begun
    search,      \* search[r]: the search in thread r
    raced        \* history: raced[r]: what was done to the index of its tenant
                 \* during the search of r: chunks added, documents deleted

indexed == <<docs, inverted, df, ndoc>>
vars == <<docs, inverted, df, ndoc, adding, begun, search, raced>>

DocumentOf(c) == DocOf[BatchOf[c]]

Search == [pc     : {"idle", "collect", "score", "done", "failed", "keyerror"},
           tenant : Tenants,
           terms  : SUBSET Terms,
           docs   : SUBSET Chunks,             \* the copied chunk table
           n      : Nat,
           own    : BOOLEAN,                   \* the tenant was reset since: the
           inv    : [Terms -> SUBSET Chunks],  \* maps held are the old ones,
           df     : [Terms -> Nat],            \* and nobody writes them now
           todo   : SUBSET Terms,              \* terms this pass has not seen
           at     : Terms \cup {NoTerm},       \* term whose postings are iterated
           held   : SUBSET Chunks,             \* those postings at the start
           ever   : SUBSET Chunks,             \* what they have held since; {} if
                                               \* they were emptied and dropped
           idf    : {"zero", "positive", "negative"},
           cands  : SUBSET Chunks,             \* candidates
           up     : SUBSET Chunks,             \* candidates that gained score
           down   : SUBSET Chunks]             \* candidates that lost score

InSearch(r) == search[r].pc \in {"collect", "score"}

IndexType ==
    /\ docs \in [Tenants -> SUBSET Chunks]
    /\ inverted \in [Tenants -> [Terms -> SUBSET Chunks]]
    /\ df \in [Tenants -> [Terms -> Nat]]
    /\ ndoc \in [Tenants -> Nat]
    /\ adding \subseteq Chunks
    /\ begun \subseteq Batches

TypeOK ==
    /\ IndexType
    /\ search \in [Readers -> Search]
    /\ raced \in [Readers -> SUBSET {"add", "remove"}]

NoPostings == [w \in Terms |-> {}]
NoCounts   == [w \in Terms |-> 0]

Idle == [pc |-> "idle", tenant |-> CHOOSE t \in Tenants : TRUE, terms |-> {}, docs |-> {},
         n |-> 0, own |-> FALSE, inv |-> NoPostings, df |-> NoCounts, todo |-> {},
         at |-> NoTerm, held |-> {}, ever |-> {}, idf |-> "zero", cands |-> {}, up |-> {},
         down |-> {}]

Init ==
    /\ docs = [t \in Tenants |-> {}]
    /\ inverted = [t \in Tenants |-> NoPostings]
    /\ df = [t \in Tenants |-> NoCounts]
    /\ ndoc = [t \in Tenants |-> 0]
    /\ adding = {}
    /\ begun = {}
    /\ search = [r \in Readers |-> Idle]
    /\ raced = [r \in Readers |-> {}]

Disturb(t, kind) ==
    raced' = [r \in Readers |-> IF InSearch(r) /\ search[r].tenant = t
                                THEN raced[r] \cup {kind} ELSE raced[r]]

\* r is in the midst of postings in the maps of tenant t.
Iterates(r, t) ==
    InSearch(r) /\ search[r].tenant = t /\ ~search[r].own /\ search[r].at # NoTerm

-----------------------------------------------------------------------------
(* Writers: one thread, no task switch inside a call.  "Variant" marks a
   plausible error in the definition after it, which no step uses. *)

\* _embed_and_index calls add_chunks for run b.  delete_document has removed
\* the chunks of earlier runs.
BeginAdd(b) ==
    /\ adding = {} /\ b \notin begun
    /\ \A c \in docs[TenantOf[DocOf[b]]] : DocumentOf(c) # DocOf[b]
    /\ adding' = {c \in Chunks : BatchOf[c] = b}
    /\ begun' = begun \cup {b}
    /\ UNCHANGED <<indexed, search, raced>>

\* Variant: the document frequencies are not updated.
SameCounts(t, c) == df[t]

CountsWith(t, c) == [w \in Terms |-> IF w \in TermsOf[c] THEN df[t][w] + 1 ELSE df[t][w]]

\* add_chunk, under the lock.
AddChunk(c) ==
    LET t == TenantOf[DocumentOf(c)] IN
    /\ c \in adding
    /\ adding' = adding \ {c}
    /\ docs' = [docs EXCEPT ![t] = @ \cup {c}]
    /\ inverted' = [inverted EXCEPT ![t] =
                       [w \in Terms |-> IF w \in TermsOf[c] THEN @[w] \cup {c} ELSE @[w]]]
    /\ df' = [df EXCEPT ![t] = CountsWith(t, c)]
    /\ ndoc' = [ndoc EXCEPT ![t] = Cardinality(docs[t] \cup {c})]
    /\ Disturb(t, "add")
    /\ search' = [r \in Readers |->
          IF Iterates(r, t) /\ search[r].at \in TermsOf[c] /\ search[r].ever # {}
          THEN [search[r] EXCEPT !.ever = @ \cup {c}] ELSE search[r]]
    /\ UNCHANGED begun

\* Variant: every chunk that goes is subtracted from every count.
CountsLess(t, gone) == [w \in Terms |-> df[t][w] - Cardinality(gone)]

\* _remove_doc of each chunk in gone, as far as the maps of t go.
PostingsWithout(t, gone) == [w \in Terms |-> inverted[t][w] \ gone]
CountsWithout(t, gone) ==
    [w \in Terms |-> IF \E c \in gone : w \in TermsOf[c]
                     THEN Cardinality(inverted[t][w] \ gone) ELSE df[t][w]]

\* The test that is to recognise the last document of a tenant.  It compares
\* what is left with what was removed.
Resets(gone, left) == left # {} /\ Cardinality(left) = Cardinality(gone)

\* Emptied postings are dropped from the map, and later ones are another dict.
Emptied(s, inv) == IF s.at # NoTerm /\ inv[s.at] = {} THEN [s EXCEPT !.ever = {}] ELSE s

\* delete_document, under the lock.  _reset_tenant drops the maps; searches
\* that hold them go on with what they hold.
DeleteDocument(d) ==
    LET t    == TenantOf[d]
        gone == {c \in docs[t] : DocumentOf(c) = d}
        left == docs[t] \ gone
        inv  == PostingsWithout(t, gone)
        cnt  == CountsWithout(t, gone)
    IN
    /\ adding = {}
    /\ Disturb(t, "remove")
    /\ \/ /\ ~Resets(gone, left)
          /\ docs' = [docs EXCEPT ![t] = left]
          /\ inverted' = [inverted EXCEPT ![t] = inv]
          /\ df' = [df EXCEPT ![t] = cnt]
          /\ ndoc' = [ndoc EXCEPT ![t] = IF gone = {} THEN @ ELSE Cardinality(left)]
          /\ search' = [r \in Readers |->
                IF Iterates(r, t) THEN Emptied(search[r], inv) ELSE search[r]]
       \/ /\ Resets(gone, left)
          /\ docs' = [docs EXCEPT ![t] = {}]
          /\ inverted' = [inverted EXCEPT ![t] = NoPostings]
          /\ df' = [df EXCEPT ![t] = NoCounts]
          /\ ndoc' = [ndoc EXCEPT ![t] = 0]
          /\ search' = [r \in Readers |->
                IF InSearch(r) /\ search[r].tenant = t /\ ~search[r].own
                THEN Emptied([search[r] EXCEPT !.own = TRUE, !.inv = inv, !.df = cnt], inv)
                ELSE search[r]]
    /\ UNCHANGED <<adding, begun>>

-----------------------------------------------------------------------------
(* search, in thread r *)

\* Variant: the postings are not kept apart by tenant.
PostingsOfAll(r, w) == UNION {inverted[t][w] : t \in Tenants}

\* What r reads in the maps it holds.
Postings(r, w) == IF search[r].own THEN search[r].inv[w] ELSE inverted[search[r].tenant][w]
Count(r, w)    == IF search[r].own THEN search[r].df[w] ELSE df[search[r].tenant][w]

\* The section under the lock, and the early return.
Snapshot(r, t, terms) ==
    /\ search[r].pc = "idle"
    /\ search' = [search EXCEPT ![r] =
          [Idle EXCEPT !.pc = IF terms = {} \/ ndoc[t] = 0 THEN "done" ELSE "collect",
                       !.tenant = t, !.terms = terms, !.todo = terms,
                       !.docs = docs[t], !.n = ndoc[t]]]
    /\ UNCHANGED <<indexed, adding, begun, raced>>

\* The sign of log(1 + (n - df + 0.5) / (df + 0.5)), n being the copied count
\* and df the present one.
Sign(n, f) == IF f = 0 THEN "zero" ELSE IF f <= n THEN "positive" ELSE "negative"

\* An iteration over the postings of w begins.
Enter(r, w) ==
    /\ InSearch(r)
    /\ search[r].at = NoTerm /\ w \in search[r].todo
    /\ search' = [search EXCEPT ![r].at = w, ![r].held = Postings(r, w),
                                ![r].ever = Postings(r, w), ![r].idf = Sign(search[r].n, Count(r, w))]
    /\ UNCHANGED <<indexed, adding, begun, raced>>

\* What an iteration may have yielded when it comes to its end.  No postings:
\* get() made an empty dict.  Otherwise CPython goes through the entries of the
\* dict by index, and raises once the dict has another size or one chunk more
\* is yielded than it had at first.  Entries deleted and added in equal number
\* go unnoticed, and as adding may move the entries together, chunks that are
\* there all the time can then be left out.  Chunk ids are used once: a dict
\* that never held another chunk, and is of the same size, was left alone.
\* (Which chunks a changed dict yields is left open further than CPython does.)
Yields(r, seen) ==
    LET s == search[r] IN
    \/ s.held = {} /\ seen = {}
    \/ /\ s.held # {}
       /\ Cardinality(Postings(r, s.at)) = Cardinality(s.held)
       /\ seen # {} /\ seen \subseteq s.ever /\ Cardinality(seen) <= Cardinality(s.held)
       /\ s.ever = s.held => seen = s.held

\* It ends, in the first pass: candidates.
Collect(r, seen) ==
    /\ search[r].pc = "collect" /\ search[r].at # NoTerm
    /\ Yields(r, seen)
    /\ search' = [search EXCEPT ![r].at = NoTerm, ![r].todo = @ \ {search[r].at},
                                ![r].cands = @ \cup seen]
    /\ UNCHANGED <<indexed, adding, begun, raced>>

\* Variant: the chunk table is not copied.
LiveRecords(r, seen) == seen \cap docs[search[r].tenant]

\* Chunks without a record in the copied table are skipped.
Scorable(r, seen) == seen \cap search[r].docs

\* It ends, in the second pass.
Score(r, seen) ==
    /\ search[r].pc = "score" /\ search[r].at # NoTerm
    /\ Yields(r, seen)
    /\ LET hits == Scorable(r, seen) IN
       /\ hits \subseteq search[r].cands
       /\ search' = [search EXCEPT
             ![r].at = NoTerm, ![r].todo = @ \ {search[r].at},
             ![r].up = IF search[r].idf = "positive" THEN @ \cup hits ELSE @,
             ![r].down = IF search[r].idf = "negative" THEN @ \cup hits ELSE @]
    /\ UNCHANGED <<indexed, adding, begun, raced>>

\* scores[cid] exists for candidates only: it yields another chunk.
ScoreMissing(r) ==
    /\ search[r].pc = "score" /\ search[r].at # NoTerm
    /\ ~(Scorable(r, search[r].ever) \subseteq search[r].cands)
    /\ search' = [search EXCEPT ![r].pc = "keyerror"]
    /\ UNCHANGED <<indexed, adding, begun, raced>>

\* "dictionary changed size during iteration" or "dictionary keys changed".  The
\* retrieval pipeline logs either error and goes on without BM25 results.
IterationFails(r) ==
    /\ InSearch(r) /\ search[r].at # NoTerm
    /\ search[r].held # {}
    /\ search[r].ever # search[r].held \/ Postings(r, search[r].at) # search[r].held
    /\ search' = [search EXCEPT ![r].pc = "failed"]
    /\ UNCHANGED <<indexed, adding, begun, raced>>

\* The first pass is over.
EndCollect(r) ==
    /\ search[r].pc = "collect" /\ search[r].at = NoTerm /\ search[r].todo = {}
    /\ search' = [search EXCEPT ![r].pc = IF search[r].cands = {} THEN "done" ELSE "score",
                                ![r].todo = search[r].terms]
    /\ UNCHANGED <<indexed, adding, begun, raced>>

\* Positive scores are reported; a chunk with gains and losses may have one.
EndScore(r, found) ==
    /\ search[r].pc = "score" /\ search[r].at = NoTerm /\ search[r].todo = {}
    /\ search[r].up \ search[r].down \subseteq found
    /\ found \subseteq search[r].up
    /\ search' = [search EXCEPT ![r].pc = "done", ![r].up = found]
    /\ UNCHANGED <<indexed, adding, begun, raced>>

-----------------------------------------------------------------------------
Write == \/ \E b \in Batches : BeginAdd(b)
         \/ \E c \in Chunks : AddChunk(c)
         \/ \E d \in Docs : DeleteDocument(d)

Read(r) ==
    \/ \E t \in Tenants, terms \in SUBSET Terms : Snapshot(r, t, terms)
    \/ \E w \in Terms : Enter(r, w)
    \/ \E seen \in SUBSET Chunks : Collect(r, seen) \/ Score(r, seen) \/ EndScore(r, seen)
    \/ ScoreMissing(r)
    \/ IterationFails(r)
    \/ EndCollect(r)

Next == Write \/ \E r \in Readers : Read(r)

Spec == Init /\ [][Next]_vars

-----------------------------------------------------------------------------
(* Safety *)

\* The maps of a tenant say the same about the same chunks: the postings of a
\* term are the chunks that contain it, its document frequency is their number,
\* and ndoc is the number of records (so no idf is ever negative).
IndexConsistent ==
    \A t \in Tenants :
        /\ ndoc[t] = Cardinality(docs[t])
        /\ \A w \in Terms :
               /\ inverted[t][w] = {c \in docs[t] : w \in TermsOf[c]}
               /\ df[t][w] = Cardinality(inverted[t][w])

\* The KeyError of scores[cid]: the second pass meets a chunk of the copied table
\* that the first pass did not, only if chunks of the tenant were added as well as
\* deleted during the search.  Neither alone can do it.
KeyErrorNeedsBoth ==
    \A r \in Readers : search[r].pc = "keyerror" => raced[r] = {"add", "remove"}

\* A search during which nothing of its tenant was written reports exactly the
\* chunks that contain one of its terms (before the cut to top_k).
QuietSearchIsExact ==
    \A r \in Readers : (search[r].pc = "done" /\ raced[r] = {}) =>
        search[r].up = {c \in search[r].docs : TermsOf[c] \cap search[r].terms # {}}

\* Only a write to its own tenant's index can make a search fail.
FailsOnlyWhenRaced ==
    \A r \in Readers : search[r].pc \in {"failed", "keyerror"} => raced[r] # {}

\* What a search reports was indexed for its tenant when it began, and contains
\* one of its terms, even if the index changed under it.
ReportsAreGenuine ==
    \A r \in Readers : search[r].pc = "done" =>
        \A c \in search[r].up : /\ TenantOf[DocumentOf(c)] = search[r].tenant
                                /\ c \in search[r].docs
                                /\ TermsOf[c] \cap search[r].terms # {}
=============================================================================
