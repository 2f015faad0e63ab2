--------------------------- MODULE BM25IndexProofs ---------------------------
(***************************************************************************)
(* Proofs about BM25Index, for every value of its constants.               *)
(***************************************************************************)
EXTENDS BM25Index, FiniteSetTheorems, TLAPS

\* What makes chunk ids fresh: a chunk in an index or in an add_chunks call
\* belongs to a run that has begun, in the index of its document's tenant, and
\* is not both.
Fresh ==
    /\ \A c \in adding : BatchOf[c] \in begun
    /\ \A t \in Tenants : \A c \in docs[t] : /\ BatchOf[c] \in begun
                                            /\ TenantOf[DocumentOf(c)] = t
                                            /\ c \notin adding

IndexInv == IndexType /\ Fresh /\ IndexConsistent

\* Chunks is finite, so every set of chunks has a cardinality.
LEMMA ChunkSets ==
  ASSUME NEW S \in SUBSET Chunks
  PROVE  IsFiniteSet(S) /\ Cardinality(S) \in Nat
<1>1. IsFiniteSet(S)
  BY IndexAssumption, FS_Subset
<1>2. QED
  BY <1>1, FS_CardinalityType

\* One chunk more is one more.
LEMMA OneMore ==
  ASSUME NEW S \in SUBSET Chunks, NEW c \in Chunks \ S
  PROVE  Cardinality(S \cup {c}) = Cardinality(S) + 1
BY ChunkSets, FS_AddElement

\* add_chunk keeps the maps of the tenant consistent.
LEMMA AddStep ==
  ASSUME IndexInv, NEW c \in Chunks, AddChunk(c)
  PROVE  IndexInv'
<1> DEFINE t == TenantOf[DocumentOf(c)]
<1> USE DEF IndexInv, IndexType
<1>1. t \in Tenants /\ DocumentOf(c) \in Docs /\ TermsOf[c] \in SUBSET Terms
  BY IndexAssumption DEF DocumentOf
<1>2. c \in adding /\ c \notin docs[t] /\ BatchOf[c] \in begun
  BY <1>1 DEF AddChunk, Fresh
<1>3. /\ docs' = [docs EXCEPT ![t] = @ \cup {c}]
      /\ inverted' = [inverted EXCEPT ![t] =
            [w \in Terms |-> IF w \in TermsOf[c] THEN @[w] \cup {c} ELSE @[w]]]
      /\ df' = [df EXCEPT ![t] =
            [w \in Terms |-> IF w \in TermsOf[c] THEN df[t][w] + 1 ELSE df[t][w]]]
      /\ ndoc' = [ndoc EXCEPT ![t] = Cardinality(docs[t] \cup {c})]
      /\ adding' = adding \ {c} /\ begun' = begun
  BY DEF AddChunk, CountsWith
<1>4. docs[t] \cup {c} \in SUBSET Chunks
  BY <1>1
<1>5. IndexType'
  <2>1. Cardinality(docs[t] \cup {c}) \in Nat
    BY <1>4, ChunkSets
  <2>2. docs' \in [Tenants -> SUBSET Chunks] /\ ndoc' \in [Tenants -> Nat]
    BY <1>1, <1>3, <1>4, <2>1
  <2>3. inverted' \in [Tenants -> [Terms -> SUBSET Chunks]]
    BY <1>1, <1>3
  <2>4. df' \in [Tenants -> [Terms -> Nat]]
    BY <1>1, <1>3
  <2>5. QED
    BY <1>3, <2>2, <2>3, <2>4
<1>6. Fresh'
  BY <1>1, <1>2, <1>3 DEF Fresh
<1>7. \A u \in Tenants : ndoc'[u] = Cardinality(docs'[u])
  BY <1>1, <1>3 DEF IndexConsistent
<1>8. ASSUME NEW u \in Tenants, NEW w \in Terms
      PROVE  /\ inverted'[u][w] = {e \in docs'[u] : w \in TermsOf[e]}
             /\ df'[u][w] = Cardinality(inverted'[u][w])
  <2>0. /\ inverted[u][w] = {e \in docs[u] : w \in TermsOf[e]}
        /\ df[u][w] = Cardinality(inverted[u][w])
    BY DEF IndexConsistent
  <2>1. CASE u # t
    BY <1>1, <1>3, <2>0, <2>1
  <2>2. CASE u = t
    <3>1. inverted'[u][w] = {e \in docs'[u] : w \in TermsOf[e]}
      BY <1>1, <1>3, <2>0, <2>2
    <3>2. CASE w \in TermsOf[c]
      <4>1. inverted'[u][w] = inverted[u][w] \cup {c} /\ df'[u][w] = df[u][w] + 1
        BY <1>1, <1>3, <2>2, <3>2
      <4>2. inverted[u][w] \in SUBSET Chunks /\ c \notin inverted[u][w]
        BY <1>2, <2>0, <2>2
      <4>3. QED
        BY <2>0, <3>1, <4>1, <4>2, OneMore
    <3>3. CASE w \notin TermsOf[c]
      BY <1>1, <1>3, <2>0, <2>2, <3>1, <3>3
    <3>4. QED
      BY <3>2, <3>3
  <2>3. QED
    BY <2>1, <2>2
<1>9. IndexConsistent'
  BY <1>7, <1>8 DEF IndexConsistent
<1>10. QED
  BY <1>5, <1>6, <1>9

\* delete_document keeps them consistent, even when it resets the tenant.
LEMMA DeleteStep ==
  ASSUME IndexInv, NEW d \in Docs, DeleteDocument(d)
  PROVE  IndexInv'
<1> DEFINE t    == TenantOf[d]
           gone == {c \in docs[t] : DocumentOf(c) = d}
           left == docs[t] \ gone
<1> USE DEF IndexInv, IndexType
<1>1. t \in Tenants /\ gone \in SUBSET Chunks /\ left \in SUBSET Chunks
  BY SMTT(60), IndexAssumption
<1>2. adding' = adding /\ begun' = begun
  BY DEF DeleteDocument
<1>3. CASE Resets(gone, left)
  <2>1. /\ docs' = [docs EXCEPT ![t] = {}]
        /\ inverted' = [inverted EXCEPT ![t] = NoPostings]
        /\ df' = [df EXCEPT ![t] = NoCounts]
        /\ ndoc' = [ndoc EXCEPT ![t] = 0]
    BY <1>3 DEF DeleteDocument
  <2>2. IndexType'
    BY <1>1, <1>2, <2>1 DEF NoPostings, NoCounts
  <2>3. Fresh'
    BY <1>1, <1>2, <2>1 DEF Fresh
  <2>4. IndexConsistent'
    <3>1. Cardinality({}) = 0
      BY SMTT(60), FS_EmptySet
    <3>2. QED
      BY <1>1, <2>1, <3>1 DEF IndexConsistent, NoPostings, NoCounts
  <2>5. QED
    BY SMTT(60), <2>2, <2>3, <2>4
<1>4. CASE ~Resets(gone, left)
  <2>1. /\ docs' = [docs EXCEPT ![t] = left]
        /\ inverted' = [inverted EXCEPT ![t] = [w \in Terms |-> inverted[t][w] \ gone]]
        /\ df' = [df EXCEPT ![t] =
              [w \in Terms |-> IF \E c \in gone : w \in TermsOf[c]
                               THEN Cardinality(inverted[t][w] \ gone) ELSE df[t][w]]]
        /\ ndoc' = [ndoc EXCEPT ![t] = IF gone = {} THEN @ ELSE Cardinality(left)]
    BY <1>4 DEF DeleteDocument, PostingsWithout, CountsWithout
  <2>2. \A w \in Terms : Cardinality(inverted[t][w] \ gone) \in Nat
    BY <1>1, ChunkSets
  <2>3. Cardinality(left) \in Nat
    BY <1>1, ChunkSets
  <2>4. IndexType'
    <3>1. docs' \in [Tenants -> SUBSET Chunks] /\ ndoc' \in [Tenants -> Nat]
      BY <1>1, <2>1, <2>3
    <3>2. inverted' \in [Tenants -> [Terms -> SUBSET Chunks]]
      BY <1>1, <2>1
    <3>3. df' \in [Tenants -> [Terms -> Nat]]
      BY <1>1, <2>1, <2>2
    <3>4. QED
      BY <1>2, <3>1, <3>2, <3>3
  <2>5. Fresh'
    BY <1>1, <1>2, <2>1 DEF Fresh
  <2>6. ASSUME NEW u \in Tenants PROVE ndoc'[u] = Cardinality(docs'[u])
    <3>1. CASE u = t /\ gone = {}
      <4>1. left = docs[u]
        BY <3>1
      <4>2. QED
        BY <1>1, <2>1, <3>1, <4>1 DEF IndexConsistent
    <3>2. CASE ~(u = t /\ gone = {})
      BY <1>1, <2>1, <3>2 DEF IndexConsistent
    <3>3. QED
      BY <3>1, <3>2
  <2>7. ASSUME NEW u \in Tenants, NEW w \in Terms
        PROVE  /\ inverted'[u][w] = {e \in docs'[u] : w \in TermsOf[e]}
               /\ df'[u][w] = Cardinality(inverted'[u][w])
    <3>0. /\ inverted[u][w] = {e \in docs[u] : w \in TermsOf[e]}
          /\ df[u][w] = Cardinality(inverted[u][w])
      BY DEF IndexConsistent
    <3>1. CASE u # t
      BY <1>1, <2>1, <3>0, <3>1
    <3>2. CASE u = t
      <4>1. inverted'[u][w] = inverted[u][w] \ gone
        BY <1>1, <2>1, <3>2
      <4>2. inverted'[u][w] = {e \in docs'[u] : w \in TermsOf[e]}
        BY <1>1, <2>1, <3>0, <3>2, <4>1
      <4>3. CASE \E c \in gone : w \in TermsOf[c]
        BY <1>1, <2>1, <3>2, <4>1, <4>2, <4>3
      <4>4. CASE ~ \E c \in gone : w \in TermsOf[c]
        <5>1. inverted[u][w] \ gone = inverted[u][w]
          BY <3>0, <4>4
        <5>2. df'[u][w] = df[u][w]
          BY <1>1, <2>1, <3>2, <4>4
        <5>3. QED
          BY <3>0, <4>1, <4>2, <5>1, <5>2
      <4>5. QED
        BY <4>3, <4>4
    <3>3. QED
      BY <3>1, <3>2
  <2>8. IndexConsistent'
    BY <2>6, <2>7 DEF IndexConsistent
  <2>9. QED
    BY <2>4, <2>5, <2>8
<1>5. QED
  BY <1>3, <1>4

\* Every step keeps them consistent; searches only read.
LEMMA IndexStep == IndexInv /\ [Next]_vars => IndexInv'
<1> SUFFICES ASSUME IndexInv, [Next]_vars PROVE IndexInv'
  OBVIOUS
<1>1. ASSUME NEW b \in Batches, BeginAdd(b) PROVE IndexInv'
  <2>1. /\ UNCHANGED indexed /\ adding = {} /\ b \notin begun
        /\ adding' = {c \in Chunks : BatchOf[c] = b} /\ begun' = begun \cup {b}
    BY <1>1 DEF BeginAdd
  <2>2. Fresh'
    BY <2>1 DEF IndexInv, Fresh, indexed
  <2> QED  BY <2>1, <2>2 DEF IndexInv, IndexType, IndexConsistent, indexed
<1>2. ASSUME NEW r \in Readers, Read(r) PROVE IndexInv'
  <2>1. UNCHANGED <<indexed, adding, begun>>
    BY <1>2 DEF Read, Snapshot, Enter, Collect, Score, ScoreMissing, IterationFails,
                 EndCollect, EndScore
  <2> QED  BY SMTT(60), <2>1 DEF IndexInv, IndexType, Fresh, IndexConsistent, indexed
<1>3. CASE UNCHANGED vars
  BY <1>3 DEF vars, IndexInv, IndexType, Fresh, IndexConsistent
<1> QED  BY <1>1, <1>2, <1>3, AddStep, DeleteStep DEF Next, Write

\* In every tenant's index postings, document frequencies and the number of
\* chunks agree with the records (add_chunk, delete_document, _remove_doc,
\* _reset_tenant), provided only that no two runs share a chunk id.
THEOREM ConsistentIndex == Spec => []IndexConsistent
<1>1. Init => IndexInv
  <2> SUFFICES ASSUME Init PROVE IndexInv
    OBVIOUS
  <2>1. Cardinality({}) = 0
    BY FS_EmptySet
  <2>2. IndexType /\ Fresh
    BY DEF Init, IndexType, Fresh, NoPostings, NoCounts
  <2>3. IndexConsistent
    BY <2>1 DEF Init, IndexConsistent, NoPostings, NoCounts
  <2>4. QED
    BY <2>2, <2>3 DEF IndexInv
<1>2. IndexInv /\ [Next]_vars => IndexInv'
  BY IndexStep
<1>3. IndexInv => IndexConsistent
  BY DEF IndexInv
<1>4. QED
  BY <1>1, <1>2, <1>3, PTL DEF Spec

-----------------------------------------------------------------------------
(* Searches.  A chunk of the copied table that is gone from the postings   *)
(* never comes back, since chunk ids are used once: what a pass has not    *)
(* seen then no later pass sees.                                           *)

Matching(table, words) == {c \in table : TermsOf[c] \cap words # {}}

\* What a search holds, whatever is written meanwhile.
Holds(r) ==
    LET s == search[r] IN
    /\ \A c \in s.docs : /\ TenantOf[DocumentOf(c)] = s.tenant
                         /\ BatchOf[c] \in begun /\ c \notin adding
    /\ s.todo \subseteq s.terms /\ (s.at # NoTerm => s.at \in s.todo)
    /\ \A w \in Terms : \A c \in Postings(r, w) : w \in TermsOf[c]
    /\ s.at # NoTerm => /\ \A c \in s.ever : s.at \in TermsOf[c]
                       /\ s.ever \cap s.docs \subseteq s.held
    /\ s.up \subseteq Matching(s.docs, s.terms)
    /\ s.pc = "keyerror" => raced[r] = {"add", "remove"}

\* The postings being iterated, while one kind of write only was made: they have
\* grown and never shrunk, or shrunk and never grown.
Follows(r) ==
    LET s == search[r] IN
    (InSearch(r) /\ s.at # NoTerm) =>
        /\ "remove" \notin raced[r] /\ s.held # {} =>
               s.ever = Postings(r, s.at) /\ s.held \subseteq s.ever
        /\ "add" \notin raced[r] =>
               Postings(r, s.at) \subseteq s.held /\ s.ever \in {s.held, {}}

\* The candidates, while one kind of write only was made.
Collected(r) ==
    LET s == search[r] IN
    raced[r] # {"add", "remove"} =>
        /\ s.pc = "collect" =>
             /\ \A w \in s.terms \ s.todo : Postings(r, w) \cap s.docs \subseteq s.cands
             /\ s.at # NoTerm => Postings(r, s.at) \cap s.docs \subseteq s.held
        /\ s.pc = "score" =>
             /\ \A w \in s.terms : Postings(r, w) \cap s.docs \subseteq s.cands
             /\ s.at # NoTerm => s.held \cap s.docs \subseteq s.cands

Sound(r) == Holds(r) /\ Follows(r) /\ Collected(r)

\* What it has found as long as nobody wrote.
Quiet(r) ==
    LET s == search[r] IN
    /\ InSearch(r) =>
         /\ ~s.own /\ s.docs = docs[s.tenant] /\ s.n = ndoc[s.tenant] /\ s.down = {}
         /\ s.at # NoTerm => /\ s.held = Postings(r, s.at) /\ s.ever = s.held
                             /\ s.idf = IF s.held = {} THEN "zero" ELSE "positive"
    /\ s.pc = "collect" => s.cands = Matching(s.docs, s.terms \ s.todo) /\ s.up = {}
    /\ s.pc = "score" => /\ s.cands = Matching(s.docs, s.terms)
                         /\ s.up = Matching(s.docs, s.terms \ s.todo)
    /\ s.pc = "done" => s.up = Matching(s.docs, s.terms)
    /\ s.pc \notin {"failed", "keyerror"}

SearchInv == \A r \in Readers : Sound(r) /\ (raced[r] = {} => Quiet(r))

IInv == TypeOK /\ IndexInv /\ SearchInv

\* The record of a search and what it reads.
LEMMA SearchType ==
  ASSUME TypeOK, NEW r \in Readers
  PROVE  /\ search[r] \in Search
         /\ search[r].tenant \in Tenants /\ search[r].terms \in SUBSET Terms
         /\ search[r].docs \in SUBSET Chunks /\ search[r].n \in Nat
         /\ search[r].todo \in SUBSET Terms /\ search[r].at \in Terms \cup {NoTerm}
         /\ search[r].held \in SUBSET Chunks /\ search[r].cands \in SUBSET Chunks
         /\ search[r].ever \in SUBSET Chunks /\ raced[r] \in SUBSET {"add", "remove"}
         /\ search[r].up \in SUBSET Chunks /\ search[r].down \in SUBSET Chunks
         /\ \A w \in Terms : Postings(r, w) \in SUBSET Chunks /\ Count(r, w) \in Nat
<1>1. search[r] \in Search
  BY DEF TypeOK
<1>2. /\ search[r].tenant \in Tenants /\ search[r].terms \in SUBSET Terms
      /\ search[r].docs \in SUBSET Chunks /\ search[r].n \in Nat
      /\ search[r].todo \in SUBSET Terms /\ search[r].at \in Terms \cup {NoTerm}
      /\ search[r].held \in SUBSET Chunks /\ search[r].cands \in SUBSET Chunks
      /\ search[r].ever \in SUBSET Chunks
      /\ search[r].up \in SUBSET Chunks /\ search[r].down \in SUBSET Chunks
      /\ search[r].inv \in [Terms -> SUBSET Chunks] /\ search[r].df \in [Terms -> Nat]
  BY <1>1 DEF Search
<1>3. \A w \in Terms : Postings(r, w) \in SUBSET Chunks /\ Count(r, w) \in Nat
  BY <1>2 DEF TypeOK, IndexType, Postings, Count
<1>4. raced[r] \in SUBSET {"add", "remove"}
  BY DEF TypeOK
<1> QED  BY <1>1, <1>2, <1>3, <1>4

\* A search nobody touched, over maps nobody touched, knows what it knew.
LEMMA OtherReader ==
  ASSUME NEW q \in Readers, Sound(q), raced[q] = {} => Quiet(q),
         search'[q] = search[q], UNCHANGED <<indexed, adding, begun, raced>>
  PROVE  Sound(q)' /\ (raced'[q] = {} => Quiet(q)')
<1>1. UNCHANGED <<docs, inverted, df, ndoc, adding, begun, raced>>
  BY DEF indexed
<1>2. \A w : Postings(q, w)' = Postings(q, w)
  BY <1>1 DEF Postings
<1>3. Sound(q)'
  <2>1. Holds(q)'
    BY <1>1, <1>2 DEF Sound, Holds, Matching
  <2>2. Follows(q)'
    BY <1>1, <1>2 DEF Sound, Follows, InSearch
  <2>3. Collected(q)'
    BY <1>1, <1>2 DEF Sound, Collected
  <2> QED  BY <2>1, <2>2, <2>3 DEF Sound
<1>4. ASSUME raced[q] = {}, Quiet(q) PROVE Quiet(q)'
  BY <1>1, <1>2, <1>4 DEF Quiet, Matching, InSearch
<1> QED  BY <1>1, <1>3, <1>4

\* An undisturbed search reads exactly the matching chunks of its table, and
\* no inverse document frequency is negative.
LEMMA QuietPostings ==
  ASSUME IInv, NEW r \in Readers, raced[r] = {}, InSearch(r), NEW w \in Terms
  PROVE  /\ Postings(r, w) = {c \in search[r].docs : w \in TermsOf[c]}
         /\ Sign(search[r].n, Count(r, w)) =
                IF Postings(r, w) = {} THEN "zero" ELSE "positive"
<1> DEFINE t == search[r].tenant
<1>1. t \in Tenants /\ Postings(r, w) \in SUBSET Chunks /\ search[r].docs \in SUBSET Chunks
  BY SearchType DEF IInv
<1>2. ~search[r].own /\ search[r].docs = docs[t] /\ search[r].n = ndoc[t]
  BY DEF IInv, SearchInv, Quiet
<1>3. /\ Postings(r, w) = inverted[t][w] /\ Count(r, w) = df[t][w]
      /\ inverted[t][w] = {c \in docs[t] : w \in TermsOf[c]}
      /\ df[t][w] = Cardinality(inverted[t][w]) /\ ndoc[t] = Cardinality(docs[t])
  BY <1>1, <1>2 DEF IInv, IndexInv, IndexConsistent, Postings, Count
<1>4. inverted[t][w] \subseteq docs[t] /\ docs[t] \in SUBSET Chunks
  BY <1>1, <1>2, <1>3
<1>5. IsFiniteSet(docs[t]) /\ Cardinality(docs[t]) \in Nat /\ Cardinality(inverted[t][w]) \in Nat
      /\ Cardinality(inverted[t][w]) <= Cardinality(docs[t])
  BY <1>4, ChunkSets, FS_Subset
<1>6. Cardinality(inverted[t][w]) = 0 <=> inverted[t][w] = {}
  <2>1. IsFiniteSet(inverted[t][w])
    BY <1>4, <1>5, FS_Subset
  <2> QED  BY <2>1, FS_EmptySet
<1> QED  BY <1>2, <1>3, <1>5, <1>6 DEF Sign

\* The copied table is that of the moment.
LEMMA SnapshotStep ==
  ASSUME IInv, NEW r \in Readers, NEW t \in Tenants, NEW terms \in SUBSET Terms,
         Snapshot(r, t, terms)
  PROVE  search'[r] \in Search /\ Sound(r)' /\ (raced'[r] = {} => Quiet(r)')
<1> DEFINE s == search'[r]
<1>1. /\ s = [Idle EXCEPT !.pc = IF terms = {} \/ ndoc[t] = 0 THEN "done" ELSE "collect",
                          !.tenant = t, !.terms = terms, !.todo = terms,
                          !.docs = docs[t], !.n = ndoc[t]]
      /\ UNCHANGED <<docs, inverted, df, ndoc, adding, begun, raced>>
  BY DEF Snapshot, indexed, IInv, TypeOK
<1>2. /\ s.pc = IF terms = {} \/ ndoc[t] = 0 THEN "done" ELSE "collect"
      /\ s.tenant = t /\ s.terms = terms /\ s.todo = terms /\ s.docs = docs[t]
      /\ s.n = ndoc[t] /\ s.own = FALSE /\ s.at = NoTerm /\ s.held = {} /\ s.ever = {} /\ s.cands = {}
      /\ s.up = {} /\ s.down = {}
  BY <1>1 DEF Idle
<1>3. docs[t] \in SUBSET Chunks /\ ndoc[t] \in Nat
  BY DEF IInv, TypeOK, IndexType
<1>4. s \in Search
  <2>1. s = [pc |-> s.pc, tenant |-> t, terms |-> terms, docs |-> docs[t],
             n |-> ndoc[t], own |-> FALSE, inv |-> NoPostings, df |-> NoCounts,
             todo |-> terms, at |-> NoTerm, held |-> {}, ever |-> {}, idf |-> "zero",
             cands |-> {}, up |-> {}, down |-> {}]
    BY ZenonT(60), <1>1, <1>2 DEF Idle
  <2>2. NoPostings \in [Terms -> SUBSET Chunks] /\ NoCounts \in [Terms -> Nat]
    BY DEF NoPostings, NoCounts
  <2>3. s.pc \in {"idle", "collect", "score", "done", "failed", "keyerror"}
    BY <1>2
  <2>4. /\ {} \in SUBSET Terms /\ {} \in SUBSET Chunks /\ NoTerm \in Terms \cup {NoTerm}
        /\ "zero" \in {"zero", "positive", "negative"} /\ FALSE \in BOOLEAN
    OBVIOUS
  <2> DEFINE pc == s.pc
             table == docs[t]
             size == ndoc[t]
  <2>5. s = [pc |-> pc, tenant |-> t, terms |-> terms, docs |-> table,
             n |-> size, own |-> FALSE, inv |-> NoPostings, df |-> NoCounts,
             todo |-> terms, at |-> NoTerm, held |-> {}, ever |-> {}, idf |-> "zero",
             cands |-> {}, up |-> {}, down |-> {}]
    BY <2>1
  <2>6. pc \in {"idle", "collect", "score", "done", "failed", "keyerror"}
        /\ table \in SUBSET Chunks /\ size \in Nat
    BY <1>3, <2>3
  <2> HIDE DEF s, pc, table, size
  <2> QED  BY <2>2, <2>4, <2>5, <2>6 DEF Search
<1>5. \A w \in Terms : Postings(r, w)' = inverted[t][w]
  BY <1>1, <1>2 DEF Postings
<1> HIDE DEF s
<1>6. Sound(r)'
  <2>1. \A c \in docs[t] : /\ TenantOf[DocumentOf(c)] = t
                           /\ BatchOf[c] \in begun /\ c \notin adding
    BY DEF IInv, IndexInv, Fresh
  <2>2. \A w \in Terms : \A c \in inverted[t][w] : w \in TermsOf[c]
    BY DEF IInv, IndexInv, IndexConsistent
  <2>3. s.pc # "score" /\ s.pc # "keyerror"
    BY <1>2
  <2>4. Holds(r)'
    BY <1>1, <1>2, <1>5, <2>1, <2>2, <2>3 DEF Holds, Matching, DocumentOf, s
  <2>5. Follows(r)'
    BY <1>2 DEF Follows, s
  <2>6. Collected(r)'
    BY <1>2, <2>3 DEF Collected, s
  <2> QED  BY <2>4, <2>5, <2>6 DEF Sound
<1>7. Quiet(r)'
  <2>1. s.pc = "done" => Matching(docs[t], terms) = {}
    <3>1. ndoc[t] = 0 => docs[t] = {}
      <4>1. ndoc[t] = Cardinality(docs[t])
        BY DEF IInv, IndexInv, IndexConsistent
      <4>2. IsFiniteSet(docs[t])
        BY <1>3, ChunkSets
      <4> QED  BY <4>1, <4>2, FS_EmptySet
    <3> QED  BY <1>2, <3>1 DEF Matching
  <2>2. Matching(docs[t], terms \ terms) = {}
    BY DEF Matching
  <2>3. s.pc # "score" /\ s.pc \notin {"failed", "keyerror"}
    BY <1>2
  <2>4. /\ s.up = Matching(s.docs, s.terms) \/ s.pc # "done"
        /\ s.cands = Matching(s.docs, s.terms \ s.todo)
    BY <1>2, <2>1, <2>2
  <2>5. (Matching(s.docs, s.terms) = Matching(search[r].docs, search[r].terms)')
        /\ (Matching(s.docs, s.terms \ s.todo)
               = Matching(search[r].docs, search[r].terms \ search[r].todo)')
    BY DEF s, Matching
  <2> QED  BY <1>1, <1>2, <2>3, <2>4, <2>5 DEF Quiet, InSearch, s
<1> QED  BY <1>4, <1>6, <1>7 DEF s

\* What is known of a search when its thread takes a step.
LEMMA ReaderFacts ==
  ASSUME IInv, NEW r \in Readers
  PROVE  Sound(r) /\ (raced[r] = {} => Quiet(r))
  BY DEF IInv, SearchInv

\* The postings of a term are taken up.
LEMMA EnterStep ==
  ASSUME IInv, NEW r \in Readers, NEW w \in Terms, Enter(r, w)
  PROVE  search'[r] \in Search /\ Sound(r)' /\ (raced'[r] = {} => Quiet(r)')
<1> DEFINE s == search[r]
           new == search'[r]
           sign == Sign(s.n, Count(r, w))
           now == Postings(r, w)
<1>1. /\ InSearch(r) /\ s.at = NoTerm /\ w \in s.todo
      /\ new = [s EXCEPT !.at = w, !.held = now, !.ever = now, !.idf = sign]
      /\ UNCHANGED <<docs, inverted, df, ndoc, adding, begun, raced>>
  BY DEF Enter, indexed, IInv, TypeOK
<1>2. s \in Search /\ now \in SUBSET Chunks /\ sign \in {"zero", "positive", "negative"}
  BY SearchType DEF IInv, Sign
<1>3. /\ new.at = w /\ new.held = now /\ new.ever = now /\ new.idf = sign
      /\ new.pc = s.pc /\ new.tenant = s.tenant /\ new.terms = s.terms /\ new.docs = s.docs
      /\ new.n = s.n /\ new.own = s.own /\ new.inv = s.inv /\ new.df = s.df
      /\ new.todo = s.todo /\ new.cands = s.cands /\ new.up = s.up /\ new.down = s.down
  BY <1>1, <1>2 DEF Search
<1> HIDE DEF sign, now
<1>4. new \in Search
  BY ZenonT(60), <1>1, <1>2 DEF Search
<1>5. \A v : Postings(r, v)' = Postings(r, v)
  BY <1>1, <1>3 DEF Postings
<1>6. Sound(r) /\ (raced[r] = {} => Quiet(r))
  BY ReaderFacts
<1>7. s.pc = "collect" \/ s.pc = "score"
  BY <1>1 DEF InSearch
<1>8. Sound(r)'
  <2>1. Holds(r)'
    BY <1>1, <1>3, <1>5, <1>6 DEF Sound, Holds, Matching, now
  <2>2. Follows(r)'
    BY <1>1, <1>3, <1>5 DEF Follows, now
  <2>3. w \in s.terms
    BY <1>1, <1>6 DEF Sound, Holds
  <2>4. Collected(r)'
    BY <1>1, <1>3, <1>5, <1>6, <2>3 DEF Sound, Collected, now
  <2> QED  BY <2>1, <2>2, <2>4 DEF Sound
<1>9. ASSUME raced[r] = {} PROVE Quiet(r)'
  <2>1. sign = IF now = {} THEN "zero" ELSE "positive"
    BY <1>1, <1>9, QuietPostings DEF sign, now
  <2> QED  BY <1>1, <1>3, <1>5, <1>6, <1>9, <2>1 DEF Quiet, Matching, InSearch, now
<1> QED  BY <1>1, <1>4, <1>8, <1>9

\* A completed iteration yields chunks of the term.  While one kind of write only
\* was made it yields what was there from its beginning to its end, and exactly
\* the chunks of the table when nobody wrote.
LEMMA YieldsBetween ==
  ASSUME IInv, NEW r \in Readers, InSearch(r), search[r].at # NoTerm,
         NEW seen \in SUBSET Chunks, Yields(r, seen)
  PROVE  /\ search[r].at \in Terms
         /\ \A c \in seen : search[r].at \in TermsOf[c]
         /\ seen \cap search[r].docs \subseteq search[r].held
         /\ raced[r] # {"add", "remove"} =>
                search[r].held \cap Postings(r, search[r].at) \subseteq seen
         /\ raced[r] = {} => seen = {c \in search[r].docs : search[r].at \in TermsOf[c]}
<1> DEFINE s == search[r]
           now == Postings(r, s.at)
<1>1. s.at \in Terms /\ s.held \in SUBSET Chunks /\ now \in SUBSET Chunks
      /\ raced[r] \in SUBSET {"add", "remove"}
  BY SearchType DEF IInv
<1>2. seen \subseteq s.ever
  BY DEF Yields
<1>3. Holds(r) /\ Follows(r)
  BY ReaderFacts DEF Sound
<1>4. \A c \in seen : s.at \in TermsOf[c]
  BY <1>2, <1>3 DEF Holds
<1>5. seen \cap s.docs \subseteq s.held
  BY <1>2, <1>3 DEF Holds
<1>6. ASSUME raced[r] # {"add", "remove"} PROVE s.held \cap now \subseteq seen
  <2>1. CASE s.held = {}
    BY <2>1
  <2>2. CASE s.held # {}
    <3>1. /\ Cardinality(now) = Cardinality(s.held) /\ seen # {} /\ seen \subseteq s.ever
          /\ s.ever = s.held => seen = s.held
      BY <2>2 DEF Yields
    <3>2. IsFiniteSet(now) /\ IsFiniteSet(s.held)
      BY <1>1, ChunkSets
    <3>3. CASE "remove" \notin raced[r]
      <4>1. s.ever = now /\ s.held \subseteq now
        BY <1>3, <2>2, <3>3 DEF Follows
      <4>2. s.held = now
        BY <3>1, <3>2, <4>1, FS_Subset
      <4> QED  BY <3>1, <4>1, <4>2
    <3>4. CASE "add" \notin raced[r]
      <4>1. s.ever \in {s.held, {}}
        BY <1>3, <3>4 DEF Follows
      <4> QED  BY <3>1, <4>1
    <3> QED  BY <1>1, <1>6, <3>3, <3>4
  <2> QED  BY <2>1, <2>2
<1>7. ASSUME raced[r] = {} PROVE seen = {c \in s.docs : s.at \in TermsOf[c]}
  <2>1. s.held = now /\ s.ever = s.held
    BY <1>7, ReaderFacts DEF Quiet
  <2>2. now = {c \in s.docs : s.at \in TermsOf[c]}
    BY <1>1, <1>7, QuietPostings
  <2> QED  BY <2>1, <2>2 DEF Yields
<1> QED  BY <1>1, <1>4, <1>5, <1>6, <1>7

\* A term of the first pass is done.
LEMMA CollectStep ==
  ASSUME IInv, NEW r \in Readers, NEW seen \in SUBSET Chunks, Collect(r, seen)
  PROVE  search'[r] \in Search /\ Sound(r)' /\ (raced'[r] = {} => Quiet(r)')
<1> DEFINE s == search[r]
           new == search'[r]
<1>1. /\ s.pc = "collect" /\ s.at # NoTerm /\ Yields(r, seen)
      /\ new = [s EXCEPT !.at = NoTerm, !.todo = @ \ {s.at}, !.cands = @ \cup seen]
      /\ UNCHANGED <<docs, inverted, df, ndoc, adding, begun, raced>>
  BY DEF Collect, indexed, IInv, TypeOK
<1>2. s \in Search
  BY SearchType DEF IInv
<1>3. /\ new.at = NoTerm /\ new.todo = s.todo \ {s.at} /\ new.cands = s.cands \cup seen
      /\ new.pc = s.pc /\ new.tenant = s.tenant /\ new.terms = s.terms /\ new.docs = s.docs
      /\ new.n = s.n /\ new.own = s.own /\ new.inv = s.inv /\ new.df = s.df
      /\ new.held = s.held /\ new.ever = s.ever /\ new.idf = s.idf
      /\ new.up = s.up /\ new.down = s.down
  BY <1>1, <1>2 DEF Search
<1>4. new \in Search
  BY ZenonT(60), <1>1, <1>2 DEF Search
<1>5. \A v : Postings(r, v)' = Postings(r, v)
  BY <1>1, <1>3 DEF Postings
<1>6. Sound(r) /\ (raced[r] = {} => Quiet(r))
  BY ReaderFacts
<1>7. /\ s.at \in Terms
      /\ raced[r] # {"add", "remove"} => s.held \cap Postings(r, s.at) \subseteq seen
      /\ raced[r] = {} => seen = {c \in s.docs : s.at \in TermsOf[c]}
  BY <1>1, YieldsBetween DEF InSearch
<1>8. Sound(r)'
  <2>1. Holds(r)'
    BY <1>1, <1>3, <1>5, <1>6 DEF Sound, Holds, Matching
  <2>2. Follows(r)'
    BY <1>3 DEF Follows
  <2>3. ASSUME raced[r] # {"add", "remove"}, NEW w \in s.terms \ new.todo
        PROVE  Postings(r, w) \cap s.docs \subseteq new.cands
    <3>1. CASE w = s.at
      BY <1>1, <1>3, <1>6, <1>7, <2>3, <3>1 DEF Sound, Collected
    <3>2. CASE w # s.at
      BY <1>1, <1>3, <1>6, <2>3, <3>2 DEF Sound, Collected
    <3> QED  BY <3>1, <3>2
  <2>4. Collected(r)'
    BY <1>1, <1>3, <1>5, <2>3 DEF Collected
  <2> QED  BY <2>1, <2>2, <2>4 DEF Sound
<1>9. ASSUME raced[r] = {} PROVE Quiet(r)'
  <2>1. s.cands = Matching(s.docs, s.terms \ s.todo) /\ s.up = {} /\ s.down = {}
        /\ ~s.own /\ s.docs = docs[s.tenant] /\ s.n = ndoc[s.tenant]
    BY <1>1, <1>6, <1>9 DEF Quiet, InSearch
  <2>2. s.at \in s.todo /\ s.todo \subseteq s.terms
    BY <1>1, <1>6 DEF Sound, Holds
  <2>3. new.cands = Matching(new.docs, new.terms \ new.todo)
    BY <1>3, <1>7, <1>9, <2>1, <2>2 DEF Matching
  <2>4. new.pc = "collect"
    BY <1>1, <1>3
  <2> QED  BY <1>1, <1>3, <2>1, <2>3, <2>4 DEF Quiet, InSearch, Matching
<1> QED  BY <1>1, <1>4, <1>8, <1>9

\* A term of the second pass is done.
LEMMA ScoreStep ==
  ASSUME IInv, NEW r \in Readers, NEW seen \in SUBSET Chunks, Score(r, seen)
  PROVE  search'[r] \in Search /\ Sound(r)' /\ (raced'[r] = {} => Quiet(r)')
<1> DEFINE s == search[r]
           new == search'[r]
           hits == seen \cap s.docs
           up == IF s.idf = "positive" THEN s.up \cup hits ELSE s.up
           down == IF s.idf = "negative" THEN s.down \cup hits ELSE s.down
<1>1. /\ s.pc = "score" /\ s.at # NoTerm /\ Yields(r, seen)
      /\ new = [s EXCEPT !.at = NoTerm, !.todo = @ \ {s.at}, !.up = up, !.down = down]
      /\ UNCHANGED <<docs, inverted, df, ndoc, adding, begun, raced>>
  BY DEF Score, Scorable, indexed, IInv, TypeOK
<1>2. s \in Search
  BY SearchType DEF IInv
<1>3. /\ s.at \in Terms
      /\ \A c \in seen : s.at \in TermsOf[c]
      /\ raced[r] = {} => seen = {c \in s.docs : s.at \in TermsOf[c]}
  BY <1>1, YieldsBetween DEF InSearch
<1>4. Sound(r) /\ (raced[r] = {} => Quiet(r))
  BY ReaderFacts
<1>5. s.at \in s.todo /\ s.todo \subseteq s.terms
  BY <1>1, <1>4 DEF Sound, Holds
<1>6. hits \in SUBSET s.docs
  OBVIOUS
<1>7. hits \subseteq Matching(s.docs, s.terms)
  BY <1>3, <1>5 DEF Matching
<1>8. up \in SUBSET Chunks /\ down \in SUBSET Chunks
  BY SearchType DEF IInv
<1> HIDE DEF hits, up, down
<1>9. /\ new.at = NoTerm /\ new.todo = s.todo \ {s.at} /\ new.up = up /\ new.down = down
      /\ new.pc = "score" /\ new.tenant = s.tenant /\ new.terms = s.terms /\ new.docs = s.docs
      /\ new.n = s.n /\ new.own = s.own /\ new.inv = s.inv /\ new.df = s.df
      /\ new.held = s.held /\ new.ever = s.ever /\ new.idf = s.idf /\ new.cands = s.cands
  BY <1>1, <1>2 DEF Search
<1>10. new \in Search
  BY ZenonT(60), <1>1, <1>2, <1>8 DEF Search
<1>11. \A v : Postings(r, v)' = Postings(r, v)
  BY <1>1, <1>9 DEF Postings
<1>12. Sound(r)'
  <2>1. up \subseteq Matching(s.docs, s.terms)
    BY <1>4, <1>7 DEF up, Sound, Holds
  <2>2. Holds(r)'
    BY <1>1, <1>4, <1>9, <1>11, <2>1 DEF Sound, Holds, Matching
  <2>3. Follows(r)'
    BY <1>9 DEF Follows
  <2>4. Collected(r)'
    BY <1>1, <1>4, <1>9, <1>11 DEF Sound, Collected
  <2> QED  BY <2>2, <2>3, <2>4 DEF Sound
<1>13. ASSUME raced[r] = {} PROVE Quiet(r)'
  <2>1. /\ s.cands = Matching(s.docs, s.terms) /\ s.up = Matching(s.docs, s.terms \ s.todo)
        /\ s.down = {} /\ ~s.own /\ s.docs = docs[s.tenant] /\ s.n = ndoc[s.tenant]
        /\ s.held = Postings(r, s.at) /\ s.idf = IF s.held = {} THEN "zero" ELSE "positive"
    BY <1>1, <1>4, <1>13 DEF Quiet, InSearch
  <2>2. hits = {c \in s.docs : s.at \in TermsOf[c]}
    BY <1>3, <1>13 DEF hits
  <2>3. s.held = {} => hits = {}
    BY <1>1, <1>3, <1>13, <2>1, <2>2, QuietPostings DEF InSearch
  <2>4. up = s.up \cup hits /\ down = {}
    BY <2>1, <2>3 DEF up, down
  <2>5. new.up = Matching(new.docs, new.terms \ new.todo)
    BY <1>5, <1>9, <2>1, <2>2, <2>4 DEF Matching
  <2> QED  BY <1>1, <1>9, <2>1, <2>4, <2>5 DEF Quiet, InSearch, Matching
<1> QED  BY <1>1, <1>10, <1>12, <1>13

\* A pass ends, or an iteration fails.
LEMMA PassStep ==
  ASSUME IInv, NEW r \in Readers,
         \/ EndCollect(r)
         \/ \E found \in SUBSET Chunks : EndScore(r, found)
         \/ IterationFails(r)
         \/ ScoreMissing(r)
  PROVE  search'[r] \in Search /\ Sound(r)' /\ (raced'[r] = {} => Quiet(r)')
<1> DEFINE s == search[r]
           new == search'[r]
<1>1. s \in Search /\ Sound(r) /\ (raced[r] = {} => Quiet(r))
  BY SearchType, ReaderFacts DEF IInv
<1>2. CASE EndCollect(r)
  <2> DEFINE pc == IF s.cands = {} THEN "done" ELSE "score"
  <2>1. /\ s.pc = "collect" /\ s.at = NoTerm /\ s.todo = {}
        /\ new = [s EXCEPT !.pc = pc, !.todo = s.terms]
        /\ UNCHANGED <<docs, inverted, df, ndoc, adding, begun, raced>>
    BY <1>2 DEF EndCollect, indexed, IInv, TypeOK
  <2>2. pc \in {"done", "score"} /\ (pc = "done" => s.cands = {})
    OBVIOUS
  <2> HIDE DEF pc
  <2>3. /\ new.pc = pc /\ new.at = NoTerm /\ new.todo = s.terms
        /\ new.tenant = s.tenant /\ new.terms = s.terms /\ new.docs = s.docs
        /\ new.n = s.n /\ new.own = s.own /\ new.inv = s.inv /\ new.df = s.df
        /\ new.held = s.held /\ new.ever = s.ever /\ new.idf = s.idf /\ new.cands = s.cands
        /\ new.up = s.up /\ new.down = s.down
    BY <1>1, <2>1 DEF Search
  <2>4. new \in Search
    BY ZenonT(60), <1>1, <2>1, <2>2 DEF Search
  <2>5. \A v : Postings(r, v)' = Postings(r, v)
    BY <2>1, <2>3 DEF Postings
  <2>6. Sound(r)'
    <3>1. new.pc # "collect" /\ new.pc # "keyerror"
      BY <2>2, <2>3
    <3>2. Holds(r)'
      BY <1>1, <2>1, <2>3, <2>5, <3>1 DEF Sound, Holds, Matching
    <3>3. Follows(r)'
      BY <2>3 DEF Follows
    <3>4. Collected(r)'
      BY <1>1, <2>1, <2>3, <2>5, <3>1 DEF Sound, Collected
    <3> QED  BY <3>2, <3>3, <3>4 DEF Sound
  <2>7. ASSUME raced[r] = {} PROVE Quiet(r)'
    <3>1. /\ s.cands = Matching(s.docs, s.terms) /\ s.up = {} /\ s.down = {}
          /\ ~s.own /\ s.docs = docs[s.tenant] /\ s.n = ndoc[s.tenant]
      BY <1>1, <2>1, <2>7 DEF Quiet, InSearch, Matching
    <3>2. new.up = Matching(new.docs, new.terms \ new.todo)
      BY <2>3, <3>1 DEF Matching
    <3>3. new.pc = "done" => new.up = Matching(new.docs, new.terms)
      BY <2>2, <2>3, <3>1
    <3>4. new.pc \notin {"collect", "failed", "keyerror"}
      BY <2>2, <2>3
    <3> QED  BY <2>1, <2>3, <3>1, <3>2, <3>3, <3>4 DEF Quiet, InSearch, Matching
  <2> QED  BY <2>1, <2>4, <2>6, <2>7
<1>3. ASSUME NEW found \in SUBSET Chunks, EndScore(r, found)
      PROVE  search'[r] \in Search /\ Sound(r)' /\ (raced'[r] = {} => Quiet(r)')
  <2>1. /\ s.pc = "score" /\ s.at = NoTerm /\ s.todo = {}
        /\ s.up \ s.down \subseteq found /\ found \subseteq s.up
        /\ new = [s EXCEPT !.pc = "done", !.up = found]
        /\ UNCHANGED <<docs, inverted, df, ndoc, adding, begun, raced>>
    BY <1>3 DEF EndScore, indexed, IInv, TypeOK
  <2>2. /\ new.pc = "done" /\ new.up = found /\ new.at = NoTerm /\ new.todo = s.todo
        /\ new.tenant = s.tenant /\ new.terms = s.terms /\ new.docs = s.docs
        /\ new.own = s.own /\ new.inv = s.inv
    BY <1>1, <2>1 DEF Search
  <2>3. new \in Search
    BY ZenonT(60), <1>1, <2>1 DEF Search
  <2>4. \A v : Postings(r, v)' = Postings(r, v)
    BY <2>1, <2>2 DEF Postings
  <2>5. Sound(r)'
    BY <1>1, <2>1, <2>2, <2>4 DEF Sound, Holds, Follows, Collected, Matching, InSearch
  <2>6. ASSUME raced[r] = {} PROVE Quiet(r)'
    <3>1. s.up = Matching(s.docs, s.terms) /\ s.down = {}
      BY <1>1, <2>1, <2>6 DEF Quiet, InSearch, Matching
    <3> QED  BY <2>1, <2>2, <3>1 DEF Quiet, InSearch, Matching
  <2> QED  BY <2>1, <2>3, <2>5, <2>6
<1>4. CASE IterationFails(r) \/ ScoreMissing(r)
  <2> DEFINE pc == IF IterationFails(r) THEN "failed" ELSE "keyerror"
  <2>1. /\ InSearch(r) /\ s.at # NoTerm
        /\ new = [s EXCEPT !.pc = pc]
        /\ UNCHANGED <<docs, inverted, df, ndoc, adding, begun, raced>>
    BY <1>4 DEF IterationFails, ScoreMissing, InSearch, indexed, IInv, TypeOK
  <2>2. pc \in {"failed", "keyerror"} /\ (pc = "keyerror" => ScoreMissing(r))
        /\ (pc = "failed" => IterationFails(r))
    BY <1>4
  <2> HIDE DEF pc
  <2>3. /\ new.pc = pc /\ new.at = s.at /\ new.held = s.held /\ new.todo = s.todo
        /\ new.tenant = s.tenant /\ new.terms = s.terms /\ new.docs = s.docs
        /\ new.up = s.up /\ new.own = s.own /\ new.inv = s.inv /\ new.ever = s.ever
    BY <1>1, <2>1 DEF Search
  <2>4. new \in Search
    BY <1>1, <2>1, <2>2 DEF Search
  <2>5. \A v : Postings(r, v)' = Postings(r, v)
    BY <2>1, <2>3 DEF Postings
  <2>6. ASSUME ScoreMissing(r) PROVE raced[r] = {"add", "remove"}
    <3>1. s.pc = "score" /\ ~(s.ever \cap s.docs \subseteq s.cands)
      BY <2>6 DEF ScoreMissing, Scorable
    <3>2. s.ever \cap s.docs \subseteq s.held
      BY <1>1, <2>1 DEF Sound, Holds
    <3> QED  BY <1>1, <2>1, <3>1, <3>2 DEF Sound, Collected
  <2>7. Sound(r)'
    <3>1. Holds(r)'
      BY <1>1, <2>1, <2>2, <2>3, <2>5, <2>6 DEF Sound, Holds, Matching
    <3>2. Follows(r)' /\ Collected(r)'
      BY <2>2, <2>3 DEF Follows, Collected, InSearch
    <3> QED  BY <3>1, <3>2 DEF Sound
  <2>8. raced[r] # {}
    <3>1. CASE pc = "failed"
      BY <1>1, <2>1, <2>2, <3>1 DEF IterationFails, Quiet
    <3>2. CASE pc = "keyerror"
      BY <2>2, <2>6, <3>2
    <3> QED  BY <2>2, <3>1, <3>2
  <2> QED  BY <2>1, <2>4, <2>7, <2>8
<1> QED  BY <1>2, <1>3, <1>4

-----------------------------------------------------------------------------
(* Writers under a search. *)

\* The fields of a search no writer changes.
SameSearch(new, s) ==
    /\ new.pc = s.pc /\ new.tenant = s.tenant /\ new.terms = s.terms /\ new.docs = s.docs
    /\ new.n = s.n /\ new.todo = s.todo /\ new.at = s.at /\ new.held = s.held
    /\ new.idf = s.idf /\ new.cands = s.cands /\ new.up = s.up /\ new.down = s.down

\* What a write may do to a search: the maps it reads gain no chunk of its table,
\* or, if the search counts as undisturbed, nothing happens.
LEMMA WriteKeeps ==
  ASSUME IInv, NEW r \in Readers,
         SameSearch(search'[r], search[r]),
         raced[r] \subseteq raced'[r], raced'[r] \in SUBSET {"add", "remove"},
         \A w \in Terms : Postings(r, w)' \cap search[r].docs \subseteq Postings(r, w),
         \A w \in Terms : \A c \in Postings(r, w)' : w \in TermsOf[c],
         \A c \in search[r].docs : BatchOf[c] \in begun' /\ c \notin adding',
         search[r].at # NoTerm =>
             /\ \A c \in search'[r].ever : search[r].at \in TermsOf[c]
             /\ search'[r].ever \cap search[r].docs \subseteq search[r].held,
         Follows(r)',
         raced'[r] = {} => search'[r] = search[r],
         raced'[r] = {} /\ InSearch(r) =>
             /\ docs'[search[r].tenant] = docs[search[r].tenant]
             /\ ndoc'[search[r].tenant] = ndoc[search[r].tenant]
             /\ \A w \in Terms : Postings(r, w)' = Postings(r, w)
  PROVE  Sound(r)' /\ (raced'[r] = {} => Quiet(r)')
<1> DEFINE s == search[r]
           new == search'[r]
<1>1. /\ s \in Search /\ Sound(r) /\ (raced[r] = {} => Quiet(r))
      /\ s.at \in Terms \cup {NoTerm} /\ s.terms \in SUBSET Terms
  BY SearchType, ReaderFacts DEF IInv
<1>2. /\ new.pc = s.pc /\ new.tenant = s.tenant /\ new.terms = s.terms /\ new.docs = s.docs
      /\ new.n = s.n /\ new.todo = s.todo /\ new.at = s.at /\ new.held = s.held
      /\ new.idf = s.idf /\ new.cands = s.cands /\ new.up = s.up /\ new.down = s.down
  BY DEF SameSearch
<1>3. Sound(r)'
  <2>1. Holds(r)'
    <3>1. new.pc = "keyerror" => raced'[r] = {"add", "remove"}
      BY <1>1, <1>2 DEF Sound, Holds
    <3> QED  BY <1>1, <1>2, <3>1 DEF Sound, Holds, Matching
  <2>2. ASSUME raced'[r] # {"add", "remove"} PROVE raced[r] # {"add", "remove"}
    BY <2>2
  <2>3. ASSUME raced'[r] # {"add", "remove"}, s.pc = "collect"
        PROVE  /\ \A w \in s.terms \ s.todo : Postings(r, w)' \cap s.docs \subseteq s.cands
               /\ \A w \in Terms : w = s.at => Postings(r, w)' \cap s.docs \subseteq s.held
    BY <1>1, <2>2, <2>3, IndexAssumption DEF Sound, Collected
  <2>4. ASSUME raced'[r] # {"add", "remove"}, s.pc = "score"
        PROVE  /\ \A w \in s.terms : Postings(r, w)' \cap s.docs \subseteq s.cands
               /\ s.at # NoTerm => s.held \cap s.docs \subseteq s.cands
    BY <1>1, <2>2, <2>4 DEF Sound, Collected
  <2>5. Collected(r)'
    BY <1>1, <1>2, <2>3, <2>4 DEF Collected
  <2> QED  BY <2>1, <2>5 DEF Sound
<1>4. ASSUME raced'[r] = {} PROVE Quiet(r)'
  <2>1. Quiet(r) /\ new = s
    BY <1>1, <1>4
  <2>2. InSearch(r)' = InSearch(r)
    BY <2>1 DEF InSearch
  <2>3. InSearch(r) /\ s.at # NoTerm => Postings(r, s.at)' = Postings(r, s.at)
    BY <1>1, <1>4
  <2> QED  BY <1>4, <2>1, <2>2, <2>3 DEF Quiet, Matching
<1> QED  BY <1>3, <1>4

\* Chunks of a copied table are of runs that have begun, so add_chunks never
\* adds one of them (again).
LEMMA AddKeepsSearches ==
  ASSUME IInv,
         (\E b \in Batches : BeginAdd(b)) \/ (\E c \in Chunks : AddChunk(c)),
         IndexInv'
  PROVE  /\ search' \in [Readers -> Search]
         /\ raced' \in [Readers -> SUBSET {"add", "remove"}]
         /\ \A r \in Readers : Sound(r)' /\ (raced'[r] = {} => Quiet(r)')
<1>1. CASE \E b \in Batches : BeginAdd(b)
  <2>1. PICK b \in Batches : BeginAdd(b)
    BY <1>1
  <2>2. /\ b \notin begun /\ adding' = {c \in Chunks : BatchOf[c] = b}
        /\ begun' = begun \cup {b}
        /\ UNCHANGED <<docs, inverted, df, ndoc, search, raced>>
    BY <2>1 DEF BeginAdd, indexed
  <2>3. search' \in [Readers -> Search] /\ raced' \in [Readers -> SUBSET {"add", "remove"}]
    BY <2>2 DEF IInv, TypeOK
  <2> SUFFICES ASSUME NEW r \in Readers PROVE Sound(r)' /\ (raced'[r] = {} => Quiet(r)')
    BY <2>3
  <2>4. \A w : Postings(r, w)' = Postings(r, w)
    BY <2>2 DEF Postings
  <2>5. Holds(r) /\ Follows(r)
    BY ReaderFacts DEF Sound
  <2>6. \A c \in search[r].docs : BatchOf[c] \in begun' /\ c \notin adding'
    BY <2>2, <2>5 DEF Holds
  <2>7. \A w \in Terms : \A c \in Postings(r, w)' : w \in TermsOf[c]
    BY <2>4, <2>5 DEF Holds
  <2>8. Follows(r)'
    BY <2>2, <2>4, <2>5 DEF Follows, InSearch
  <2>9. search[r].at # NoTerm =>
             /\ \A c \in search'[r].ever : search[r].at \in TermsOf[c]
             /\ search'[r].ever \cap search[r].docs \subseteq search[r].held
    BY <2>2, <2>5 DEF Holds
  <2>10. SameSearch(search'[r], search[r]) /\ raced'[r] = raced[r]
         /\ raced'[r] \in SUBSET {"add", "remove"}
    BY <2>2, SearchType DEF SameSearch, IInv
  <2> QED  BY <2>2, <2>4, <2>6, <2>7, <2>8, <2>9, <2>10, WriteKeeps
<1>2. CASE \E c \in Chunks : AddChunk(c)
  <2>1. PICK c \in Chunks : AddChunk(c)
    BY <1>2
  <2> DEFINE t == TenantOf[DocumentOf(c)]
  <2>2. t \in Tenants
    BY IndexAssumption DEF DocumentOf
  <2>3. /\ c \in adding /\ adding' = adding \ {c} /\ begun' = begun
        /\ docs' = [docs EXCEPT ![t] = @ \cup {c}]
        /\ inverted' = [inverted EXCEPT ![t] =
              [w \in Terms |-> IF w \in TermsOf[c] THEN @[w] \cup {c} ELSE @[w]]]
        /\ ndoc' = [ndoc EXCEPT ![t] = Cardinality(docs[t] \cup {c})]
        /\ raced' = [r \in Readers |-> IF InSearch(r) /\ search[r].tenant = t
                                      THEN raced[r] \cup {"add"} ELSE raced[r]]
        /\ search' = [r \in Readers |->
              IF Iterates(r, t) /\ search[r].at \in TermsOf[c] /\ search[r].ever # {}
              THEN [search[r] EXCEPT !.ever = @ \cup {c}] ELSE search[r]]
    BY <2>1 DEF AddChunk, Disturb
  <2> HIDE DEF t
  <2>4. \A r \in Readers : search[r] \in Search /\ raced[r] \in SUBSET {"add", "remove"}
    BY SearchType DEF IInv
  <2>5. raced' \in [Readers -> SUBSET {"add", "remove"}]
    BY <2>3, <2>4
  <2>6. search' \in [Readers -> Search]
    <3>1. \A s \in Search : [s EXCEPT !.ever = @ \cup {c}] \in Search
      BY DEF Search
    <3> QED  BY <2>3, <2>4, <3>1
  <2> SUFFICES ASSUME NEW r \in Readers PROVE Sound(r)' /\ (raced'[r] = {} => Quiet(r)')
    BY <2>5, <2>6
  <2> DEFINE s == search[r]
             Grows == Iterates(r, t) /\ s.at \in TermsOf[c] /\ s.ever # {}
  <2>7. /\ s \in Search /\ s.tenant \in Tenants /\ s.at \in Terms \cup {NoTerm}
        /\ raced'[r] = IF InSearch(r) /\ s.tenant = t THEN raced[r] \cup {"add"} ELSE raced[r]
        /\ Holds(r) /\ Follows(r)
    BY <2>3, SearchType, ReaderFacts DEF IInv, Sound
  <2>8. \/ Grows /\ search'[r] = [s EXCEPT !.ever = @ \cup {c}]
        \/ ~Grows /\ search'[r] = s
    BY <2>3
  <2>9. /\ SameSearch(search'[r], s) /\ search'[r].own = s.own /\ search'[r].inv = s.inv
        /\ search'[r].ever = IF Grows THEN s.ever \cup {c} ELSE s.ever
    <3>1. CASE Grows
      BY <2>7, <2>8, <3>1 DEF Search, SameSearch
    <3>2. CASE ~Grows
      BY <2>8, <3>2 DEF SameSearch
    <3> QED  BY <3>1, <3>2
  <2>10. c \notin s.docs /\ \A e \in s.docs : BatchOf[e] \in begun' /\ e \notin adding'
    BY <2>3, <2>7 DEF Holds
  <2>11. ASSUME NEW w \in Terms
         PROVE  Postings(r, w)' = IF ~s.own /\ s.tenant = t /\ w \in TermsOf[c]
                                  THEN Postings(r, w) \cup {c} ELSE Postings(r, w)
    <3>1. Postings(r, w)' = IF s.own THEN s.inv[w] ELSE inverted'[s.tenant][w]
      BY <2>9 DEF Postings, SameSearch
    <3> QED  BY <2>2, <2>3, <2>7, <3>1 DEF Postings, IInv, TypeOK, IndexType
  <2>12. \A w \in Terms : \A e \in Postings(r, w)' : w \in TermsOf[e]
    BY <2>7, <2>11 DEF Holds
  <2>13. s.at # NoTerm => /\ \A e \in search'[r].ever : s.at \in TermsOf[e]
                         /\ search'[r].ever \cap s.docs \subseteq s.held
    BY <2>7, <2>9, <2>10 DEF Holds
  <2>14. Follows(r)'
    <3> SUFFICES ASSUME InSearch(r), NEW w \in Terms, w = s.at
                 PROVE  /\ "remove" \notin raced'[r] /\ s.held # {} =>
                              /\ search'[r].ever = Postings(r, w)'
                              /\ s.held \subseteq search'[r].ever
                        /\ "add" \notin raced'[r] =>
                              /\ Postings(r, w)' \subseteq s.held
                              /\ search'[r].ever \in {s.held, {}}
      <4>1. /\ search'[r].pc = s.pc /\ search'[r].at = s.at /\ search'[r].held = s.held
        BY <2>9 DEF SameSearch
      <4> QED  BY <2>7, <4>1 DEF Follows, InSearch
    <3>1. w \in Terms /\ s.at = w /\ s.at # NoTerm
      BY IndexAssumption
    <3>2. ASSUME "remove" \notin raced'[r], s.held # {}
          PROVE  search'[r].ever = Postings(r, w)' /\ s.held \subseteq search'[r].ever
      <4>1. s.ever = Postings(r, w) /\ s.held \subseteq s.ever /\ s.ever # {}
        BY <2>7, <3>1, <3>2 DEF Follows
      <4> QED  BY <2>9, <2>11, <3>1, <4>1 DEF Iterates
    <3>3. ASSUME "add" \notin raced'[r]
          PROVE  Postings(r, w)' \subseteq s.held /\ search'[r].ever \in {s.held, {}}
      <4>1. s.tenant # t /\ "add" \notin raced[r]
        BY <2>7, <3>3
      <4>2. ~Grows /\ Postings(r, w)' = Postings(r, w)
        BY <2>11, <3>1, <4>1 DEF Iterates
      <4> QED  BY <2>7, <2>9, <3>1, <4>1, <4>2 DEF Follows
    <3> QED  BY <3>2, <3>3
  <2>15. ASSUME raced'[r] = {} PROVE ~(InSearch(r) /\ s.tenant = t) /\ search'[r] = s
    <3>1. ~(InSearch(r) /\ s.tenant = t)
      BY <2>7, <2>15
    <3> QED  BY <2>8, <3>1 DEF Iterates
  <2>16. ASSUME raced'[r] = {}, InSearch(r)
         PROVE  /\ docs'[s.tenant] = docs[s.tenant] /\ ndoc'[s.tenant] = ndoc[s.tenant]
                /\ \A w \in Terms : Postings(r, w)' = Postings(r, w)
    <3>1. s.tenant # t
      BY <2>15, <2>16
    <3>2. docs'[s.tenant] = docs[s.tenant] /\ ndoc'[s.tenant] = ndoc[s.tenant]
      BY <2>2, <2>3, <2>7, <3>1 DEF IInv, TypeOK, IndexType
    <3> QED  BY <2>11, <3>1, <3>2
  <2>17. \A w \in Terms : Postings(r, w)' \cap s.docs \subseteq Postings(r, w)
    BY <2>10, <2>11
  <2>18. raced[r] \subseteq raced'[r] /\ raced'[r] \in SUBSET {"add", "remove"}
    BY <2>5, <2>7
  <2> HIDE DEF s
  <2> QED  BY <2>9, <2>10, <2>12, <2>13, <2>14, <2>15, <2>16, <2>17, <2>18, WriteKeeps DEF s
<1> QED  BY <1>1, <1>2

\* A delete takes chunks out of the maps a search reads; after a reset the
\* search holds them as they were left.
LEMMA DeleteKeepsSearches ==
  ASSUME IInv, NEW d \in Docs, DeleteDocument(d), IndexInv'
  PROVE  /\ search' \in [Readers -> Search]
         /\ raced' \in [Readers -> SUBSET {"add", "remove"}]
         /\ \A r \in Readers : Sound(r)' /\ (raced'[r] = {} => Quiet(r)')
<1> DEFINE t    == TenantOf[d]
           gone == {c \in docs[t] : DocumentOf(c) = d}
           left == docs[t] \ gone
           inv  == PostingsWithout(t, gone)
           cnt  == CountsWithout(t, gone)
           taken(s) == [s EXCEPT !.own = TRUE, !.inv = inv, !.df = cnt]
<1>1. t \in Tenants /\ gone \in SUBSET Chunks /\ left \in SUBSET Chunks
  BY SMTT(60), IndexAssumption DEF IInv, TypeOK, IndexType
<1>2. /\ adding' = adding /\ begun' = begun
      /\ raced' = [r \in Readers |-> IF InSearch(r) /\ search[r].tenant = t
                                    THEN raced[r] \cup {"remove"} ELSE raced[r]]
  BY DEF DeleteDocument, Disturb
<1>3. inv \in [Terms -> SUBSET Chunks] /\ cnt \in [Terms -> Nat]
      /\ \A w \in Terms : inv[w] = inverted[t][w] \ gone
  <2>1. \A w \in Terms : inverted[t][w] \in SUBSET Chunks /\ df[t][w] \in Nat
    BY <1>1 DEF IInv, TypeOK, IndexType
  <2>2. \A w \in Terms : Cardinality(inverted[t][w] \ gone) \in Nat
    BY SMTT(60), <2>1, ChunkSets
  <2> QED  BY <2>1, <2>2 DEF PostingsWithout, CountsWithout
<1>4. \/ /\ docs' = [docs EXCEPT ![t] = left] /\ inverted' = [inverted EXCEPT ![t] = inv]
         /\ ndoc' = [ndoc EXCEPT ![t] = IF gone = {} THEN @ ELSE Cardinality(left)]
         /\ search' = [r \in Readers |->
                IF Iterates(r, t) THEN Emptied(search[r], inv) ELSE search[r]]
      \/ /\ docs' = [docs EXCEPT ![t] = {}] /\ inverted' = [inverted EXCEPT ![t] = NoPostings]
         /\ ndoc' = [ndoc EXCEPT ![t] = 0]
         /\ search' = [r \in Readers |->
                IF InSearch(r) /\ search[r].tenant = t /\ ~search[r].own
                THEN Emptied(taken(search[r]), inv) ELSE search[r]]
  BY DEF DeleteDocument
<1> HIDE DEF t, gone, left, inv, cnt
<1>5. \A s \in Search : s.at \in Terms \cup {NoTerm} /\ taken(s) \in Search
  BY <1>3 DEF Search
<1>6. ASSUME NEW s \in Search
      PROVE  /\ Emptied(s, inv) \in Search /\ SameSearch(Emptied(s, inv), s)
             /\ Emptied(s, inv).own = s.own /\ Emptied(s, inv).inv = s.inv
             /\ Emptied(s, inv).ever \in {s.ever, {}}
  BY DEF Emptied, Search, SameSearch
<1>7. ASSUME NEW s \in Search
      PROVE  /\ SameSearch(taken(s), s) /\ taken(s).own = TRUE /\ taken(s).inv = inv
             /\ taken(s).ever = s.ever
  BY DEF Search, SameSearch
<1> HIDE DEF taken
<1>8. \A r \in Readers : search[r] \in Search /\ raced[r] \in SUBSET {"add", "remove"}
  BY SearchType DEF IInv
<1>9. search' \in [Readers -> Search]
  BY <1>4, <1>5, <1>6, <1>8
<1>10. raced' \in [Readers -> SUBSET {"add", "remove"}]
  BY <1>2, <1>8
<1>11. ASSUME NEW r \in Readers PROVE Sound(r)' /\ (raced'[r] = {} => Quiet(r)')
  <2> DEFINE s == search[r]
             new == search'[r]
  <2>1. /\ s \in Search /\ s.tenant \in Tenants /\ s.at \in Terms \cup {NoTerm}
        /\ raced'[r] = IF InSearch(r) /\ s.tenant = t THEN raced[r] \cup {"remove"}
                       ELSE raced[r]
        /\ Holds(r) /\ Follows(r)
    BY <1>2, SearchType, ReaderFacts DEF IInv, Sound
  <2>2. /\ SameSearch(new, s) /\ new.ever \in {s.ever, {}}
        /\ \/ new = s
           \/ new.own = s.own /\ new.inv = s.inv /\ InSearch(r) /\ s.tenant = t
           \/ new.own = TRUE /\ new.inv = inv /\ InSearch(r) /\ s.tenant = t /\ ~s.own
    <3>1. CASE new = s
      BY <3>1 DEF SameSearch
    <3>2. CASE new # s /\ new = Emptied(s, inv) /\ Iterates(r, t)
      BY <1>6, <2>1, <3>2 DEF Iterates
    <3>3. CASE new # s /\ new = Emptied(taken(s), inv) /\ InSearch(r) /\ s.tenant = t /\ ~s.own
      <4>1. taken(s) \in Search /\ SameSearch(taken(s), s) /\ taken(s).own = TRUE
            /\ taken(s).inv = inv /\ taken(s).ever = s.ever
        BY <1>5, <1>7, <2>1
      <4>2. /\ SameSearch(new, taken(s)) /\ new.own = taken(s).own /\ new.inv = taken(s).inv
            /\ new.ever \in {taken(s).ever, {}}
        BY <1>6, <3>3, <4>1
      <4>3. SameSearch(new, s)
        BY <4>1, <4>2 DEF SameSearch
      <4> QED  BY <3>3, <4>1, <4>2, <4>3
    <3> QED  BY <1>4, <3>1, <3>2, <3>3
  <2>3. ASSUME NEW w \in Terms
        PROVE  /\ Postings(r, w)' \subseteq Postings(r, w)
               /\ s.tenant # t => Postings(r, w)' = Postings(r, w)
    <3>1. Postings(r, w)' = IF new.own THEN new.inv[w] ELSE inverted'[s.tenant][w]
      BY <2>2 DEF Postings, SameSearch
    <3>2. CASE new.own = s.own /\ new.inv = s.inv
      <4>1. s.tenant # t => inverted'[s.tenant] = inverted[s.tenant]
        BY <1>1, <1>4, <2>1 DEF IInv, TypeOK, IndexType
      <4>2. inverted'[t] = inv \/ inverted'[t] = NoPostings
        BY <1>1, <1>4 DEF IInv, TypeOK, IndexType
      <4>3. inverted'[t][w] \subseteq inverted[t][w]
        BY <1>3, <4>2 DEF NoPostings
      <4> QED  BY <3>1, <3>2, <4>1, <4>3 DEF Postings
    <3>3. CASE new.own = TRUE /\ new.inv = inv /\ s.tenant = t /\ ~s.own
      BY <1>3, <3>1, <3>3 DEF Postings
    <3> QED  BY <2>2, <3>2, <3>3
  <2>4. \A w \in Terms : \A c \in Postings(r, w)' : w \in TermsOf[c]
    BY <2>1, <2>3 DEF Holds
  <2>5. \A c \in s.docs : BatchOf[c] \in begun' /\ c \notin adding'
    BY <1>2, <2>1 DEF Holds
  <2>6. s.at # NoTerm => /\ \A c \in new.ever : s.at \in TermsOf[c]
                        /\ new.ever \cap s.docs \subseteq s.held
    BY <2>1, <2>2 DEF Holds
  <2>7. ASSUME raced'[r] = {} \/ "remove" \notin raced'[r]
        PROVE  ~(InSearch(r) /\ s.tenant = t) /\ new = s
    <3>1. ~(InSearch(r) /\ s.tenant = t)
      BY <2>1, <2>7
    <3> QED  BY <2>2, <3>1
  <2>8. Follows(r)'
    <3> SUFFICES ASSUME InSearch(r), NEW w \in Terms, w = s.at
                 PROVE  /\ "remove" \notin raced'[r] /\ s.held # {} =>
                              new.ever = Postings(r, w)' /\ s.held \subseteq new.ever
                        /\ "add" \notin raced'[r] =>
                              Postings(r, w)' \subseteq s.held /\ new.ever \in {s.held, {}}
      <4>1. new.pc = s.pc /\ new.at = s.at /\ new.held = s.held
        BY <2>2 DEF SameSearch
      <4> QED  BY <2>1, <4>1 DEF Follows, InSearch
    <3>1. w \in Terms /\ s.at = w /\ s.at # NoTerm
      BY IndexAssumption
    <3>2. ASSUME "remove" \notin raced'[r], s.held # {}
          PROVE  new.ever = Postings(r, w)' /\ s.held \subseteq new.ever
      <4>1. new = s /\ s.tenant # t /\ raced'[r] = raced[r]
        BY <2>1, <2>7, <3>2
      <4> QED  BY <2>1, <2>3, <3>1, <3>2, <4>1 DEF Follows
    <3>3. ASSUME "add" \notin raced'[r]
          PROVE  Postings(r, w)' \subseteq s.held /\ new.ever \in {s.held, {}}
      <4>1. "add" \notin raced[r]
        BY <2>1, <3>3
      <4>2. Postings(r, w) \subseteq s.held /\ s.ever \in {s.held, {}}
        BY <2>1, <3>1, <4>1 DEF Follows
      <4> QED  BY <2>2, <2>3, <3>1, <4>2
    <3> QED  BY <3>2, <3>3
  <2>9. ASSUME raced'[r] = {}, InSearch(r)
        PROVE  /\ docs'[s.tenant] = docs[s.tenant] /\ ndoc'[s.tenant] = ndoc[s.tenant]
               /\ \A w \in Terms : Postings(r, w)' = Postings(r, w)
    <3>1. s.tenant # t
      BY <2>7, <2>9
    <3>2. docs'[s.tenant] = docs[s.tenant] /\ ndoc'[s.tenant] = ndoc[s.tenant]
      BY <1>1, <1>4, <2>1, <3>1 DEF IInv, TypeOK, IndexType
    <3> QED  BY <2>3, <3>1, <3>2
  <2>10. \A w \in Terms : Postings(r, w)' \cap s.docs \subseteq Postings(r, w)
    BY <2>3
  <2>11. raced[r] \subseteq raced'[r] /\ raced'[r] \in SUBSET {"add", "remove"}
    BY <1>10, <2>1
  <2> HIDE DEF s, new
  <2> QED  BY <2>2, <2>4, <2>5, <2>6, <2>7, <2>8, <2>9, <2>10, <2>11, WriteKeeps DEF s, new
<1> QED  BY <1>9, <1>10, <1>11

\* A step of one reader leaves the others as they were.
LEMMA ReadStep ==
  ASSUME IInv, NEW r \in Readers, Read(r)
  PROVE  /\ search' \in [Readers -> Search] /\ raced' = raced
         /\ SearchInv'
<1>1. search'[r] \in Search /\ Sound(r)' /\ (raced'[r] = {} => Quiet(r)')
  BY SMTT(60), SnapshotStep, EnterStep, CollectStep, ScoreStep, PassStep DEF Read
<1>2. UNCHANGED <<indexed, adding, begun, raced>>
      /\ \E new : search' = [search EXCEPT ![r] = new]
  BY ZenonT(60) DEF Read, Snapshot, Enter, Collect, Score, ScoreMissing, IterationFails,
                 EndCollect, EndScore
<1>3. \A q \in Readers : q # r => search'[q] = search[q]
  BY <1>2 DEF IInv, TypeOK
<1>4. search' \in [Readers -> Search]
  BY <1>1, <1>2 DEF IInv, TypeOK
<1>5. \A q \in Readers : q # r => Sound(q)' /\ (raced'[q] = {} => Quiet(q)')
  BY <1>2, <1>3, ReaderFacts, OtherReader
<1> QED  BY <1>1, <1>2, <1>4, <1>5 DEF SearchInv

\* What searches hold and find agrees with the index in every reachable state.
THEOREM SearchInvariant == Spec => []IInv
<1>1. Init => IInv
  <2> SUFFICES ASSUME Init PROVE IInv
    OBVIOUS
  <2>1. IndexInv
    <3>1. Cardinality({}) = 0
      BY FS_EmptySet
    <3>2. IndexType /\ Fresh
      BY DEF Init, IndexType, Fresh, NoPostings, NoCounts
    <3>3. IndexConsistent
      BY <3>1 DEF Init, IndexConsistent, NoPostings, NoCounts
    <3> QED  BY <3>2, <3>3 DEF IndexInv
  <2>2. Idle \in Search
    <3>1. PICK t : t = CHOOSE u \in Tenants : TRUE
      OBVIOUS
    <3>2. t \in Tenants
      BY <3>1, IndexAssumption
    <3>3. NoPostings \in [Terms -> SUBSET Chunks] /\ NoCounts \in [Terms -> Nat]
      BY DEF NoPostings, NoCounts
    <3>4. /\ {} \in SUBSET Terms /\ {} \in SUBSET Chunks /\ NoTerm \in Terms \cup {NoTerm}
          /\ "zero" \in {"zero", "positive", "negative"} /\ FALSE \in BOOLEAN /\ 0 \in Nat
          /\ "idle" \in {"idle", "collect", "score", "done", "failed", "keyerror"}
      OBVIOUS
    <3>5. Idle = [pc |-> "idle", tenant |-> t, terms |-> {}, docs |-> {}, n |-> 0,
                  own |-> FALSE, inv |-> NoPostings, df |-> NoCounts, todo |-> {},
                  at |-> NoTerm, held |-> {}, ever |-> {}, idf |-> "zero",
                  cands |-> {}, up |-> {}, down |-> {}]
      BY <3>1 DEF Idle
    <3> QED  BY <3>2, <3>3, <3>4, <3>5 DEF Search
  <2>3. TypeOK
    BY <2>1, <2>2 DEF Init, TypeOK, IndexInv
  <2>4. ASSUME NEW r \in Readers PROVE Sound(r) /\ Quiet(r)
    <3>1. /\ search[r].pc = "idle" /\ search[r].docs = {} /\ search[r].todo = {}
          /\ search[r].terms = {} /\ search[r].at = NoTerm /\ search[r].up = {}
          /\ search[r].own = FALSE /\ search[r].pc # "keyerror"
      BY DEF Init, Idle
    <3>2. \A w \in Terms : Postings(r, w) = inverted[search[r].tenant][w]
      BY <3>1 DEF Postings
    <3>3. \A w \in Terms : Postings(r, w) = {}
      BY <2>3, <3>2, SearchType DEF Init, NoPostings
    <3> QED  BY <3>1, <3>3 DEF Sound, Holds, Follows, Collected, Quiet, InSearch, Matching
  <2> QED  BY <2>1, <2>3, <2>4 DEF IInv, SearchInv
<1>2. IInv /\ [Next]_vars => IInv'
  <2> SUFFICES ASSUME IInv, [Next]_vars PROVE IInv'
    OBVIOUS
  <2>1. IndexInv'
    BY IndexStep DEF IInv
  <2>2. ASSUME NEW r \in Readers, Read(r) PROVE search' \in [Readers -> Search]
                                              /\ raced' \in [Readers -> SUBSET {"add", "remove"}] /\ SearchInv'
    BY <2>2, ReadStep DEF IInv, TypeOK
  <2>3. ASSUME Write PROVE search' \in [Readers -> Search]
                           /\ raced' \in [Readers -> SUBSET {"add", "remove"}] /\ SearchInv'
    BY <2>1, <2>3, AddKeepsSearches, DeleteKeepsSearches DEF Write, SearchInv, IInv, TypeOK
  <2>4. ASSUME UNCHANGED vars PROVE search' \in [Readers -> Search]
                                    /\ raced' \in [Readers -> SUBSET {"add", "remove"}] /\ SearchInv'
    <3>1. UNCHANGED <<indexed, adding, begun, raced>> /\ search' = search
      BY <2>4 DEF vars, indexed
    <3>2. ASSUME NEW r \in Readers PROVE Sound(r)' /\ (raced'[r] = {} => Quiet(r)')
      <4>1. Sound(r) /\ (raced[r] = {} => Quiet(r))
        BY ReaderFacts
      <4>2. search'[r] = search[r]
        BY <3>1
      <4> QED  BY <3>1, <4>1, <4>2, OtherReader
    <3>3. SearchInv'
      BY <3>2 DEF SearchInv
    <3> QED  BY <3>1, <3>3 DEF IInv, TypeOK
  <2> QED  BY <2>1, <2>2, <2>3, <2>4 DEF Next, IInv, TypeOK, IndexInv
<1> QED  BY <1>1, <1>2, PTL DEF Spec

\* Every variable keeps its type.
THEOREM TypeCorrect == Spec => []TypeOK
<1>1. IInv => TypeOK
  BY DEF IInv
<1> QED  BY <1>1, SearchInvariant, PTL

\* The KeyError of the second pass (search): chunks of the search's tenant were
\* added and documents of it deleted while it ran; adding alone, and deleting
\* alone, end in the complete result or in the iterator's RuntimeError.
THEOREM KeyErrorTakesBoth == Spec => []KeyErrorNeedsBoth
<1>1. IInv => KeyErrorNeedsBoth
  BY DEF IInv, SearchInv, Sound, Holds, KeyErrorNeedsBoth
<1> QED  BY <1>1, SearchInvariant, PTL

\* An undisturbed search reports exactly the matching chunks (search, before
\* the cut to top_k).
THEOREM QuietIsExact == Spec => []QuietSearchIsExact
<1>1. IInv => QuietSearchIsExact
  BY DEF IInv, SearchInv, Quiet, Matching, QuietSearchIsExact
<1> QED  BY <1>1, SearchInvariant, PTL

\* Only a write to its own tenant's index makes a search fail.
THEOREM FailureIsOwn == Spec => []FailsOnlyWhenRaced
<1>1. IInv => FailsOnlyWhenRaced
  BY DEF IInv, SearchInv, Quiet, FailsOnlyWhenRaced
<1> QED  BY <1>1, SearchInvariant, PTL

\* Whatever is written meanwhile, a search reports chunks that were indexed for
\* its tenant when it began and that contain one of its terms.
THEOREM GenuineReports == Spec => []ReportsAreGenuine
<1>1. IInv => ReportsAreGenuine
  BY DEF IInv, SearchInv, Sound, Holds, Matching, ReportsAreGenuine
<1> QED  BY <1>1, SearchInvariant, PTL
=============================================================================
