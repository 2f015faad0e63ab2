----------------------------- MODULE Retrieval -----------------------------
(***************************************************************************)
(* RetrievalPipeline.retrieve: transform the query, search by vectors and  *)
(* by BM25, search again for every variant, fuse, remove duplicates, load  *)
(* texts, rerank, compress.  Searches are external to the request: each    *)
(* returns some ranked list of chunks or fails, and rows of chunks may be  *)
(* deleted between any two steps.                                          *)
(***************************************************************************)
EXTENDS QueryTransform, FiniteSetsExt

CONSTANTS
    Chunks,         \* chunk ids
    TextOf,         \* the text in the row of a chunk
    BeginningOf,    \* BeginningOf[t]: the first 80 characters of text t, in
                    \* lower case and without the spaces around it
    NoText,         \* ""
    Hits,           \* ranked lists a search may return
    Failed,         \* a search that raises
    Queries,        \* what is asked
    SettingsRange,  \* settings: [dense, lexical, rewrite, expansion, multi,
                    \* hyde, verify, nli, rerankTop, stream]; stream: the
                    \* request is one to /chat/stream; nli: "off", "loaded"
                    \* or "missing", a model that cannot be loaded
    DenseTop, LexicalTop, FinalTop,
    RrfK, DenseWeight, LexicalWeight,
    Scale,          \* a common multiple of the denominators of RRF
    Scores,         \* what a reranker may score, in ten-thousandths
    MinScore

ASSUME RetrievalAssumption ==
    /\ {DenseTop, LexicalTop, FinalTop, RrfK, DenseWeight, LexicalWeight, Scale} \subseteq Nat
    /\ Hits \subseteq Seq(Chunks)
    /\ Failed \notin Hits
    /\ Scores \subseteq Int /\ MinScore \in Int
    /\ DOMAIN TextOf = Chunks
    /\ DOMAIN BeginningOf = Range(TextOf)
    /\ Queries \subseteq Seq(STRING)
    /\ \A s \in SettingsRange :
          /\ {s.dense, s.lexical, s.rewrite, s.expansion, s.multi, s.hyde, s.verify, s.stream} \subseteq BOOLEAN
          /\ s.nli \in {"off", "loaded", "missing"}
          /\ s.rerankTop \in Nat

VARIABLES
    stage,      \* what was done last, or "failed"
    error,      \* what raised
    settings,
    tq,         \* the transformed query
    dense,      \* ctx.dense_candidates, each with the search it came from
    lexical,    \* ctx.bm25_candidates
    found,      \* chunks that a search of this request returned
    fused,      \* candidate ids from fusion on
    text,       \* chunk.text of the candidates
    score,      \* chunk.score of the candidates
    context,    \* ctx.compressed
    rows        \* chunks that have a row

retrievalVars == <<stage, error, settings, tq, dense, lexical, found, fused, text, score, context>>

Ids(list) == {list[i] : i \in DOMAIN list}

-----------------------------------------------------------------------------
(* Lists. *)

\* Distinct ids in the order of their first occurrence.
Distinct(ids) == Filtered(ids, LAMBDA kept, c : ~Contains(kept, c))

First(list, n) == SubSeq(list, 1, IF Len(list) < n THEN Len(list) ELSE n)

\* sort(key, reverse=True), which is stable: key[i] belongs to list[i].
SortedBy(list, key) ==
    LET Place(i) == Cardinality({j \in DOMAIN list :
                        key[j] > key[i] \/ (key[j] = key[i] /\ j <= i)})
    IN  [n \in DOMAIN list |-> list[CHOOSE i \in DOMAIN list : Place(i) = n]]

\* Reciprocal ranks of chunk c in a list, which may hold it more than once.
Reciprocal(c, list, weight) ==
    LET f[n \in 0..Len(list)] ==
            IF n = 0 THEN 0
            ELSE f[n - 1] + (IF list[n].id = c THEN (weight * Scale) \div (RrfK + n) ELSE 0)
    IN  f[Len(list)]

RrfScore(c) == Reciprocal(c, dense, DenseWeight) + Reciprocal(c, lexical, LexicalWeight)

IdsOf(list) == [i \in DOMAIN list |-> list[i].id]

Fuse(topK) ==
    LET seen == Distinct(IdsOf(dense \o lexical))
    IN  First(SortedBy(seen, [i \in DOMAIN seen |-> RrfScore(seen[i])]), topK)

\* Two texts that begin alike pass for one, whatever comes after: a parent and
\* its first child do, if that has 80 characters.  An empty text is like none.
Alike(c, d) == NoText \notin {text[c], text[d]} /\ BeginningOf[text[c]] = BeginningOf[text[d]]

\* The text begins like that of a chunk that was kept.
Repeated(kept, c) == \E i \in DOMAIN kept : Alike(kept[i], c)

ByScore(list) ==
    LET fit == Filtered(list, LAMBDA kept, c : score[c] >= MinScore)
    IN  SortedBy(fit, [i \in DOMAIN fit |-> score[fit[i]]])

\* Variant: the first final_top_k of the list, then without repeated texts.
CompressFirst(list) ==
    Filtered(ByScore(First(list, FinalTop)), LAMBDA kept, c : ~Repeated(kept, c))

\* compress: by score, without repeated texts.  The length is tested after a
\* chunk was kept.
Compress(list) ==
    Filtered(ByScore(list), LAMBDA kept, c : /\ kept = <<>> \/ Len(kept) < FinalTop
                                             /\ ~Repeated(kept, c))

-----------------------------------------------------------------------------
(* Searches. *)

Tagged(list, by) == [i \in DOMAIN list |-> [id |-> list[i], by |-> by]]

Outcomes(by, limit) == {Tagged(First(h, limit), by) : h \in Hits} \cup {Failed}

\* What a gathered search leaves of an outcome: return_exceptions, so one that
\* failed is an empty list.
Kept(outcome) == IF outcome = Failed THEN <<>> ELSE outcome

\* Variant: the loop over the outcomes ends at the first that failed.
GatheredUntilFailure(outcomes) ==
    FoldLeft(LAMBDA sofar, o : IF sofar.ended \/ o = Failed
                               THEN [sofar EXCEPT !.ended = TRUE]
                               ELSE [sofar EXCEPT !.list = @ \o o],
             [ended |-> FALSE, list |-> <<>>], outcomes).list

Gathered(outcomes) == FlattenSeq([i \in DOMAIN outcomes |-> Kept(outcomes[i])])

\* The chunks that the searches with these outcomes returned.
Returned(outcomes) == UNION {Ids(IdsOf(o)) : o \in outcomes \ {Failed}}

TopOfDense == IF settings.dense THEN DenseTop ELSE 0
TopOfLexical == IF settings.lexical THEN LexicalTop ELSE 0

Go(from, to) == stage = from /\ stage' = to

Fail(kind) ==
    /\ stage' = "failed"
    /\ error' = kind
    /\ UNCHANGED <<settings, tq, dense, lexical, found, fused, text, score, context, rows>>

Init ==
    /\ stage = "transformed" /\ error = "none"
    /\ settings \in SettingsRange
    /\ tq \in {Transform(q, settings) : q \in Queries}
    /\ dense = <<>> /\ lexical = <<>> /\ found = {}
    /\ fused = <<>> /\ context = <<>>
    /\ text = [c \in Chunks |-> NoText]
    /\ score = [c \in Chunks |-> 0]
    /\ rows \in {Chunks}

Gather(denseList, lexicalList) ==
    /\ dense' = dense \o denseList
    /\ lexical' = lexical \o lexicalList
    /\ UNCHANGED <<error, settings, tq, fused, text, score, context, rows>>

\* The embedding of the query, or of the hypothetical answer, is awaited
\* before either search and outside the gather.
EmbedFails == stage = "transformed" /\ settings.dense /\ Fail("embedding")

SearchBoth ==
    /\ settings.dense /\ settings.lexical
    /\ Go("transformed", "searched")
    /\ \E d \in Outcomes("dense", TopOfDense), b \in Outcomes("bm25", TopOfLexical) :
           Gather(Kept(d), Kept(b)) /\ found' = found \cup Returned({d, b})

\* With one of the two switched off the other is awaited by itself.
SearchOne ==
    /\ ~(settings.dense /\ settings.lexical)
    /\ \E d \in IF settings.dense THEN Outcomes("dense", TopOfDense) ELSE {<<>>},
          b \in IF settings.lexical THEN Outcomes("bm25", TopOfLexical) ELSE {<<>>} :
         \/ /\ Failed \notin {d, b}
            /\ Go("transformed", "searched")
            /\ Gather(d, b) /\ found' = found \cup Returned({d, b})
         \/ /\ Failed \in {d, b}
            /\ stage = "transformed"
            /\ Fail("search")

\* Variants are searched by vectors only, even if dense retrieval is off.
SearchExpanded ==
    /\ Go("searched", "expanded")
    /\ LET limit == IF TopOfDense \div 2 > 1 THEN TopOfDense \div 2 ELSE 1
       IN  \E r \in [DOMAIN tq.expanded -> Outcomes("dense", limit)] :
             Gather(Gathered(r), <<>>) /\ found' = found \cup Returned(Range(r))

\* One dense and one BM25 search per paraphrase, told apart afterwards by the
\* parity of their position.
SearchMulti ==
    /\ Go("expanded", "gathered")
    /\ LET perQuery == IF settings.lexical THEN 2 ELSE 1
           tasks == 1..(perQuery * Len(tq.multi))
           IsDense(i) == perQuery = 1 \/ i % 2 = 1
       IN  \E r \in [tasks -> Outcomes("dense", TopOfDense) \cup Outcomes("bm25", TopOfLexical)] :
             /\ \A i \in tasks : r[i] \in IF IsDense(i) THEN Outcomes("dense", TopOfDense)
                                                       ELSE Outcomes("bm25", TopOfLexical)
             /\ found' = found \cup Returned(Range(r))
             /\ LET even == {i \in tasks : i % 2 = 1}
                    Part(S) == Gathered([n \in 1..Cardinality(S) |->
                                   r[CHOOSE i \in S : Cardinality({j \in S : j <= i}) = n]])
                IN  Gather(Part(even), Part(tasks \ even))

-----------------------------------------------------------------------------
(* From candidates to context. *)

FuseCandidates ==
    /\ Go("gathered", "fused")
    /\ fused' = Distinct(Fuse(2 * settings.rerankTop))
    /\ UNCHANGED <<error, settings, tq, dense, lexical, found, text, score, context, rows>>

\* texts.get(chunk_id, chunk.text)
Loaded(ids) == [c \in Chunks |-> IF c \in ids \cap rows THEN TextOf[c] ELSE text[c]]

Hydrate ==
    /\ Go("fused", "hydrated")
    /\ text' = Loaded(Ids(fused))
    /\ UNCHANGED <<error, settings, tq, dense, lexical, found, fused, score, context, rows>>

\* The model of a reranker may give any scores; nothing is scored if there is
\* no candidate.
Rerank ==
    /\ Go("hydrated", "reranked")
    /\ \E s \in [Ids(fused) -> Scores] :
         /\ score' = [c \in Chunks |-> IF c \in Ids(fused) THEN s[c] ELSE score[c]]
         /\ fused' = First(SortedBy(fused, [i \in DOMAIN fused |-> s[fused[i]]]), settings.rerankTop)
    /\ UNCHANGED <<error, settings, tq, dense, lexical, found, text, context, rows>>

CompressContext ==
    /\ Go("reranked", "retrieved")
    /\ context' = Compress(fused)
    /\ UNCHANGED <<error, settings, tq, dense, lexical, found, fused, text, score, rows>>

\* The text loader or the reranker raises.
StepFails ==
    \/ stage = "fused" /\ Fail("rows")
    \/ stage = "hydrated" /\ fused # <<>> /\ Fail("model")

\* A document is deleted, or indexed again under new chunk ids.
RowDeleted ==
    /\ \E c \in rows : rows' = rows \ {c}
    /\ UNCHANGED retrievalVars

RetrievalNext ==
    \/ EmbedFails \/ SearchBoth \/ SearchOne \/ SearchExpanded \/ SearchMulti
    \/ FuseCandidates \/ Hydrate \/ Rerank \/ CompressContext \/ StepFails

-----------------------------------------------------------------------------

Fusing == stage \in {"fused", "hydrated"}

\* A search that fails among others costs its own hits and nothing else: what
\* any other search returned is a candidate, in the list of the retriever that
\* returned it, and once in the fused list, unless that is full.  Of the searches
\* only one that runs alone fails the request; the embedding, awaited before any
\* of them, fails it too, whichever retrievers are on.  The lists of the two
\* retrievers are told apart only with both on: without BM25 every second
\* paraphrase's hits are taken for those of BM25.
SearchFailureIsPartial ==
    /\ Fusing => \/ Ids(fused) = found
                 \/ Ids(fused) \subseteq found /\ Len(fused) = 2 * settings.rerankTop
    /\ Fusing => IsInjective(fused)
    /\ settings.lexical => /\ \A i \in DOMAIN dense : dense[i].by = "dense"
                           /\ \A i \in DOMAIN lexical : lexical[i].by = "bm25"
    /\ error = "search" => ~(settings.dense /\ settings.lexical)

\* What goes to the model and is cited: no chunk twice and no two that begin
\* alike, best first, nothing below the least score, and never more than
\* final_top_k; and while there is room, nothing is left out but for a chunk
\* that begins alike and scored as much.
ContextIsSound ==
    stage = "retrieved" =>
        /\ IsInjective(context)
        /\ Ids(context) \subseteq Ids(fused)
        /\ Len(context) <= FinalTop
        /\ \A i, j \in DOMAIN context :
              i < j => /\ score[context[i]] >= score[context[j]]
                       /\ ~Alike(context[i], context[j])
        /\ \A c \in Ids(fused) \ Ids(context) :
              \/ score[c] < MinScore
              \/ Len(context) = FinalTop
              \/ \E i \in DOMAIN context : Alike(context[i], c) /\ score[context[i]] >= score[c]
=============================================================================
