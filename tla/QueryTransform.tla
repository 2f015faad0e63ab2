--------------------------- MODULE QueryTransform ---------------------------
(***************************************************************************)
(* QueryTransformer.transform: the query rewritten, its synonym variants,  *)
(* its paraphrases and its hypothetical answer.  A query is a sequence of  *)
(* words; case and punctuation are left out, and so are words that contain *)
(* another word with synonyms (str.replace would replace inside them).     *)
(***************************************************************************)
EXTENDS Integers, SequencesExt

CONSTANTS
    Openings,           \* what QueryRewriter strips, each as one word
    Synonyms,           \* QueryExpander._SYNONYMS: word -> words
    MultiSynonyms,      \* MultiQueryExpander._SYNONYMS
    Templates,          \* what _TEMPLATES put before the query
    MaxVariants         \* settings.query_expansion_max_variants

ASSUME TransformAssumption ==
    /\ MaxVariants \in Nat
    /\ \A w \in DOMAIN Synonyms : Synonyms[w] \in Seq(STRING)
    /\ \A w \in DOMAIN MultiSynonyms : MultiSynonyms[w] \in Seq(STRING)
    /\ Templates \in Seq(Seq(STRING))

\* The elements in their order, each if it fits those kept before it.
Filtered(list, Fits(_, _)) ==
    LET f[n \in 0..Len(list)] ==
            IF n = 0 THEN <<>>
            ELSE LET kept == f[n - 1]
                 IN  IF Fits(kept, list[n]) THEN Append(kept, list[n]) ELSE kept
    IN  f[Len(list)]

Rewrite(query) ==
    IF query # <<>> /\ Head(query) \in Openings THEN Tail(query) ELSE query

\* str.replace(word, by, 1)
Replaced(query, word, by) ==
    LET first == SelectInSeq(query, LAMBDA w : w = word)
    IN  [query EXCEPT ![first] = by]

\* For each word in turn, the query with each of its synonyms (at most the
\* first few of them).
Substitutes(query, synonyms, atMost) ==
    FlattenSeq([i \in DOMAIN query |->
        IF query[i] \in DOMAIN synonyms
        THEN LET all == synonyms[query[i]] IN
             [j \in 1..(IF Len(all) < atMost THEN Len(all) ELSE atMost) |->
                 Replaced(query, query[i], all[j])]
        ELSE <<>>])

\* The candidates in order that are new and not the query itself, until there
\* are enough of them.
NewVariants(query, candidates, enough) ==
    Filtered(candidates, LAMBDA kept, v : /\ Len(kept) < enough
                                          /\ v # query /\ v # <<>> /\ ~Contains(kept, v))

Expand(query) == NewVariants(query, Substitutes(query, Synonyms, MaxVariants), MaxVariants)

Paraphrases(query) == [i \in DOMAIN Templates |-> Templates[i] \o query]

MultiExpand(query) ==
    LET enough == IF MaxVariants < 1 THEN 1 ELSE MaxVariants
    IN  NewVariants(query,
            Paraphrases(query) \o Substitutes(query, MultiSynonyms, 100), enough)

\* The first word and the rest, or the rewritten query again for a query of
\* one word.
Hypothetical(query, rewritten) ==
    LET q == Rewrite(query)
    IN  IF q = <<>> THEN rewritten
        ELSE <<Head(q)>> \o (IF Len(q) > 1 THEN Tail(q) ELSE rewritten)

Transform(query, flags) ==
    LET rewritten == IF flags.rewrite THEN Rewrite(query) ELSE query
    IN  [rewritten |-> rewritten,
         expanded  |-> IF flags.expansion THEN Expand(rewritten) ELSE <<>>,
         multi     |-> IF flags.multi THEN MultiExpand(rewritten) ELSE <<>>,
         hyde      |-> IF flags.hyde THEN Hypothetical(query, rewritten) ELSE <<>>]
=============================================================================
