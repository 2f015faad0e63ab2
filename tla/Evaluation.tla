----------------------------- MODULE Evaluation -----------------------------
(***************************************************************************)
(* evaluation: the metrics of a ranked list against the chunks that were   *)
(* expected, and the ablation, which scores four ways to make such a list  *)
(* of the same two searches: those of a request that has searched and done *)
(* nothing else; a search left out or failed is one without hits.  Shares  *)
(* are in units of 1/Unit.  The run itself is a loop over examples that a  *)
(* search that raises ends without a report.                               *)
(***************************************************************************)
EXTENDS Retrieval

CONSTANTS
    Unit,       \* a common multiple of the lengths that are divided by
    Discount,   \* Discount[rank]: Unit / log2(rank + 1), rounded
    KValues     \* the cut-offs of a report

\* A store holds a chunk under its id, and no search returns it twice.
ASSUME EvaluationAssumption ==
    /\ Unit \in Nat \ {0}
    /\ IsFiniteSet(Chunks)
    /\ IsFiniteSet(KValues) /\ KValues # {} /\ KValues \subseteq 1..Len(Discount)
    /\ Discount \in Seq(Nat \ {0})
    /\ \A r, s \in 1..Len(Discount) : r < s => Discount[r] > Discount[s]
    /\ \A h \in Hits : IsInjective(h)

-----------------------------------------------------------------------------
(* Metrics. *)

Shorter(m, n) == IF m < n THEN m ELSE n

HitCount(ids, expected, k) == Cardinality(Ids(First(ids, k)) \cap expected)

RecallAtK(ids, expected, k) ==
    IF expected = {} THEN 0 ELSE (Unit * HitCount(ids, expected, k)) \div Cardinality(expected)

\* Of a list shorter than k, the share of what there is.
PrecisionAtK(ids, expected, k) ==
    IF First(ids, k) = <<>> THEN 0 ELSE (Unit * HitCount(ids, expected, k)) \div Shorter(k, Len(ids))

\* 1-based ranks of relevant items.
RelevantRanks(ids, expected) == {i \in DOMAIN ids : ids[i] \in expected}

MeanReciprocalRank(ids, expected) ==
    IF RelevantRanks(ids, expected) = {} THEN 0 ELSE Unit \div Min(RelevantRanks(ids, expected))

\* What the ranks add up to, in the order of the list.
Gain(ranks) ==
    LET upTo[n \in 0..Len(Discount)] ==
            IF n = 0 THEN 0 ELSE upTo[n - 1] + (IF n \in ranks THEN Discount[n] ELSE 0)
    IN  upTo[Len(Discount)]

\* The gain as a share of that of the ideal list; an id that is retrieved twice
\* counts twice.
NdcgAtK(ids, expected, k) ==
    LET ideal == Gain(1..Shorter(Cardinality(expected), k))
    IN  IF ideal = 0 THEN 0 ELSE (Unit * Gain(RelevantRanks(First(ids, k), expected))) \div ideal

\* EvaluationResult of one example, for a retriever that was asked for the
\* largest k.
Result(ids, expected) ==
    [recall    |-> [k \in KValues |-> RecallAtK(ids, expected, k)],
     precision |-> [k \in KValues |-> PrecisionAtK(ids, expected, k)],
     ndcg      |-> [k \in KValues |-> NdcgAtK(ids, expected, k)],
     rr        |-> MeanReciprocalRank(ids, expected)]

-----------------------------------------------------------------------------
(* Strategies. *)

\* Variant: the two lists as they are.
ConcatAsIs(denseIds, lexicalIds, k) == First(First(denseIds, k) \o First(lexicalIds, k), k)

\* Naive top-k from dense then BM25.
Concat(denseIds, lexicalIds, k) == First(Distinct(First(denseIds, k) \o First(lexicalIds, k)), k)

Rrf(k) == Fuse(k)

\* What run_ablation hands to evaluate_dataset for one question.
Retrieved(config, k) ==
    CASE config = "dense_only"        -> First(IdsOf(dense), k)
      [] config = "bm25_only"         -> First(IdsOf(lexical), k)
      [] config = "dense+bm25_concat" -> Concat(IdsOf(dense), IdsOf(lexical), k)
      [] config = "dense+bm25+rrf"    -> Rrf(k)

Configs == {"dense_only", "bm25_only", "dense+bm25_concat", "dense+bm25+rrf"}

Report(expected) == [config \in Configs |-> Result(Retrieved(config, Max(KValues)), expected)]

-----------------------------------------------------------------------------

\* The report is a comparison: whatever was expected, no metric of any strategy
\* is above 1, recall grows with k, and nDCG is 1 only for a list that begins
\* with all that it has room for.  Concatenation never recalls less than the
\* dense list it begins with.  Over an index without entries, which is what the
\* ablation's main has built, the three strategies with dense results are the
\* same: there the report tells nothing about fusion.
AblationIsComparable ==
    stage = "searched" =>
        \A expected \in SUBSET Chunks :
           LET report == Report(expected)
               Of(config) == report[config]
           IN  /\ \A config \in Configs, k \in KValues :
                     /\ Of(config).recall[k] <= Unit /\ Of(config).precision[k] <= Unit
                     /\ Of(config).ndcg[k] <= Unit /\ Of(config).rr <= Unit
                     /\ \A j \in KValues : j <= k => Of(config).recall[j] <= Of(config).recall[k]
                     /\ Of(config).ndcg[k] = Unit =>
                           \A i \in 1..Shorter(k, Cardinality(expected)) :
                              Retrieved(config, Max(KValues))[i] \in expected
                     /\ Of("dense+bm25_concat").recall[k] >= Of("dense_only").recall[k]
               /\ lexical = <<>> =>
                     /\ Of("dense+bm25_concat") = Of("dense_only")
                     /\ Of("dense+bm25+rrf") = Of("dense_only")
=============================================================================
