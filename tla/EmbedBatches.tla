---------------------------- MODULE EmbedBatches ----------------------------
(***************************************************************************)
(* From pages to vectors: Chunker, then embed_chunks over the texts of the *)
(* children followed by those of the parents, in batches that are tried    *)
(* again when the provider fails.  A text, and its vector, is the number   *)
(* of its segment.                                                         *)
(***************************************************************************)
EXTENDS Chunker

CONSTANTS
    BatchSize,  \* settings.embedding_batch_size
    Retries     \* retries

ASSUME EmbedAssumption == {BatchSize, Retries} \subseteq Nat \ {0}

VARIABLES
    embedding,  \* "wait" until chunked, "run", then "done" or "failed"
    start,      \* first text of the current batch, counted from 0
    attempt,    \* failed attempts at the current batch
    vectors     \* results

embedVars == <<embedding, start, attempt, vectors>>
vars == <<chunkerVars, embedVars>>

Segments == Len(children) + Len(parents)

Batch(from) == LET stop == IF from + BatchSize < Segments THEN from + BatchSize ELSE Segments
               IN  [i \in 1..(stop - from) |-> from + i]

EmbedInit == Init /\ embedding = "wait" /\ start = 0 /\ attempt = 0 /\ vectors = <<>>

\* Without segments the provider is not called.
BeginEmbedding ==
    /\ phase = "chunked" /\ embedding = "wait"
    /\ embedding' = IF Segments = 0 THEN "done" ELSE "run"
    /\ UNCHANGED <<chunkerVars, start, attempt, vectors>>

Embed ==
    /\ embedding = "run" /\ start < Segments
    /\ vectors' = vectors \o Batch(start)
    /\ start' = start + BatchSize
    /\ attempt' = 0
    /\ UNCHANGED <<chunkerVars, embedding>>

\* Variant: a batch that keeps failing is left out.
EmbedSkips ==
    /\ embedding = "run" /\ start < Segments
    /\ attempt' = IF attempt + 1 = Retries THEN 0 ELSE attempt + 1
    /\ start' = IF attempt + 1 = Retries THEN start + BatchSize ELSE start
    /\ UNCHANGED <<chunkerVars, embedding, vectors>>

\* The provider raises: the same batch is tried again after a pause, and
\* after the last attempt the whole call fails.
EmbedRaises ==
    /\ embedding = "run" /\ start < Segments
    /\ attempt' = attempt + 1
    /\ embedding' = IF attempt + 1 = Retries THEN "failed" ELSE "run"
    /\ UNCHANGED <<chunkerVars, start, vectors>>

EmbeddingEnds ==
    /\ embedding = "run" /\ start >= Segments
    /\ embedding' = "done"
    /\ UNCHANGED <<chunkerVars, start, attempt, vectors>>

Next ==
    \/ ChunkerNext /\ UNCHANGED embedVars
    \/ BeginEmbedding \/ Embed \/ EmbedRaises \/ EmbeddingEnds

Spec == EmbedInit /\ [][Next]_vars

-----------------------------------------------------------------------------

\* Vectors are matched to chunk ids by position, so a batch that failed and
\* was tried again must leave neither a gap nor a repetition: the results are
\* the first texts in order, and all of them when the call returns.
VectorsAligned ==
    /\ vectors = [i \in 1..Len(vectors) |-> i]
    /\ embedding = "done" => Len(vectors) = Segments
=============================================================================
