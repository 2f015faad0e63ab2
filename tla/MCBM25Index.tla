----------------------------- MODULE MCBM25Index -----------------------------
(***************************************************************************)
(* Instances of BM25Index for TLC.  Document a has one run with one chunk, *)
(* document b two runs (a failed one and its repetition) with two chunks   *)
(* and one, document o, of another tenant, one run with one chunk.         *)
(***************************************************************************)
EXTENDS BM25Index

CONSTANTS t1, t2, a, b, o, ra, rb1, rb2, ro, ca, cb1, cb2, cb3, co, x, y, r1, none

MCTenants == {t1, t2}
MCDocs    == {a, b, o}
MCBatches == {ra, rb1, rb2, ro}
MCChunks  == {ca, cb1, cb2, cb3, co}
MCTerms   == {x, y}
MCReaders == {r1}

MCTenantOf == [d \in Docs |-> IF d = o THEN t2 ELSE t1]
MCDocOf    == [r \in Batches |-> CASE r = ra -> a [] r = ro -> o [] OTHER -> b]
MCBatchOf  == [c \in Chunks |-> CASE c = ca -> ra [] c \in {cb1, cb2} -> rb1
                                  [] c = cb3 -> rb2 [] OTHER -> ro]
MCTermsOf  == [c \in Chunks |-> CASE c = ca -> {x} [] c \in {cb1, cb3} -> {x, y}
                                  [] c = cb2 -> {y} [] OTHER -> {x}]
=============================================================================
