-------------------------- MODULE DocumentLifecycle --------------------------
(***************************************************************************)
(* What the documents API promises a client, without servers, tasks,       *)
(* queues or crashes: the life of each document, and the set of chunk rows *)
(* a reader of the database sees for it.  Chunk rows appear at the moment  *)
(* the document is published, never before, and a failed or interrupted    *)
(* ingestion leaves them as they were.  Ingestion implements this module.  *)
(***************************************************************************)
CONSTANT Docs

VARIABLES phase,      \* where the document is in its life
          content     \* the chunk rows published for it

vars == <<phase, content>>

Phases == {"absent", "uploaded", "processing", "indexed", "failed", "deleted"}

LiveP(d) == phase[d] \notin {"absent", "deleted"}

Init == /\ phase = [d \in Docs |-> "absent"]
        /\ content = [d \in Docs |-> {}]

\* POST /documents/upload answered 201: the document exists.
Accept(d) == /\ phase[d] = "absent"
             /\ phase' = [phase EXCEPT ![d] = "uploaded"]
             /\ UNCHANGED content

\* An ingestion run takes the document; a failed document may be run again.
Begin(d) == /\ phase[d] \in {"uploaded", "failed"}
            /\ phase' = [phase EXCEPT ![d] = "processing"]
            /\ UNCHANGED content

\* The run publishes: status and chunk rows change in one step.
Publish(d) == /\ phase[d] = "processing"
              /\ phase' = [phase EXCEPT ![d] = "indexed"]
              /\ content' = [content EXCEPT ![d] = content'[d]]

\* The run gives up: nothing it did is visible among the chunk rows.
Fail(d) == /\ phase[d] = "processing"
           /\ phase' = [phase EXCEPT ![d] = "failed"]
           /\ UNCHANGED content

\* DELETE /documents/{id} answered 200.  There is no way back.
Remove(d) == /\ LiveP(d)
             /\ phase' = [phase EXCEPT ![d] = "deleted"]
             /\ content' = [content EXCEPT ![d] = {}]

Next == \E d \in Docs : \/ Accept(d) \/ Begin(d) \/ Publish(d)
                        \/ Fail(d) \/ Remove(d)

Spec == Init /\ [][Next]_vars
=============================================================================
