------------------------------ MODULE Ingestion ------------------------------
(***************************************************************************)
(* Upload, ingestion, job cancellation and deletion of documents: the      *)
(* request handlers of api/routes/docs.py and api/routes/jobs.py, the job  *)
(* runners of jobs/, and IngestionPipeline.process, over the stores they   *)
(* share.  A handler or a run is a sequence of steps; a step ends where    *)
(* the code awaits something another process can see: a commit, a write of *)
(* the vector store, a task switch.                                        *)
(*                                                                         *)
(* One upload request makes at most one document and one job, so all three *)
(* are named by the same element of Docs.                                  *)
(***************************************************************************)
EXTENDS Naturals, FiniteSets

CONSTANTS
    Docs,        \* upload requests, and the documents and jobs they create
    ContentOf,   \* ContentOf[d]: SHA-256 of the bytes request d uploads
    HasText,     \* documents for which the chunker returns a segment
    Servers,     \* API processes (uvicorn --workers)
    UploadAt,    \* UploadAt[d]: the process that serves the upload of d
    ClientAt,    \* ClientAt[d]: the process that serves the DELETEs for d
    Inline,      \* settings.inline_worker
    Limit,       \* settings.inline_ingestion_concurrency
    Workers,     \* number of RQ worker processes
    Faults,      \* the kinds of fault a behaviour may contain
    MaxFaults    \* bound: how many faults a behaviour may contain

FaultKinds == {"step",      \* extraction, embedding or the vector store raises
               "db",        \* a database statement raises: the session is lost
               "flush",     \* the database rejects the chunk rows of a run
               "timeout",   \* RQ's job_timeout raises inside the run
               "redis",     \* q.enqueue raises
               "crash"}     \* an API process or a worker dies

ASSUME ConstantsAssumption ==
    /\ HasText \subseteq Docs
    /\ UploadAt \in [Docs -> Servers]
    /\ ClientAt \in [Docs -> Servers]
    /\ Inline \in BOOLEAN
    /\ Limit \in Nat \ {0}
    /\ Workers \in Nat \ {0}
    /\ Faults \subseteq FaultKinds
    /\ MaxFaults \in Nat

VARIABLES
    status,      \* documents.status; "absent" before the row exists
    indexing,    \* documents.indexing_status
    deleted,     \* documents whose row has deleted_at set
    job,         \* jobs.status; "none" before the row exists
    rows,        \* committed chunk rows: the attempts they come from
    vec,         \* vector store: the attempts whose vectors it holds
    bm25,        \* bm25[s]: documents in the BM25 index of API process s
    files,       \* documents whose PDF is in file storage
    upload,      \* where the upload handler of d is
    del,         \* where the DELETE /documents/{d} handler is
    canceling,   \* jobs whose cancel handler has read a cancelable status
    run,         \* where the ingestion run of d is
    attempt,     \* how many times process() has marked d PROCESSING
    raced,       \* history: d was in a run while a delete of it was going on
    faults       \* faults so far

docVars   == <<status, indexing, deleted>>
indexVars == <<vec, bm25>>
vars == <<status, indexing, deleted, job, rows, vec, bm25, files, upload, del,
          canceling, run, attempt, raced, faults>>

DocStatus   == {"absent", "uploaded", "processing", "indexed", "failed"}
JobStatus   == {"none", "pending", "processing", "completed", "failed", "canceled"}
TerminalJob == {"completed", "failed", "canceled"}

\* The run is inside the try block of process(), before or after the commit
\* that publishes the document.
Unpublished == {"extract", "embedded", "dropped", "cleared", "inserted", "flushed"}
InTry == Unpublished \cup {"committed"}
\* process() has decided to ingest and has still something to write.
Active == Unpublished \cup {"loaded"}
\* _execute_ingestion_job, or the RQ job, is executing.
Running == InTry \cup {"loaded", "started", "returned", "raised"}
RunPC == Running \cup {"none", "queued", "over", "rqfailed"}

UploadPC == {"idle", "saved", "checked", "inserted", "jobbed",
             "done", "refused", "error", "lost"}
InUpload == {"saved", "checked", "inserted", "jobbed"}
DelPC    == {"idle", "read", "novec", "cleaned", "done", "aborted"}
InDelete == {"read", "novec", "cleaned"}

TypeOK ==
    /\ status \in [Docs -> DocStatus]
    /\ indexing \in [Docs -> DocStatus]
    /\ deleted \subseteq Docs
    /\ job \in [Docs -> JobStatus]
    /\ rows \in [Docs -> SUBSET Nat]
    /\ vec \in [Docs -> SUBSET Nat]
    /\ bm25 \in [Servers -> SUBSET Docs]
    /\ files \subseteq Docs
    /\ upload \in [Docs -> UploadPC]
    /\ del \in [Docs -> DelPC]
    /\ canceling \subseteq Docs
    /\ run \in [Docs -> RunPC]
    /\ attempt \in [Docs -> Nat]
    /\ raced \subseteq Docs
    /\ faults \in Nat

Init ==
    /\ status = [d \in Docs |-> "absent"]
    /\ indexing = [d \in Docs |-> "absent"]
    /\ deleted = {}
    /\ job = [d \in Docs |-> "none"]
    /\ rows = [d \in Docs |-> {}]
    /\ vec = [d \in Docs |-> {}]
    /\ bm25 = [s \in Servers |-> {}]
    /\ files = {}
    /\ upload = [d \in Docs |-> "idle"]
    /\ del = [d \in Docs |-> "idle"]
    /\ canceling = {}
    /\ run = [d \in Docs |-> "none"]
    /\ attempt = [d \in Docs |-> 0]
    /\ raced = {}
    /\ faults = 0

Live(d) == status[d] # "absent" /\ d \notin deleted

\* One more fault of this kind.
Fault(kind) == /\ kind \in Faults
               /\ faults < MaxFaults
               /\ faults' = faults + 1

UploadStep(d, from, to) == upload[d] = from /\ upload' = [upload EXCEPT ![d] = to]
RunStep(d, from, to)    == run[d] = from /\ run' = [run EXCEPT ![d] = to]
DelStep(d, from, to)    == del[d] = from /\ del' = [del EXCEPT ![d] = to]

-----------------------------------------------------------------------------
(* The stores.  Each definition that a comment marks "Variant" is a plausible
   error in the definition after it, and no step uses it. *)

\* Variant: update by primary key alone.
RowById(d) == status[d] # "absent"

\* DocumentRepository.update touches the row only while deleted_at is null.
RowMatches(d) == Live(d)

SetStatus(d, s)   == status' = IF RowMatches(d) THEN [status EXCEPT ![d] = s] ELSE status
SetIndexing(d, s) == indexing' = IF RowMatches(d) THEN [indexing EXCEPT ![d] = s] ELSE indexing

\* Variant: the vectors of d stay.
VectorsKept(d) == vec

\* VectorStore.adelete_document and abatch_insert.
VectorsWithout(d)  == [vec EXCEPT ![d] = {}]
VectorsWith(d, a)  == [vec EXCEPT ![d] = @ \cup {a}]

\* BM25Retriever.delete_document and add_chunks in process s.  Removing d may
\* reset the whole index, depending on chunk counts (Resets in BM25Index).
EntriesWithout(s, d) ==
    {[bm25 EXCEPT ![s] = @ \ {d}]}
        \cup (IF d \in bm25[s] THEN {[bm25 EXCEPT ![s] = {}]} ELSE {})
EntriesWith(s, d)    == [bm25 EXCEPT ![s] = @ \cup {d}]

\* What the chunk table holds for d once the run's transaction commits.
PendingRows(d) == IF d \in HasText THEN {attempt[d]} ELSE rows[d]

\* Variant: the chunk repository commits.
RowsCommitted(d) == [rows EXCEPT ![d] = PendingRows(d)]

\* ChunkRepository.delete_document and add_many flush; nobody else sees it.
RowsFlushed(d) == rows

-----------------------------------------------------------------------------
(* POST /documents/upload.  The rejections that precede storage.save (type,
   size, magic bytes) leave no trace and are not steps. *)

\* storage.save: the PDF is stored before anything is known about it.
UploadSave(d) ==
    /\ UploadStep(d, "idle", "saved")
    /\ files' = files \cup {d}
    /\ UNCHANGED <<docVars, indexVars, rows, job, del, canceling, run, attempt,
                   raced, faults>>

\* Live documents with the same hash as d.
Twins(d) == {e \in Docs : Live(e) /\ ContentOf[e] = ContentOf[d]}

\* get_by_sha: one twin is a 409, several make scalar_one_or_none raise, a 500.
\* Either way the file just saved stays.
UploadDedup(d) ==
    /\ UploadStep(d, "saved", IF Twins(d) = {} THEN "checked" ELSE "refused")
    /\ UNCHANGED <<docVars, indexVars, rows, job, files, del, canceling, run,
                   attempt, raced, faults>>

\* The document row is added and committed.
UploadInsert(d) ==
    /\ UploadStep(d, "checked", "inserted")
    /\ status' = [status EXCEPT ![d] = "uploaded"]
    /\ indexing' = [indexing EXCEPT ![d] = "uploaded"]
    /\ UNCHANGED <<deleted, indexVars, rows, job, files, del, canceling, run,
                   attempt, raced, faults>>

\* enqueue_ingestion: the job row is added and committed.
UploadJob(d) ==
    /\ UploadStep(d, "inserted", "jobbed")
    /\ job' = [job EXCEPT ![d] = "pending"]
    /\ UNCHANGED <<docVars, indexVars, rows, files, del, canceling, run,
                   attempt, raced, faults>>

\* asyncio.create_task, or q.enqueue.
UploadEnqueue(d) ==
    /\ UploadStep(d, "jobbed", "done")
    /\ run' = [run EXCEPT ![d] = "queued"]
    /\ UNCHANGED <<docVars, indexVars, rows, job, files, del, canceling,
                   attempt, raced, faults>>

\* A statement of the handler, or the push to Redis, raises: 500, and what was
\* committed before stays.
UploadFails(d) ==
    /\ \/ upload[d] \in {"saved", "checked", "inserted"} /\ Fault("db")
       \/ upload[d] = "jobbed" /\ ~Inline /\ Fault("redis")
    /\ upload' = [upload EXCEPT ![d] = "error"]
    /\ UNCHANGED <<docVars, indexVars, rows, job, files, del, canceling, run,
                   attempt, raced>>

-----------------------------------------------------------------------------
(* The runners.  upload_document builds a runner of its own for each request,
   so the semaphore of an inline run is shared with nobody. *)

RunnerOf(d) == d

\* Variant: a finished run keeps its slot.
SlotLeaked(d) ==
    Cardinality({e \in Docs : run[e] \in Running \cup {"over"}}) < Workers

SlotFree(d) ==
    IF Inline
    THEN Cardinality({e \in Docs : RunnerOf(e) = RunnerOf(d) /\ run[e] \in Running}) < Limit
    ELSE Cardinality({e \in Docs : run[e] \in Running}) < Workers

\* The job row goes to PROCESSING, whatever it said.
StartJob(d) ==
    /\ SlotFree(d)
    /\ RunStep(d, "queued", "started")
    /\ job' = [job EXCEPT ![d] = "processing"]
    /\ UNCHANGED <<docVars, indexVars, rows, files, upload, del, canceling,
                   attempt, raced, faults>>

\* Variant: the status of the ProcessResult is passed through.
ResultStatus(d) == status[d]

JobResult(d) == "completed"

\* process() returned, with or without success: COMPLETED.
FinishCompleted(d) ==
    /\ RunStep(d, "returned", "over")
    /\ job' = [job EXCEPT ![d] = JobResult(d)]
    /\ UNCHANGED <<docVars, indexVars, rows, files, upload, del, canceling,
                   attempt, raced, faults>>

\* process() raised: FAILED.
FinishFailed(d) ==
    /\ RunStep(d, "raised", "over")
    /\ job' = [job EXCEPT ![d] = "failed"]
    /\ UNCHANGED <<docVars, indexVars, rows, files, upload, del, canceling,
                   attempt, raced, faults>>

-----------------------------------------------------------------------------
(* IngestionPipeline.process *)

\* Variant: an indexed document is ingested again.
AnyButRunning(d) == status[d] # "processing"

\* The early returns of process() on the status it read.
Reprocessable(d) == status[d] \notin {"indexed", "processing"}

\* The document is read: raise, return early, or go on.
LoadDocument(d) ==
    /\ \/ /\ ~Live(d)
          /\ RunStep(d, "started", "raised")
          /\ UNCHANGED raced
       \/ /\ Live(d) /\ ~Reprocessable(d)
          /\ RunStep(d, "started", "returned")
          /\ UNCHANGED raced
       \/ /\ Live(d) /\ Reprocessable(d)
          /\ RunStep(d, "started", "loaded")
          /\ raced' = IF del[d] \in InDelete THEN raced \cup {d} ELSE raced
    /\ UNCHANGED <<docVars, indexVars, rows, job, files, upload, del, canceling,
                   attempt, faults>>

\* Both statuses go to PROCESSING, committed.
MarkProcessing(d) ==
    /\ RunStep(d, "loaded", "extract")
    /\ attempt' = [attempt EXCEPT ![d] = @ + 1]
    /\ SetStatus(d, "processing")
    /\ SetIndexing(d, "processing")
    /\ UNCHANGED <<deleted, indexVars, rows, job, files, upload, del, canceling,
                   raced, faults>>

\* Variant: the emptiness test is inverted.
NoSegments(d) == IF d \in HasText THEN "flushed" ELSE "embedded"

\* Without segments _embed_and_index returns at once.
AfterExtract(d) == IF d \in HasText THEN "embedded" ELSE "flushed"

\* Read the stored PDF, extract, chunk, embed.
Extract(d) ==
    /\ d \in files
    /\ RunStep(d, "extract", AfterExtract(d))
    /\ UNCHANGED <<docVars, indexVars, rows, job, files, upload, del, canceling,
                   attempt, raced, faults>>

\* vector_store.adelete_document
DropVectors(d) ==
    /\ RunStep(d, "embedded", "dropped")
    /\ vec' = VectorsWithout(d)
    /\ UNCHANGED <<docVars, bm25, rows, job, files, upload, del, canceling,
                   attempt, raced, faults>>

\* bm25.delete_document.  An RQ job has a BM25 index of its own, which goes
\* with the job: no API process sees it.
DropEntries(d) ==
    /\ RunStep(d, "dropped", "cleared")
    /\ bm25' \in IF Inline THEN EntriesWithout(UploadAt[d], d) ELSE {bm25}
    /\ UNCHANGED <<docVars, vec, rows, job, files, upload, del, canceling,
                   attempt, raced, faults>>

\* vector_store.abatch_insert
InsertVectors(d) ==
    /\ RunStep(d, "cleared", "inserted")
    /\ vec' = VectorsWith(d, attempt[d])
    /\ UNCHANGED <<docVars, bm25, rows, job, files, upload, del, canceling,
                   attempt, raced, faults>>

AddEntries(d) == bm25' = IF Inline THEN EntriesWith(UploadAt[d], d) ELSE bm25

\* bm25.add_chunks; then the old chunk rows are deleted and the new ones
\* inserted, in a transaction nobody else sees yet.
FlushRows(d) ==
    /\ RunStep(d, "inserted", "flushed")
    /\ AddEntries(d)
    /\ rows' = RowsFlushed(d)
    /\ UNCHANGED <<docVars, vec, job, files, upload, del, canceling, attempt,
                   raced, faults>>

\* _finalize: the commit that publishes rows and status.  It does not notice
\* that the document was deleted meanwhile.
Finalize(d) ==
    /\ RunStep(d, "flushed", "committed")
    /\ rows' = [rows EXCEPT ![d] = PendingRows(d)]
    /\ SetStatus(d, "indexed")
    /\ SetIndexing(d, "indexed")
    /\ UNCHANGED <<deleted, indexVars, job, files, upload, del, canceling,
                   attempt, raced, faults>>

\* The counters and the return value, still inside the try block.
Return(d) ==
    /\ RunStep(d, "committed", "returned")
    /\ UNCHANGED <<docVars, indexVars, rows, job, files, upload, del, canceling,
                   attempt, raced, faults>>

\* The except clause of process(): status FAILED, indexing_status as it was;
\* the failure is returned, not raised.
RecordFailure(d) ==
    /\ run' = [run EXCEPT ![d] = "returned"]
    /\ SetStatus(d, "failed")
    /\ UNCHANGED <<indexing, deleted, indexVars, job, files, upload, del,
                   canceling, attempt, raced>>

\* The stored PDF is gone (the document was deleted before it was read).
ExtractMissing(d) ==
    /\ run[d] = "extract" /\ d \notin files
    /\ RecordFailure(d)
    /\ UNCHANGED <<rows, faults>>

\* Extraction, embedding (after its retries), adelete_document or
\* abatch_insert raises.
StepFails(d) ==
    /\ run[d] \in {"extract", "embedded", "cleared"}
    /\ Fault("step")
    /\ RecordFailure(d)
    /\ UNCHANGED rows

-----------------------------------------------------------------------------
(* Runs that do not end by themselves *)

\* A run that leaves _execute_ingestion_job or the RQ job abnormally: the
\* inline task is gone, RQ files the job under failed.
Stopped == IF Inline THEN "over" ELSE "rqfailed"

\* A database statement raises: any one when the database is in trouble, the
\* insertion of the chunk rows also when it rejects them.  The session is not
\* rolled back, so the statements of the handlers that should record the
\* failure raise too.
DbFails(d) ==
    /\ \/ run[d] \in Running \ {"committed"} /\ Fault("db")
       \/ run[d] = "queued" /\ SlotFree(d) /\ Fault("db")
       \/ run[d] = "inserted" /\ Fault("flush")
    /\ run' = [run EXCEPT ![d] = Stopped]
    /\ IF run[d] = "inserted" THEN AddEntries(d) ELSE UNCHANGED bm25
    /\ UNCHANGED <<docVars, vec, rows, job, files, upload, del, canceling,
                   attempt, raced>>

\* RQ's timeout raises inside process(): an ordinary exception there, after
\* which the handler commits what the session holds: the chunk rows as far as
\* they were replaced, and perhaps the indexing_status of an update that was not
\* yet committed.  After the commit of _finalize it writes FAILED over INDEXED.
TimeoutInTry(d) ==
    /\ ~Inline /\ run[d] \in InTry
    /\ Fault("timeout")
    /\ run' = [run EXCEPT ![d] = "returned"]
    /\ SetStatus(d, "failed")
    /\ \/ run[d] \notin {"inserted", "flushed"} /\ UNCHANGED <<rows, indexing>>
       \/ /\ run[d] = "inserted"
          /\ \E r \in {rows[d], {}, PendingRows(d)} : rows' = [rows EXCEPT ![d] = r]
          /\ UNCHANGED indexing
       \/ /\ run[d] = "flushed"
          /\ rows' = [rows EXCEPT ![d] = PendingRows(d)]
          /\ SetIndexing(d, "indexed") \/ UNCHANGED indexing
    /\ UNCHANGED <<deleted, indexVars, job, files, upload, del, canceling,
                   attempt, raced>>

\* The same outside the try block: the worker records FAILED for the job,
\* and commits the document's PROCESSING if that update had been executed.
TimeoutOutside(d) ==
    /\ ~Inline /\ run[d] \in {"started", "loaded", "returned"}
    /\ Fault("timeout")
    /\ run' = [run EXCEPT ![d] = "raised"]
    /\ \/ UNCHANGED <<status, indexing>>
       \/ /\ run[d] = "loaded"
          /\ SetStatus(d, "processing")
          /\ SetIndexing(d, "processing")
    /\ UNCHANGED <<deleted, indexVars, rows, job, files, upload, del, canceling,
                   attempt, raced>>

\* A worker dies; its transaction is rolled back.
WorkerDies(d) ==
    /\ ~Inline /\ run[d] \in Running
    /\ Fault("crash")
    /\ run' = [run EXCEPT ![d] = "rqfailed"]
    /\ UNCHANGED <<docVars, indexVars, rows, job, files, upload, del, canceling,
                   attempt, raced>>

\* An API process dies: its handlers, its inline runs, its BM25 index.
\* Nothing at startup looks for what they left.
ServerDies(s) ==
    /\ Fault("crash")
    /\ upload' = [d \in Docs |-> IF UploadAt[d] = s /\ upload[d] \in InUpload
                                 THEN "lost" ELSE upload[d]]
    /\ run' = [d \in Docs |-> IF Inline /\ UploadAt[d] = s
                                 /\ run[d] \in Running \cup {"queued"}
                              THEN "over" ELSE run[d]]
    /\ del' = [d \in Docs |-> IF ClientAt[d] = s /\ del[d] \in InDelete
                              THEN "aborted" ELSE del[d]]
    /\ canceling' = {d \in canceling : ClientAt[d] # s}
    /\ bm25' = [bm25 EXCEPT ![s] = {}]
    /\ UNCHANGED <<docVars, vec, rows, job, files, attempt, raced>>

\* The operator's `rq requeue` of a job RQ holds as failed.
Requeue(d) ==
    /\ RunStep(d, "rqfailed", "queued")
    /\ UNCHANGED <<docVars, indexVars, rows, job, files, upload, del, canceling,
                   attempt, raced, faults>>

-----------------------------------------------------------------------------
(* DELETE /documents/{d}; bound: one such request for d at a time. *)

\* The document is read (404 if there is none).
DeleteRead(d) ==
    /\ Live(d)
    /\ del[d] \in {"idle", "aborted"}
    /\ del' = [del EXCEPT ![d] = "read"]
    /\ raced' = IF run[d] \in Active THEN raced \cup {d} ELSE raced
    /\ UNCHANGED <<docVars, indexVars, rows, job, files, upload, canceling, run,
                   attempt, faults>>

DeleteVectors(d) ==
    /\ DelStep(d, "read", "novec")
    /\ vec' = VectorsWithout(d)
    /\ UNCHANGED <<docVars, bm25, rows, job, files, upload, canceling, run,
                   attempt, raced, faults>>

\* bm25.delete_document and storage.delete, with no task switch between them.
DeleteEntries(d) ==
    /\ DelStep(d, "novec", "cleaned")
    /\ bm25' \in EntriesWithout(ClientAt[d], d)
    /\ files' = files \ {d}
    /\ UNCHANGED <<docVars, vec, rows, job, upload, canceling, run, attempt,
                   raced, faults>>

\* soft_delete and commit.  Chunk rows stay.
DeleteCommit(d) ==
    /\ DelStep(d, "cleaned", "done")
    /\ deleted' = deleted \cup {d}
    /\ UNCHANGED <<status, indexing, indexVars, rows, job, files, upload,
                   canceling, run, attempt, raced, faults>>

\* The vector store, the file storage (after bm25.delete_document) or the
\* database raises: 500.
DeleteFails(d) ==
    /\ \/ del[d] = "read" /\ Fault("step") /\ UNCHANGED bm25
       \/ del[d] = "novec" /\ Fault("step") /\ bm25' \in EntriesWithout(ClientAt[d], d)
       \/ del[d] = "cleaned" /\ Fault("db") /\ UNCHANGED bm25
    /\ del' = [del EXCEPT ![d] = "aborted"]
    /\ UNCHANGED <<docVars, vec, rows, job, files, upload, canceling, run,
                   attempt, raced>>

-----------------------------------------------------------------------------
(* DELETE /jobs/{d}; bound: one such request for d at a time. *)

\* The job is read; 404 and 409 change nothing.
CancelRead(d) ==
    /\ job[d] \in {"pending", "processing"}
    /\ d \notin canceling
    /\ canceling' = canceling \cup {d}
    /\ UNCHANGED <<docVars, indexVars, rows, job, files, upload, del, run,
                   attempt, raced, faults>>

\* The status is written over whatever it is by now; no run is stopped.
CancelCommit(d) ==
    /\ d \in canceling
    /\ canceling' = canceling \ {d}
    /\ job' = [job EXCEPT ![d] = "canceled"]
    /\ UNCHANGED <<docVars, indexVars, rows, files, upload, del, run, attempt,
                   raced, faults>>

-----------------------------------------------------------------------------
UploadNext(d) == \/ UploadSave(d) \/ UploadDedup(d) \/ UploadInsert(d)
                 \/ UploadJob(d) \/ UploadEnqueue(d) \/ UploadFails(d)

\* The steps a run takes while nothing stops it.
Progress(d) == \/ StartJob(d) \/ LoadDocument(d) \/ MarkProcessing(d)
               \/ Extract(d) \/ ExtractMissing(d) \/ DropVectors(d)
               \/ DropEntries(d) \/ InsertVectors(d) \/ FlushRows(d)
               \/ Finalize(d) \/ Return(d) \/ FinishCompleted(d) \/ FinishFailed(d)

RunNext(d) == \/ Progress(d) \/ StepFails(d) \/ DbFails(d) \/ TimeoutInTry(d)
              \/ TimeoutOutside(d) \/ WorkerDies(d) \/ Requeue(d)

DeleteNext(d) == \/ DeleteRead(d) \/ DeleteVectors(d) \/ DeleteEntries(d)
                 \/ DeleteCommit(d) \/ DeleteFails(d)

CancelNext(d) == CancelRead(d) \/ CancelCommit(d)

Next == \/ \E d \in Docs : \/ UploadNext(d) \/ RunNext(d)
                           \/ DeleteNext(d) \/ CancelNext(d)
        \/ \E s \in Servers : ServerDies(s)

Spec == Init /\ [][Next]_vars

\* asyncio runs every ready task and the worker polls its queue: a request
\* that has begun and a run that is scheduled go on.  Nothing makes a client
\* send a request or an operator requeue a job.
Fairness == \A d \in Docs :
    /\ WF_vars(UploadNext(d) /\ upload[d] # "idle")
    /\ WF_vars(Progress(d))
    /\ WF_vars(DeleteNext(d) /\ del[d] \in InDelete)
    /\ WF_vars(CancelCommit(d))

FairSpec == Spec /\ Fairness

-----------------------------------------------------------------------------
(* Safety *)

\* A document that was published (INDEXED in indexing_status, which a timeout
\* after the commit leaves alone) and that no delete request has touched is
\* whole: its PDF is stored, and the vectors and the chunk rows are those of the
\* last ingestion of it, and of no earlier one (search hydrates the text of a
\* vector hit from the chunk row of the same attempt).
IndexedIsComplete ==
    \A d \in Docs :
        ("indexed" \in {status[d], indexing[d]} /\ d \notin deleted /\ del[d] = "idle") =>
            /\ d \in files
            /\ d \in HasText => vec[d] = {attempt[d]} /\ rows[d] = {attempt[d]}

\* After a successful delete that overlapped no ingestion of the document
\* nothing of it can be found: no vectors, no PDF, no BM25 entries in the
\* process that served the delete.
DeleteLeavesNothing ==
    \A d \in deleted \ raced :
        vec[d] = {} /\ d \notin files /\ d \notin bm25[ClientAt[d]]

\* Chunk rows of a live document become visible with its INDEXED status and
\* not otherwise (runs without RQ timeouts).
PublishedTogether ==
    \A d \in Docs : (rows[d] # {} /\ d \notin deleted) =>
                        status[d] = "indexed" /\ indexing[d] = "indexed"

\* A run that is over has settled what it was for: the document is INDEXED or
\* FAILED, the job has an end state, nothing is left at PROCESSING (runs whose
\* faults are only exceptions of extraction, embedding or the vector store).
SettledWhenOver ==
    \A d \in Docs : run[d] = "over" =>
        /\ job[d] \in TerminalJob
        /\ Live(d) => status[d] \in {"indexed", "failed"}

\* A deleted document never comes back, and no run changes what its row says.
DeletedStaysDeleted ==
    [][\A d \in deleted : d \in deleted' /\ status'[d] = status[d]
                                         /\ indexing'[d] = indexing[d]]_vars

\* RQ's timeout strikes between the commit of _finalize and the return.
LateTimeout(d) ==
    /\ run[d] = "committed" /\ run'[d] = "returned"
    /\ faults' = faults + 1
    /\ status'[d] = "failed" /\ indexing'[d] = "indexed"

\* However often its job is run again, no run touches the chunk rows of an
\* INDEXED document, and only a timeout that strikes the run which has just
\* published it takes its status back: to FAILED, with indexing_status and rows
\* as they were published.
IndexedIsFinal ==
    [][\A d \in Docs : status[d] = "indexed" =>
           /\ rows'[d] = rows[d]
           /\ \/ status'[d] = "indexed" /\ indexing'[d] = indexing[d]
              \/ LateTimeout(d)]_vars

-----------------------------------------------------------------------------
(* Liveness *)

\* A scheduled run settles its document and, for good, its job (runs whose
\* faults are only exceptions of extraction, embedding or the vector store).
IngestionSettles ==
    \A d \in Docs :
        /\ (run[d] = "queued") ~> (d \in deleted \/ status[d] \in {"indexed", "failed"})
        /\ (run[d] = "queued") ~> [](job[d] \in TerminalJob)

-----------------------------------------------------------------------------
(* Ingestion implements DocumentLifecycle (runs without RQ timeouts). *)

PhaseOf(d) == IF d \in deleted THEN "deleted" ELSE status[d]

Lifecycle == INSTANCE DocumentLifecycle WITH
    phase   <- [d \in Docs |-> PhaseOf(d)],
    content <- [d \in Docs |-> IF d \in deleted THEN {} ELSE rows[d]]

\* Every step of the handlers and runs is a step of a document's life, or none.
ImplementsLifecycle == Lifecycle!Spec

=============================================================================
