--------------------------- MODULE IngestionProofs ---------------------------
(***************************************************************************)
(* Proofs about Ingestion, for every value of its constants.               *)
(***************************************************************************)
EXTENDS Ingestion, TLAPS

\* Every variable keeps its type: no handler, run or fault writes a status
\* outside the enumerations of db/enums.py or an index entry of no document.
THEOREM TypeCorrect == Spec => []TypeOK
<1>1. Init => TypeOK
  BY DEF Init, TypeOK, DocStatus, JobStatus, UploadPC, DelPC, RunPC
<1>2. TypeOK /\ [Next]_vars => TypeOK'
  <2> SUFFICES ASSUME TypeOK, [Next]_vars PROVE TypeOK'
    OBVIOUS
  <2> USE ConstantsAssumption
          DEF TypeOK, DocStatus, JobStatus, UploadPC, DelPC, RunPC, Running, Active, InTry, Unpublished,
              docVars, indexVars
  <2>1. ASSUME NEW d \in Docs, UploadSave(d) PROVE TypeOK'
    BY <2>1 DEF UploadSave, UploadStep
  <2>2. ASSUME NEW d \in Docs, UploadDedup(d) PROVE TypeOK'
    BY <2>2 DEF UploadDedup, UploadStep
  <2>3. ASSUME NEW d \in Docs, UploadInsert(d) PROVE TypeOK'
    BY <2>3 DEF UploadInsert, UploadStep
  <2>4. ASSUME NEW d \in Docs, UploadJob(d) PROVE TypeOK'
    BY <2>4 DEF UploadJob, UploadStep
  <2>5. ASSUME NEW d \in Docs, UploadEnqueue(d) PROVE TypeOK'
    BY <2>5 DEF UploadEnqueue, UploadStep
  <2>6. ASSUME NEW d \in Docs, UploadFails(d) PROVE TypeOK'
    BY <2>6 DEF UploadFails, Fault
  <2>7. ASSUME NEW d \in Docs, StartJob(d) PROVE TypeOK'
    BY <2>7 DEF StartJob, RunStep
  <2>8. ASSUME NEW d \in Docs, LoadDocument(d) PROVE TypeOK'
    BY <2>8 DEF LoadDocument, RunStep
  <2>9. ASSUME NEW d \in Docs, MarkProcessing(d) PROVE TypeOK'
    BY <2>9 DEF MarkProcessing, RunStep, SetStatus, SetIndexing
  <2>10. ASSUME NEW d \in Docs, Extract(d) PROVE TypeOK'
    BY <2>10 DEF Extract, RunStep, AfterExtract
  <2>11. ASSUME NEW d \in Docs, ExtractMissing(d) PROVE TypeOK'
    BY <2>11 DEF ExtractMissing, RecordFailure, SetStatus
  <2>12. ASSUME NEW d \in Docs, DropVectors(d) PROVE TypeOK'
    BY <2>12 DEF DropVectors, RunStep, VectorsWithout
  <2>13. ASSUME NEW d \in Docs, DropEntries(d) PROVE TypeOK'
    BY <2>13 DEF DropEntries, RunStep, EntriesWithout
  <2>14. ASSUME NEW d \in Docs, InsertVectors(d) PROVE TypeOK'
    BY <2>14 DEF InsertVectors, RunStep, VectorsWith
  <2>15. ASSUME NEW d \in Docs, FlushRows(d) PROVE TypeOK'
    BY <2>15 DEF FlushRows, RunStep, AddEntries, EntriesWith, RowsFlushed
  <2>16. ASSUME NEW d \in Docs, Finalize(d) PROVE TypeOK'
    BY <2>16 DEF Finalize, RunStep, PendingRows, SetStatus, SetIndexing
  <2>17. ASSUME NEW d \in Docs, FinishCompleted(d) PROVE TypeOK'
    BY <2>17 DEF FinishCompleted, RunStep, JobResult
  <2>18. ASSUME NEW d \in Docs, FinishFailed(d) PROVE TypeOK'
    BY <2>18 DEF FinishFailed, RunStep
  <2>19. ASSUME NEW d \in Docs, StepFails(d) PROVE TypeOK'
    BY <2>19 DEF StepFails, Fault, RecordFailure, SetStatus
  <2>20. ASSUME NEW d \in Docs, DbFails(d) PROVE TypeOK'
    BY <2>20 DEF DbFails, Fault, Stopped, AddEntries, EntriesWith
  <2>21. ASSUME NEW d \in Docs, TimeoutInTry(d) PROVE TypeOK'
    <3>1. /\ status' \in [Docs -> DocStatus]
          /\ run' \in [Docs -> RunPC]
      BY <2>21 DEF TimeoutInTry, SetStatus
    <3>2. indexing' \in [Docs -> DocStatus]
      BY <2>21 DEF TimeoutInTry, SetIndexing
    <3>3. rows' \in [Docs -> SUBSET Nat]
      BY <2>21 DEF TimeoutInTry, PendingRows
    <3>4. faults' \in Nat
      BY <2>21 DEF TimeoutInTry, Fault
    <3>5. QED
      BY <2>21, <3>1, <3>2, <3>3, <3>4 DEF TimeoutInTry
  <2>22. ASSUME NEW d \in Docs, TimeoutOutside(d) PROVE TypeOK'
    <3>1. run' \in [Docs -> RunPC] /\ faults' \in Nat
      BY <2>22 DEF TimeoutOutside, Fault
    <3>2. status' \in [Docs -> DocStatus]
      BY <2>22 DEF TimeoutOutside, SetStatus
    <3>3. indexing' \in [Docs -> DocStatus]
      BY <2>22 DEF TimeoutOutside, SetIndexing
    <3>4. QED
      BY <2>22, <3>1, <3>2, <3>3 DEF TimeoutOutside
  <2>23. ASSUME NEW d \in Docs, WorkerDies(d) PROVE TypeOK'
    BY <2>23 DEF WorkerDies, Fault
  <2>24. ASSUME NEW d \in Docs, Requeue(d) PROVE TypeOK'
    BY <2>24 DEF Requeue, RunStep
  <2>25. ASSUME NEW d \in Docs, DeleteRead(d) PROVE TypeOK'
    BY <2>25 DEF DeleteRead
  <2>26. ASSUME NEW d \in Docs, DeleteVectors(d) PROVE TypeOK'
    BY <2>26 DEF DeleteVectors, DelStep, VectorsWithout
  <2>27. ASSUME NEW d \in Docs, DeleteEntries(d) PROVE TypeOK'
    BY <2>27 DEF DeleteEntries, DelStep, EntriesWithout
  <2>28. ASSUME NEW d \in Docs, DeleteCommit(d) PROVE TypeOK'
    BY <2>28 DEF DeleteCommit, DelStep
  <2>29. ASSUME NEW d \in Docs, DeleteFails(d) PROVE TypeOK'
    BY SMTT(60), <2>29 DEF DeleteFails, Fault, EntriesWithout
  <2>30. ASSUME NEW d \in Docs, CancelRead(d) PROVE TypeOK'
    BY <2>30 DEF CancelRead
  <2>31. ASSUME NEW d \in Docs, CancelCommit(d) PROVE TypeOK'
    BY <2>31 DEF CancelCommit
  <2>32. ASSUME NEW s \in Servers, ServerDies(s) PROVE TypeOK'
    BY <2>32 DEF ServerDies, Fault, InDelete, InUpload
  <2>35. ASSUME NEW d \in Docs, Return(d) PROVE TypeOK'
    BY <2>35 DEF Return, RunStep
  <2>33. CASE UNCHANGED vars
    BY <2>33 DEF vars
  <2>34. QED
    BY <2>1, <2>2, <2>3, <2>4, <2>5, <2>6, <2>7, <2>8, <2>9, <2>10, <2>11, <2>12, <2>13,
       <2>14, <2>15, <2>16, <2>17, <2>18, <2>19, <2>20, <2>21, <2>22, <2>23, <2>24,
       <2>25, <2>26, <2>27, <2>28, <2>29, <2>30, <2>31, <2>32, <2>33, <2>35 DEF Next, UploadNext, RunNext,
       Progress, DeleteNext, CancelNext
<1>3. QED
  BY <1>1, <1>2, PTL DEF Spec

-----------------------------------------------------------------------------
(* The inductive invariant, per document *)

\* How far the upload, the run and the delete of e have got says what the row
\* of e says: a run is inside process() only with a document that is not
\* indexed yet, and a document is deleted exactly when its delete is done.
StageInv(e) ==
    /\ upload[e] # "done" => run[e] = "none"
    /\ upload[e] \in {"idle", "saved", "checked"} => status[e] = "absent"
    /\ e \in deleted <=> del[e] = "done"
    /\ del[e] # "idle" => status[e] # "absent"
    /\ run[e] \in Active => status[e] \notin {"absent", "indexed"}
    /\ (run[e] = "loaded" /\ e \notin deleted) => status[e] \in {"uploaded", "failed"}
    /\ (run[e] \in Unpublished /\ e \notin deleted) =>
           status[e] = "processing" /\ indexing[e] = "processing"
    /\ (run[e] = "committed" /\ e \notin deleted) =>
           status[e] = "indexed" /\ indexing[e] = "indexed"
    /\ status[e] = "indexed" => indexing[e] = "indexed"
    /\ run[e] = "committed" => status[e] # "absent"

\* A delete that overlapped no run has removed what its steps so far remove,
\* and no run can put it back.
DeleteInv(e) ==
    e \notin raced =>
        /\ del[e] \in InDelete \cup {"done"} => run[e] \notin Active
        /\ del[e] \in {"novec", "cleaned", "done"} => vec[e] = {}
        /\ del[e] \in {"cleaned", "done"} => e \notin files /\ e \notin bm25[ClientAt[e]]

\* Until a delete begins, the stores hold what the stage of the run implies.
StoreInv(e) ==
    del[e] = "idle" =>
        /\ (upload[e] \in {"saved", "checked"} \/ status[e] # "absent") => e \in files
        /\ run[e] \in {"embedded", "dropped", "cleared", "inserted"} => e \in HasText
        /\ run[e] \in {"dropped", "cleared"} => vec[e] = {}
        /\ (run[e] \in {"inserted", "flushed"} /\ e \in HasText) => vec[e] = {attempt[e]}
        /\ (indexing[e] = "indexed" /\ e \in HasText) =>
               vec[e] = {attempt[e]} /\ rows[e] = {attempt[e]}
        /\ indexing[e] = "indexed" => status[e] # "absent"

IInv == \A e \in Docs : StageInv(e) /\ DeleteInv(e) /\ StoreInv(e)


\* Every step keeps the rows in line with the handlers and runs.
LEMMA StageStep ==
  ASSUME TypeOK, IInv, [Next]_vars, NEW e \in Docs
  PROVE  StageInv(e)'
<1> USE ConstantsAssumption DEF docVars, indexVars, Active, InTry, Unpublished, InDelete, InUpload, Running
<1>1. StageInv(e)
  BY SMTT(60) DEF IInv
<1>2. StageInv(e)'
  <2> USE <1>1 DEF TypeOK, StageInv
  <2>1. ASSUME NEW d \in Docs, UploadSave(d) PROVE StageInv(e)'
    BY <2>1 DEF UploadSave, UploadStep
  <2>2. ASSUME NEW d \in Docs, UploadDedup(d) PROVE StageInv(e)'
    BY <2>2 DEF UploadDedup, UploadStep
  <2>3. ASSUME NEW d \in Docs, UploadInsert(d) PROVE StageInv(e)'
    BY <2>3 DEF UploadInsert, UploadStep
  <2>4. ASSUME NEW d \in Docs, UploadJob(d) PROVE StageInv(e)'
    BY <2>4 DEF UploadJob, UploadStep
  <2>5. ASSUME NEW d \in Docs, UploadEnqueue(d) PROVE StageInv(e)'
    BY <2>5 DEF UploadEnqueue, UploadStep
  <2>6. ASSUME NEW d \in Docs, UploadFails(d) PROVE StageInv(e)'
    BY <2>6 DEF UploadFails, Fault
  <2>7. ASSUME NEW d \in Docs, StartJob(d) PROVE StageInv(e)'
    BY <2>7 DEF StartJob, RunStep
  <2>8. ASSUME NEW d \in Docs, LoadDocument(d) PROVE StageInv(e)'
    BY <2>8 DEF LoadDocument, RunStep, Live, Reprocessable, DocStatus
  <2>9. ASSUME NEW d \in Docs, MarkProcessing(d) PROVE StageInv(e)'
    BY <2>9 DEF MarkProcessing, RunStep, SetStatus, SetIndexing, RowMatches, Live
  <2>10. ASSUME NEW d \in Docs, Extract(d) PROVE StageInv(e)'
    BY <2>10 DEF Extract, RunStep, AfterExtract
  <2>11. ASSUME NEW d \in Docs, ExtractMissing(d) PROVE StageInv(e)'
    BY <2>11 DEF ExtractMissing, RecordFailure, SetStatus, RowMatches, Live
  <2>12. ASSUME NEW d \in Docs, DropVectors(d) PROVE StageInv(e)'
    BY <2>12 DEF DropVectors, RunStep, VectorsWithout
  <2>13. ASSUME NEW d \in Docs, DropEntries(d) PROVE StageInv(e)'
    BY <2>13 DEF DropEntries, RunStep, EntriesWithout
  <2>14. ASSUME NEW d \in Docs, InsertVectors(d) PROVE StageInv(e)'
    BY <2>14 DEF InsertVectors, RunStep, VectorsWith
  <2>15. ASSUME NEW d \in Docs, FlushRows(d) PROVE StageInv(e)'
    BY <2>15 DEF FlushRows, RunStep, AddEntries, EntriesWith, RowsFlushed
  <2>16. ASSUME NEW d \in Docs, Finalize(d) PROVE StageInv(e)'
    BY <2>16 DEF Finalize, RunStep, PendingRows, SetStatus, SetIndexing, RowMatches, Live
  <2>17. ASSUME NEW d \in Docs, FinishCompleted(d) PROVE StageInv(e)'
    BY <2>17 DEF FinishCompleted, RunStep, JobResult
  <2>18. ASSUME NEW d \in Docs, FinishFailed(d) PROVE StageInv(e)'
    BY <2>18 DEF FinishFailed, RunStep
  <2>19. ASSUME NEW d \in Docs, StepFails(d) PROVE StageInv(e)'
    BY <2>19 DEF StepFails, Fault, RecordFailure, SetStatus, RowMatches, Live
  <2>20. ASSUME NEW d \in Docs, DbFails(d) PROVE StageInv(e)'
    BY <2>20 DEF DbFails, Fault, Stopped, AddEntries, EntriesWith
  <2>21. ASSUME NEW d \in Docs, TimeoutInTry(d) PROVE StageInv(e)'
    BY <2>21 DEF TimeoutInTry, Fault, SetStatus, SetIndexing, PendingRows, RowMatches, Live
  <2>22. ASSUME NEW d \in Docs, TimeoutOutside(d) PROVE StageInv(e)'
    BY <2>22 DEF TimeoutOutside, Fault, SetStatus, SetIndexing, RowMatches, Live
  <2>23. ASSUME NEW d \in Docs, WorkerDies(d) PROVE StageInv(e)'
    BY <2>23 DEF WorkerDies, Fault
  <2>24. ASSUME NEW d \in Docs, Requeue(d) PROVE StageInv(e)'
    BY <2>24 DEF Requeue, RunStep
  <2>25. ASSUME NEW d \in Docs, DeleteRead(d) PROVE StageInv(e)'
    BY <2>25 DEF DeleteRead, Live
  <2>26. ASSUME NEW d \in Docs, DeleteVectors(d) PROVE StageInv(e)'
    BY <2>26 DEF DeleteVectors, DelStep, VectorsWithout
  <2>27. ASSUME NEW d \in Docs, DeleteEntries(d) PROVE StageInv(e)'
    BY <2>27 DEF DeleteEntries, DelStep, EntriesWithout
  <2>28. ASSUME NEW d \in Docs, DeleteCommit(d) PROVE StageInv(e)'
    BY <2>28 DEF DeleteCommit, DelStep
  <2>29. ASSUME NEW d \in Docs, DeleteFails(d) PROVE StageInv(e)'
    BY <2>29 DEF DeleteFails, Fault, EntriesWithout
  <2>30. ASSUME NEW d \in Docs, CancelRead(d) PROVE StageInv(e)'
    BY <2>30 DEF CancelRead
  <2>31. ASSUME NEW d \in Docs, CancelCommit(d) PROVE StageInv(e)'
    BY <2>31 DEF CancelCommit
  <2>32. ASSUME NEW s \in Servers, ServerDies(s) PROVE StageInv(e)'
    BY <2>32 DEF ServerDies, Fault
  <2>35. ASSUME NEW d \in Docs, Return(d) PROVE StageInv(e)'
    BY <2>35 DEF Return, RunStep
  <2>33. CASE UNCHANGED vars
    BY <2>33 DEF vars
  <2>34. QED
    BY <2>1, <2>2, <2>3, <2>4, <2>5, <2>6, <2>7, <2>8, <2>9, <2>10, <2>11, <2>12, <2>13,
       <2>14, <2>15, <2>16, <2>17, <2>18, <2>19, <2>20, <2>21, <2>22, <2>23, <2>24,
       <2>25, <2>26, <2>27, <2>28, <2>29, <2>30, <2>31, <2>32, <2>33, <2>35
       DEF Next, UploadNext, RunNext, Progress, DeleteNext, CancelNext
<1>3. QED
  BY <1>2

\* Every step keeps what a delete has removed away.
LEMMA DeleteStep ==
  ASSUME TypeOK, IInv, [Next]_vars, NEW e \in Docs
  PROVE  DeleteInv(e)'
<1> USE ConstantsAssumption DEF docVars, indexVars, Active, InTry, Unpublished, InDelete, InUpload, Running
<1>1. StageInv(e) /\ DeleteInv(e)
  BY DEF IInv
<1>2. DeleteInv(e)'
  <2> USE <1>1 DEF TypeOK, StageInv, DeleteInv
  <2>1. ASSUME NEW d \in Docs, UploadSave(d) PROVE DeleteInv(e)'
    BY <2>1 DEF UploadSave, UploadStep
  <2>2. ASSUME NEW d \in Docs, UploadDedup(d) PROVE DeleteInv(e)'
    BY <2>2 DEF UploadDedup, UploadStep
  <2>3. ASSUME NEW d \in Docs, UploadInsert(d) PROVE DeleteInv(e)'
    BY <2>3 DEF UploadInsert, UploadStep
  <2>4. ASSUME NEW d \in Docs, UploadJob(d) PROVE DeleteInv(e)'
    BY <2>4 DEF UploadJob, UploadStep
  <2>5. ASSUME NEW d \in Docs, UploadEnqueue(d) PROVE DeleteInv(e)'
    BY <2>5 DEF UploadEnqueue, UploadStep
  <2>6. ASSUME NEW d \in Docs, UploadFails(d) PROVE DeleteInv(e)'
    BY <2>6 DEF UploadFails, Fault
  <2>7. ASSUME NEW d \in Docs, StartJob(d) PROVE DeleteInv(e)'
    BY <2>7 DEF StartJob, RunStep
  <2>8. ASSUME NEW d \in Docs, LoadDocument(d) PROVE DeleteInv(e)'
    BY <2>8 DEF LoadDocument, RunStep, Live, Reprocessable
  <2>9. ASSUME NEW d \in Docs, MarkProcessing(d) PROVE DeleteInv(e)'
    BY <2>9 DEF MarkProcessing, RunStep, SetStatus, SetIndexing, RowMatches, Live
  <2>10. ASSUME NEW d \in Docs, Extract(d) PROVE DeleteInv(e)'
    BY <2>10 DEF Extract, RunStep, AfterExtract
  <2>11. ASSUME NEW d \in Docs, ExtractMissing(d) PROVE DeleteInv(e)'
    BY <2>11 DEF ExtractMissing, RecordFailure, SetStatus, RowMatches, Live
  <2>12. ASSUME NEW d \in Docs, DropVectors(d) PROVE DeleteInv(e)'
    BY <2>12 DEF DropVectors, RunStep, VectorsWithout
  <2>13. ASSUME NEW d \in Docs, DropEntries(d) PROVE DeleteInv(e)'
    BY <2>13 DEF DropEntries, RunStep, EntriesWithout
  <2>14. ASSUME NEW d \in Docs, InsertVectors(d) PROVE DeleteInv(e)'
    BY <2>14 DEF InsertVectors, RunStep, VectorsWith
  <2>15. ASSUME NEW d \in Docs, FlushRows(d) PROVE DeleteInv(e)'
    BY <2>15 DEF FlushRows, RunStep, AddEntries, EntriesWith, RowsFlushed
  <2>16. ASSUME NEW d \in Docs, Finalize(d) PROVE DeleteInv(e)'
    BY <2>16 DEF Finalize, RunStep, PendingRows, SetStatus, SetIndexing, RowMatches, Live
  <2>17. ASSUME NEW d \in Docs, FinishCompleted(d) PROVE DeleteInv(e)'
    BY <2>17 DEF FinishCompleted, RunStep, JobResult
  <2>18. ASSUME NEW d \in Docs, FinishFailed(d) PROVE DeleteInv(e)'
    BY <2>18 DEF FinishFailed, RunStep
  <2>19. ASSUME NEW d \in Docs, StepFails(d) PROVE DeleteInv(e)'
    BY <2>19 DEF StepFails, Fault, RecordFailure, SetStatus, RowMatches, Live
  <2>20. ASSUME NEW d \in Docs, DbFails(d) PROVE DeleteInv(e)'
    BY <2>20 DEF DbFails, Fault, Stopped, AddEntries, EntriesWith
  <2>21. ASSUME NEW d \in Docs, TimeoutInTry(d) PROVE DeleteInv(e)'
    BY <2>21 DEF TimeoutInTry, Fault, SetStatus, SetIndexing, PendingRows, RowMatches, Live
  <2>22. ASSUME NEW d \in Docs, TimeoutOutside(d) PROVE DeleteInv(e)'
    BY <2>22 DEF TimeoutOutside, Fault, SetStatus, SetIndexing, RowMatches, Live
  <2>23. ASSUME NEW d \in Docs, WorkerDies(d) PROVE DeleteInv(e)'
    BY <2>23 DEF WorkerDies, Fault
  <2>24. ASSUME NEW d \in Docs, Requeue(d) PROVE DeleteInv(e)'
    BY <2>24 DEF Requeue, RunStep
  <2>25. ASSUME NEW d \in Docs, DeleteRead(d) PROVE DeleteInv(e)'
    BY <2>25 DEF DeleteRead, Live
  <2>26. ASSUME NEW d \in Docs, DeleteVectors(d) PROVE DeleteInv(e)'
    BY <2>26 DEF DeleteVectors, DelStep, VectorsWithout
  <2>27. ASSUME NEW d \in Docs, DeleteEntries(d) PROVE DeleteInv(e)'
    BY <2>27 DEF DeleteEntries, DelStep, EntriesWithout
  <2>28. ASSUME NEW d \in Docs, DeleteCommit(d) PROVE DeleteInv(e)'
    BY <2>28 DEF DeleteCommit, DelStep
  <2>29. ASSUME NEW d \in Docs, DeleteFails(d) PROVE DeleteInv(e)'
    BY <2>29 DEF DeleteFails, Fault, EntriesWithout
  <2>30. ASSUME NEW d \in Docs, CancelRead(d) PROVE DeleteInv(e)'
    BY <2>30 DEF CancelRead
  <2>31. ASSUME NEW d \in Docs, CancelCommit(d) PROVE DeleteInv(e)'
    BY <2>31 DEF CancelCommit
  <2>32. ASSUME NEW s \in Servers, ServerDies(s) PROVE DeleteInv(e)'
    BY <2>32 DEF ServerDies, Fault
  <2>35. ASSUME NEW d \in Docs, Return(d) PROVE DeleteInv(e)'
    BY <2>35 DEF Return, RunStep
  <2>33. CASE UNCHANGED vars
    BY <2>33 DEF vars
  <2>34. QED
    BY <2>1, <2>2, <2>3, <2>4, <2>5, <2>6, <2>7, <2>8, <2>9, <2>10, <2>11, <2>12, <2>13,
       <2>14, <2>15, <2>16, <2>17, <2>18, <2>19, <2>20, <2>21, <2>22, <2>23, <2>24,
       <2>25, <2>26, <2>27, <2>28, <2>29, <2>30, <2>31, <2>32, <2>33, <2>35
       DEF Next, UploadNext, RunNext, Progress, DeleteNext, CancelNext
<1>3. QED
  BY <1>2

\* Every step keeps the stores in line with the stage of the run.
LEMMA StoreStep ==
  ASSUME TypeOK, IInv, [Next]_vars, NEW e \in Docs
  PROVE  StoreInv(e)'
<1> USE ConstantsAssumption DEF docVars, indexVars, Active, InTry, Unpublished, InDelete, InUpload, Running
<1>1. StageInv(e) /\ StoreInv(e)
  BY DEF IInv
<1>2. StoreInv(e)'
  <2> USE <1>1 DEF TypeOK, StageInv, StoreInv
  <2>1. ASSUME NEW d \in Docs, UploadSave(d) PROVE StoreInv(e)'
    BY <2>1 DEF UploadSave, UploadStep
  <2>2. ASSUME NEW d \in Docs, UploadDedup(d) PROVE StoreInv(e)'
    BY <2>2 DEF UploadDedup, UploadStep
  <2>3. ASSUME NEW d \in Docs, UploadInsert(d) PROVE StoreInv(e)'
    BY <2>3 DEF UploadInsert, UploadStep
  <2>4. ASSUME NEW d \in Docs, UploadJob(d) PROVE StoreInv(e)'
    BY <2>4 DEF UploadJob, UploadStep
  <2>5. ASSUME NEW d \in Docs, UploadEnqueue(d) PROVE StoreInv(e)'
    BY <2>5 DEF UploadEnqueue, UploadStep
  <2>6. ASSUME NEW d \in Docs, UploadFails(d) PROVE StoreInv(e)'
    BY <2>6 DEF UploadFails, Fault
  <2>7. ASSUME NEW d \in Docs, StartJob(d) PROVE StoreInv(e)'
    BY <2>7 DEF StartJob, RunStep
  <2>8. ASSUME NEW d \in Docs, LoadDocument(d) PROVE StoreInv(e)'
    BY <2>8 DEF LoadDocument, RunStep, Live, Reprocessable
  <2>9. ASSUME NEW d \in Docs, MarkProcessing(d) PROVE StoreInv(e)'
    BY <2>9 DEF MarkProcessing, RunStep, SetStatus, SetIndexing, RowMatches, Live
  <2>10. ASSUME NEW d \in Docs, Extract(d) PROVE StoreInv(e)'
    BY <2>10 DEF Extract, RunStep, AfterExtract
  <2>11. ASSUME NEW d \in Docs, ExtractMissing(d) PROVE StoreInv(e)'
    BY <2>11 DEF ExtractMissing, RecordFailure, SetStatus, RowMatches, Live
  <2>12. ASSUME NEW d \in Docs, DropVectors(d) PROVE StoreInv(e)'
    BY <2>12 DEF DropVectors, RunStep, VectorsWithout
  <2>13. ASSUME NEW d \in Docs, DropEntries(d) PROVE StoreInv(e)'
    BY <2>13 DEF DropEntries, RunStep, EntriesWithout
  <2>14. ASSUME NEW d \in Docs, InsertVectors(d) PROVE StoreInv(e)'
    BY <2>14 DEF InsertVectors, RunStep, VectorsWith
  <2>15. ASSUME NEW d \in Docs, FlushRows(d) PROVE StoreInv(e)'
    BY <2>15 DEF FlushRows, RunStep, AddEntries, EntriesWith, RowsFlushed
  <2>16. ASSUME NEW d \in Docs, Finalize(d) PROVE StoreInv(e)'
    BY <2>16 DEF Finalize, RunStep, PendingRows, SetStatus, SetIndexing, RowMatches, Live
  <2>17. ASSUME NEW d \in Docs, FinishCompleted(d) PROVE StoreInv(e)'
    BY <2>17 DEF FinishCompleted, RunStep, JobResult
  <2>18. ASSUME NEW d \in Docs, FinishFailed(d) PROVE StoreInv(e)'
    BY <2>18 DEF FinishFailed, RunStep
  <2>19. ASSUME NEW d \in Docs, StepFails(d) PROVE StoreInv(e)'
    BY <2>19 DEF StepFails, Fault, RecordFailure, SetStatus, RowMatches, Live
  <2>20. ASSUME NEW d \in Docs, DbFails(d) PROVE StoreInv(e)'
    BY <2>20 DEF DbFails, Fault, Stopped, AddEntries, EntriesWith
  <2>21. ASSUME NEW d \in Docs, TimeoutInTry(d) PROVE StoreInv(e)'
    BY <2>21 DEF TimeoutInTry, Fault, SetStatus, SetIndexing, PendingRows, RowMatches, Live
  <2>22. ASSUME NEW d \in Docs, TimeoutOutside(d) PROVE StoreInv(e)'
    BY <2>22 DEF TimeoutOutside, Fault, SetStatus, SetIndexing, RowMatches, Live
  <2>23. ASSUME NEW d \in Docs, WorkerDies(d) PROVE StoreInv(e)'
    BY <2>23 DEF WorkerDies, Fault
  <2>24. ASSUME NEW d \in Docs, Requeue(d) PROVE StoreInv(e)'
    BY <2>24 DEF Requeue, RunStep
  <2>25. ASSUME NEW d \in Docs, DeleteRead(d) PROVE StoreInv(e)'
    BY <2>25 DEF DeleteRead, Live
  <2>26. ASSUME NEW d \in Docs, DeleteVectors(d) PROVE StoreInv(e)'
    BY <2>26 DEF DeleteVectors, DelStep, VectorsWithout
  <2>27. ASSUME NEW d \in Docs, DeleteEntries(d) PROVE StoreInv(e)'
    BY <2>27 DEF DeleteEntries, DelStep, EntriesWithout
  <2>28. ASSUME NEW d \in Docs, DeleteCommit(d) PROVE StoreInv(e)'
    BY <2>28 DEF DeleteCommit, DelStep
  <2>29. ASSUME NEW d \in Docs, DeleteFails(d) PROVE StoreInv(e)'
    BY <2>29 DEF DeleteFails, Fault, EntriesWithout
  <2>30. ASSUME NEW d \in Docs, CancelRead(d) PROVE StoreInv(e)'
    BY <2>30 DEF CancelRead
  <2>31. ASSUME NEW d \in Docs, CancelCommit(d) PROVE StoreInv(e)'
    BY <2>31 DEF CancelCommit
  <2>32. ASSUME NEW s \in Servers, ServerDies(s) PROVE StoreInv(e)'
    BY <2>32 DEF ServerDies, Fault
  <2>35. ASSUME NEW d \in Docs, Return(d) PROVE StoreInv(e)'
    BY <2>35 DEF Return, RunStep
  <2>33. CASE UNCHANGED vars
    BY <2>33 DEF vars
  <2>34. QED
    BY <2>1, <2>2, <2>3, <2>4, <2>5, <2>6, <2>7, <2>8, <2>9, <2>10, <2>11, <2>12, <2>13,
       <2>14, <2>15, <2>16, <2>17, <2>18, <2>19, <2>20, <2>21, <2>22, <2>23, <2>24,
       <2>25, <2>26, <2>27, <2>28, <2>29, <2>30, <2>31, <2>32, <2>33, <2>35
       DEF Next, UploadNext, RunNext, Progress, DeleteNext, CancelNext
<1>3. QED
  BY <1>2


-----------------------------------------------------------------------------
(* The theorems *)

\* IInv holds throughout.
THEOREM InductiveInvariant == Spec => []IInv
<1>1. Init => IInv
  <2> SUFFICES ASSUME Init, NEW e \in Docs
               PROVE  StageInv(e) /\ DeleteInv(e) /\ StoreInv(e)
    BY DEF IInv
  <2>1. /\ run[e] = "none" /\ upload[e] = "idle" /\ del[e] = "idle"
        /\ status[e] = "absent" /\ indexing[e] = "absent" /\ deleted = {}
    BY DEF Init
  <2>2. StageInv(e)
    BY <2>1 DEF StageInv, Active, InTry, Unpublished
  <2>3. DeleteInv(e)
    BY <2>1 DEF DeleteInv, InDelete
  <2>4. StoreInv(e)
    BY <2>1 DEF StoreInv
  <2>5. QED
    BY <2>2, <2>3, <2>4
<1>2. TypeOK /\ IInv /\ [Next]_vars => IInv'
  <2> SUFFICES ASSUME TypeOK, IInv, [Next]_vars PROVE IInv'
    OBVIOUS
  <2>1. \A e \in Docs : StageInv(e)' /\ DeleteInv(e)' /\ StoreInv(e)'
    BY StageStep, DeleteStep, StoreStep
  <2>2. QED
    BY <2>1 DEF IInv
<1>3. QED
  BY <1>1, <1>2, TypeCorrect, PTL DEF Spec

\* An INDEXED document that no delete touched has its PDF, and the vectors and
\* chunk rows of its last ingestion only (_embed_and_index, _finalize).
THEOREM CompleteWhenIndexed == Spec => []IndexedIsComplete
<1>1. IInv => IndexedIsComplete
  BY DEF IInv, StageInv, StoreInv, IndexedIsComplete
<1>2. QED
  BY <1>1, InductiveInvariant, PTL

\* A delete that overlapped no run of the document leaves nothing to find
\* (delete_document), whatever faults and later attempts follow.
THEOREM DeleteCleans == Spec => []DeleteLeavesNothing
<1>1. TypeOK /\ IInv => DeleteLeavesNothing
  BY DEF TypeOK, IInv, StageInv, DeleteInv, DeleteLeavesNothing
<1>2. QED
  BY <1>1, TypeCorrect, InductiveInvariant, PTL

-----------------------------------------------------------------------------
(* What a step may never do to a row *)

\* The steps that write the document row or the chunk rows of d.
WritesRow(d) == \/ UploadInsert(d) \/ MarkProcessing(d) \/ Finalize(d)
                \/ ExtractMissing(d) \/ StepFails(d) \/ DeleteCommit(d)
                \/ TimeoutInTry(d) \/ TimeoutOutside(d)

\* No other step writes them.
LEMMA OnlyWriters ==
  ASSUME [Next]_vars, ~ \E d \in Docs : WritesRow(d)
  PROVE  UNCHANGED <<status, indexing, rows, deleted>>
<1> USE DEF docVars, indexVars
<1>1. ASSUME NEW d \in Docs, UploadSave(d)
      PROVE  UNCHANGED <<status, indexing, rows, deleted>>
  BY <1>1 DEF UploadSave
<1>2. ASSUME NEW d \in Docs, UploadDedup(d)
      PROVE  UNCHANGED <<status, indexing, rows, deleted>>
  BY <1>2 DEF UploadDedup
<1>3. ASSUME NEW d \in Docs, UploadJob(d)
      PROVE  UNCHANGED <<status, indexing, rows, deleted>>
  BY <1>3 DEF UploadJob
<1>4. ASSUME NEW d \in Docs, UploadEnqueue(d)
      PROVE  UNCHANGED <<status, indexing, rows, deleted>>
  BY <1>4 DEF UploadEnqueue
<1>5. ASSUME NEW d \in Docs, UploadFails(d)
      PROVE  UNCHANGED <<status, indexing, rows, deleted>>
  BY <1>5 DEF UploadFails
<1>6. ASSUME NEW d \in Docs, StartJob(d)
      PROVE  UNCHANGED <<status, indexing, rows, deleted>>
  BY <1>6 DEF StartJob
<1>7. ASSUME NEW d \in Docs, LoadDocument(d)
      PROVE  UNCHANGED <<status, indexing, rows, deleted>>
  BY <1>7 DEF LoadDocument
<1>8. ASSUME NEW d \in Docs, Extract(d)
      PROVE  UNCHANGED <<status, indexing, rows, deleted>>
  BY <1>8 DEF Extract
<1>9. ASSUME NEW d \in Docs, DropVectors(d)
      PROVE  UNCHANGED <<status, indexing, rows, deleted>>
  BY <1>9 DEF DropVectors
<1>10. ASSUME NEW d \in Docs, DropEntries(d)
      PROVE  UNCHANGED <<status, indexing, rows, deleted>>
  BY <1>10 DEF DropEntries
<1>11. ASSUME NEW d \in Docs, InsertVectors(d)
      PROVE  UNCHANGED <<status, indexing, rows, deleted>>
  BY <1>11 DEF InsertVectors
<1>12. ASSUME NEW d \in Docs, FlushRows(d)
      PROVE  UNCHANGED <<status, indexing, rows, deleted>>
  BY <1>12 DEF FlushRows, RowsFlushed
<1>13. ASSUME NEW d \in Docs, FinishCompleted(d)
      PROVE  UNCHANGED <<status, indexing, rows, deleted>>
  BY <1>13 DEF FinishCompleted
<1>14. ASSUME NEW d \in Docs, FinishFailed(d)
      PROVE  UNCHANGED <<status, indexing, rows, deleted>>
  BY <1>14 DEF FinishFailed
<1>15. ASSUME NEW d \in Docs, DbFails(d)
      PROVE  UNCHANGED <<status, indexing, rows, deleted>>
  BY <1>15 DEF DbFails
<1>16. ASSUME NEW d \in Docs, WorkerDies(d)
      PROVE  UNCHANGED <<status, indexing, rows, deleted>>
  BY <1>16 DEF WorkerDies
<1>17. ASSUME NEW d \in Docs, Requeue(d)
      PROVE  UNCHANGED <<status, indexing, rows, deleted>>
  BY <1>17 DEF Requeue
<1>18. ASSUME NEW d \in Docs, DeleteRead(d)
      PROVE  UNCHANGED <<status, indexing, rows, deleted>>
  BY <1>18 DEF DeleteRead
<1>19. ASSUME NEW d \in Docs, DeleteVectors(d)
      PROVE  UNCHANGED <<status, indexing, rows, deleted>>
  BY <1>19 DEF DeleteVectors
<1>20. ASSUME NEW d \in Docs, DeleteEntries(d)
      PROVE  UNCHANGED <<status, indexing, rows, deleted>>
  BY <1>20 DEF DeleteEntries
<1>21. ASSUME NEW d \in Docs, DeleteFails(d)
      PROVE  UNCHANGED <<status, indexing, rows, deleted>>
  BY <1>21 DEF DeleteFails
<1>22. ASSUME NEW d \in Docs, CancelRead(d)
      PROVE  UNCHANGED <<status, indexing, rows, deleted>>
  BY <1>22 DEF CancelRead
<1>23. ASSUME NEW d \in Docs, CancelCommit(d)
      PROVE  UNCHANGED <<status, indexing, rows, deleted>>
  BY <1>23 DEF CancelCommit
<1>24. ASSUME NEW s \in Servers, ServerDies(s)
      PROVE  UNCHANGED <<status, indexing, rows, deleted>>
  BY <1>24 DEF ServerDies
<1>27. ASSUME NEW d \in Docs, Return(d)
      PROVE  UNCHANGED <<status, indexing, rows, deleted>>
  BY <1>27 DEF Return
<1>25. CASE UNCHANGED vars
  BY <1>25 DEF vars
<1>26. QED
  BY <1>1, <1>2, <1>3, <1>4, <1>5, <1>6, <1>7, <1>8, <1>9, <1>10, <1>11, <1>12, <1>13, <1>14,
     <1>15, <1>16, <1>17, <1>18, <1>19, <1>20, <1>21, <1>22, <1>23, <1>24, <1>25, <1>27
     DEF WritesRow, Next, UploadNext, RunNext, Progress, DeleteNext, CancelNext

\* DocumentRepository.update skips deleted rows: whatever runs and handlers are
\* still under way, a deleted document stays deleted and its row as it was.
THEOREM DeletedForGood == Spec => DeletedStaysDeleted
<1>1. TypeOK /\ IInv /\ [Next]_vars =>
        [\A d \in deleted : d \in deleted' /\ status'[d] = status[d]
                                           /\ indexing'[d] = indexing[d]]_vars
  <2> SUFFICES ASSUME TypeOK, IInv, [Next]_vars, NEW e \in deleted
               PROVE  e \in deleted' /\ status'[e] = status[e] /\ indexing'[e] = indexing[e]
    OBVIOUS
  <2> USE DEF TypeOK, docVars, indexVars
  <2>a. e \in Docs /\ StageInv(e)
    BY DEF IInv
  <2>b. ASSUME NEW d \in Docs, WritesRow(d)
        PROVE  e \in deleted' /\ status'[e] = status[e] /\ indexing'[e] = indexing[e]
    <3>1. CASE UploadInsert(d)
      BY <2>a, <3>1 DEF StageInv, UploadInsert, UploadStep
    <3>2. CASE MarkProcessing(d)
      BY <2>a, <3>2 DEF MarkProcessing, RunStep, SetStatus, SetIndexing, RowMatches, Live
    <3>3. CASE ExtractMissing(d)
      BY <2>a, <3>3 DEF ExtractMissing, RecordFailure, SetStatus, RowMatches, Live
    <3>4. CASE Finalize(d)
      BY <2>a, <3>4 DEF Finalize, RunStep, PendingRows, SetStatus, SetIndexing, RowMatches, Live
    <3>5. CASE StepFails(d)
      BY <2>a, <3>5 DEF StepFails, Fault, RecordFailure, SetStatus, RowMatches, Live
    <3>6. CASE TimeoutInTry(d)
      BY <2>a, <3>6 DEF TimeoutInTry, Fault, SetStatus, SetIndexing, PendingRows, RowMatches, Live
    <3>7. CASE TimeoutOutside(d)
      BY <2>a, <3>7 DEF TimeoutOutside, Fault, SetStatus, SetIndexing, RowMatches, Live
    <3>8. CASE DeleteCommit(d)
      BY <3>8 DEF DeleteCommit, DelStep
    <3>9. QED
      BY <2>b, <3>1, <3>2, <3>3, <3>4, <3>5, <3>6, <3>7, <3>8 DEF WritesRow
  <2>c. QED
    BY <2>b, OnlyWriters
<1>2. QED
  BY <1>1, TypeCorrect, InductiveInvariant, PTL DEF Spec, DeletedStaysDeleted

\* process() returns early on an INDEXED document: no repeated run takes it
\* back, nor touches the chunk rows it published; a timeout between the commit
\* and the return leaves indexing_status and rows as they were published.
THEOREM IndexedForGood == Spec => IndexedIsFinal
<1>1. TypeOK /\ IInv /\ [Next]_vars =>
        [\A d \in Docs : status[d] = "indexed" =>
            /\ rows'[d] = rows[d]
            /\ \/ status'[d] = "indexed" /\ indexing'[d] = indexing[d]
               \/ LateTimeout(d)]_vars
  <2> DEFINE Stays(e) == /\ rows'[e] = rows[e]
                         /\ \/ status'[e] = "indexed" /\ indexing'[e] = indexing[e]
                            \/ LateTimeout(e)
  <2> SUFFICES ASSUME TypeOK, IInv, [Next]_vars, NEW e \in Docs, status[e] = "indexed"
               PROVE  Stays(e)
    OBVIOUS
  <2> USE DEF TypeOK, docVars, indexVars
  <2>a. /\ run[e] \notin Active
        /\ upload[e] \notin {"idle", "saved", "checked"}
        /\ indexing[e] = "indexed"
    BY DEF IInv, StageInv
  <2>b. ASSUME NEW d \in Docs, WritesRow(d)
        PROVE  Stays(e)
    <3>1. CASE UploadInsert(d)
      BY <2>a, <3>1 DEF StageInv, UploadInsert, UploadStep
    <3>2. CASE MarkProcessing(d)
      BY <2>a, <3>2 DEF Active, MarkProcessing, RunStep, SetStatus, SetIndexing, RowMatches, Live
    <3>3. CASE ExtractMissing(d)
      BY <2>a, <3>3 DEF Active, Unpublished, ExtractMissing, RecordFailure, SetStatus, RowMatches, Live
    <3>4. CASE Finalize(d)
      BY <2>a, <3>4 DEF Active, Unpublished, Finalize, RunStep, PendingRows, SetStatus, SetIndexing, RowMatches, Live
    <3>5. CASE StepFails(d)
      BY <2>a, <3>5 DEF Active, Unpublished, StepFails, Fault, RecordFailure, SetStatus, RowMatches, Live
    <3>6. CASE TimeoutInTry(d)
      <4>1. CASE d # e
        BY <3>6, <4>1 DEF TimeoutInTry, SetStatus, SetIndexing
      <4>2. CASE d = e
        <5>1. run[e] = "committed"
          BY <2>a, <3>6, <4>2 DEF Active, InTry, TimeoutInTry
        <5>2. UNCHANGED <<rows, indexing>> /\ faults' = faults + 1 /\ run'[e] = "returned"
          BY <3>6, <4>2, <5>1 DEF TimeoutInTry, Fault
        <5>3. status'[e] \in {"indexed", "failed"}
          BY <3>6, <4>2 DEF TimeoutInTry, SetStatus
        <5>4. QED
          BY <2>a, <5>1, <5>2, <5>3 DEF LateTimeout
      <4>3. QED
        BY <4>1, <4>2
    <3>7. CASE TimeoutOutside(d)
      BY <2>a, <3>7 DEF Active, TimeoutOutside, Fault, SetStatus, SetIndexing, RowMatches, Live
    <3>8. CASE DeleteCommit(d)
      BY <3>8 DEF DeleteCommit, DelStep
    <3>9. QED
      BY <2>b, <3>1, <3>2, <3>3, <3>4, <3>5, <3>6, <3>7, <3>8 DEF WritesRow
  <2>c. QED
    BY <2>b, OnlyWriters
<1>2. QED
  BY <1>1, TypeCorrect, InductiveInvariant, PTL DEF Spec, IndexedIsFinal
-----------------------------------------------------------------------------
(* Publication, in the runs that RQ's job_timeout never interrupts *)

\* Without timeouts the chunk rows of a live document are published by
\* _finalize alone, with both statuses, and nothing takes a status back.
LEMMA PublishStep ==
  ASSUME TypeOK, IInv, PublishedTogether, [Next]_vars, "timeout" \notin Faults
  PROVE  PublishedTogether'
<1> SUFFICES ASSUME NEW e \in Docs, (rows[e] # {} /\ e \notin deleted)'
             PROVE  (status[e] = "indexed" /\ indexing[e] = "indexed")'
  BY DEF PublishedTogether
<1> USE DEF TypeOK, docVars, indexVars
<1>1. /\ run[e] \in Active => status[e] \notin {"absent", "indexed"}
      /\ upload[e] = "checked" => status[e] = "absent"
  BY DEF IInv, StageInv
<1>2. rows[e] # {} /\ e \notin deleted => status[e] = "indexed" /\ indexing[e] = "indexed"
  BY DEF PublishedTogether
<1>3. ASSUME NEW d \in Docs, WritesRow(d)
      PROVE  (status[e] = "indexed" /\ indexing[e] = "indexed")'
  <2>1. CASE UploadInsert(d)
    BY <1>1, <1>2, <2>1 DEF UploadInsert, UploadStep
  <2>2. CASE MarkProcessing(d)
    BY <1>1, <1>2, <2>2 DEF MarkProcessing, RunStep, SetStatus, SetIndexing, RowMatches, Live,
                            Active
  <2>3. CASE Finalize(d)
    BY <1>1, <1>2, <2>3 DEF Finalize, RunStep, PendingRows, SetStatus, SetIndexing, RowMatches,
                            Live, Active, InTry, Unpublished
  <2>4. CASE ExtractMissing(d)
    BY <1>1, <1>2, <2>4 DEF ExtractMissing, RecordFailure, SetStatus, RowMatches, Live, Active,
                            InTry, Unpublished
  <2>5. CASE StepFails(d)
    BY <1>1, <1>2, <2>5 DEF StepFails, RecordFailure, SetStatus, RowMatches, Live, Active, InTry, Unpublished
  <2>6. CASE DeleteCommit(d)
    BY <1>2, <2>6 DEF DeleteCommit
  <2>7. ~ TimeoutInTry(d) /\ ~ TimeoutOutside(d)
    BY DEF TimeoutInTry, TimeoutOutside, Fault
  <2>8. QED
    BY <1>3, <2>1, <2>2, <2>3, <2>4, <2>5, <2>6, <2>7 DEF WritesRow
<1>4. QED
  BY <1>2, <1>3, OnlyWriters

\* A reader of the database never sees chunk rows of a document that is not
\* shown as INDEXED (_embed_and_index flushes, _finalize commits).
THEOREM PublicationIsAtomic ==
  ASSUME "timeout" \notin Faults
  PROVE  Spec => []PublishedTogether
<1>1. Init => PublishedTogether
  BY DEF Init, PublishedTogether
<1>2. TypeOK /\ IInv /\ PublishedTogether /\ [Next]_vars => PublishedTogether'
  BY PublishStep
<1>3. QED
  BY <1>1, <1>2, TypeCorrect, InductiveInvariant, PTL DEF Spec

\* Every step of an upload, run or delete is a step of the life a client is
\* promised, or changes nothing a client sees.
LEMMA StepSimulates ==
  ASSUME TypeOK, IInv, [Next]_vars, "timeout" \notin Faults
  PROVE  [Lifecycle!Next]_(Lifecycle!vars)
<1> USE DEF TypeOK, docVars, indexVars, PhaseOf
<1>1. ASSUME NEW d \in Docs, WritesRow(d) PROVE [Lifecycle!Next]_(Lifecycle!vars)
  <2>a. /\ upload[d] = "checked" => status[d] = "absent" /\ d \notin deleted
        /\ d \in deleted <=> del[d] = "done"
        /\ del[d] # "idle" => status[d] # "absent"
        /\ run[d] \in Active => status[d] # "absent"
        /\ (run[d] = "loaded" /\ d \notin deleted) => status[d] \in {"uploaded", "failed"}
        /\ (run[d] \in Unpublished /\ d \notin deleted) => status[d] = "processing"
    BY DEF IInv, StageInv
  <2>1. CASE UploadInsert(d)
    <3>1. Lifecycle!Accept(d)
      BY <2>a, <2>1 DEF UploadInsert, UploadStep, Lifecycle!Accept
    <3>2. QED
      BY <3>1 DEF Lifecycle!Next
  <2>2. CASE MarkProcessing(d)
    <3>1. CASE d \in deleted
      BY <2>2, <3>1 DEF MarkProcessing, RunStep, SetStatus, RowMatches, Live, Lifecycle!vars
    <3>2. CASE d \notin deleted
      <4>1. Lifecycle!Begin(d)
        BY <2>a, <2>2, <3>2 DEF MarkProcessing, RunStep, SetStatus, RowMatches, Live, Active,
                                Lifecycle!Begin
      <4>2. QED
        BY <4>1 DEF Lifecycle!Next
    <3>3. QED
      BY <3>1, <3>2
  <2>3. CASE Finalize(d)
    <3>1. CASE d \in deleted
      BY <2>3, <3>1 DEF Finalize, RunStep, SetStatus, RowMatches, Live, Lifecycle!vars
    <3>2. CASE d \notin deleted
      <4>1. Lifecycle!Publish(d)
        BY <2>a, <2>3, <3>2 DEF Finalize, RunStep, SetStatus, RowMatches, Live, InTry, Unpublished,
                                Lifecycle!Publish
      <4>2. QED
        BY <4>1 DEF Lifecycle!Next
    <3>3. QED
      BY <3>1, <3>2
  <2>4. CASE ExtractMissing(d) \/ StepFails(d)
    <3>0. /\ run[d] \in Unpublished /\ SetStatus(d, "failed")
          /\ UNCHANGED <<deleted, rows>>
      BY <2>4 DEF ExtractMissing, StepFails, RecordFailure, InTry, Unpublished
    <3>1. CASE d \in deleted
      BY <3>0, <3>1 DEF SetStatus, RowMatches, Live, Lifecycle!vars
    <3>2. CASE d \notin deleted
      <4>1. Lifecycle!Fail(d)
        BY <2>a, <3>0, <3>2 DEF SetStatus, RowMatches, Live, InTry, Unpublished, Lifecycle!Fail
      <4>2. QED
        BY <4>1 DEF Lifecycle!Next
    <3>3. QED
      BY <3>1, <3>2
  <2>5. CASE DeleteCommit(d)
    <3>1. Lifecycle!Remove(d)
      BY <2>a, <2>5 DEF DeleteCommit, DelStep, DocStatus, Lifecycle!Remove, Lifecycle!LiveP
    <3>2. QED
      BY <3>1 DEF Lifecycle!Next
  <2>6. ~ TimeoutInTry(d) /\ ~ TimeoutOutside(d)
    BY DEF TimeoutInTry, TimeoutOutside, Fault
  <2>7. QED
    BY <1>1, <2>1, <2>2, <2>3, <2>4, <2>5, <2>6 DEF WritesRow
<1>2. QED
  BY <1>1, OnlyWriters DEF Lifecycle!vars

\* Ingestion implements DocumentLifecycle.
THEOREM Implementation ==
  ASSUME "timeout" \notin Faults
  PROVE  Spec => ImplementsLifecycle
<1>1. Init => Lifecycle!Init
  BY DEF Init, Lifecycle!Init, PhaseOf
<1>2. TypeOK /\ IInv /\ [Next]_vars => [Lifecycle!Next]_(Lifecycle!vars)
  BY StepSimulates
<1>3. QED
  BY <1>1, <1>2, TypeCorrect, InductiveInvariant, PTL
     DEF Spec, ImplementsLifecycle, Lifecycle!Spec
-----------------------------------------------------------------------------
(* Runs that settle, when only steps of the ingestion or the push to Redis
   fail *)

OnlySteps == Faults \subseteq {"step", "redis"}

\* A run has not yet begun to process, or is inside the try block, or has left
\* it with an end state of its document; it raises only for a document that is
\* gone, and the job of a run that is over has an end state.
SettleInv(e) ==
    /\ run[e] # "rqfailed"
    /\ run[e] \in {"none", "queued", "started"} => status[e] # "processing"
    /\ (run[e] \in {"returned", "over"} /\ Live(e)) => status[e] \in {"indexed", "failed"}
    /\ run[e] = "raised" => ~ Live(e)
    /\ run[e] = "over" => job[e] \in TerminalJob

\* Every step keeps runs and jobs on their way to an end.
LEMMA SettleStep ==
  ASSUME TypeOK, IInv, OnlySteps, [Next]_vars, NEW e \in Docs, SettleInv(e)
  PROVE  SettleInv(e)'
<1> USE ConstantsAssumption DEF docVars, indexVars, SettleInv, TerminalJob, Live, Active, InTry, Unpublished, InDelete, InUpload, Running
<1>1. StageInv(e) /\ SettleInv(e)
  BY DEF IInv
<1>2. SettleInv(e)'
  <2> USE <1>1 DEF TypeOK, StageInv, OnlySteps, Fault, DocStatus
  <2>1. ASSUME NEW d \in Docs, UploadSave(d) PROVE SettleInv(e)'
    BY <2>1 DEF UploadSave, UploadStep
  <2>2. ASSUME NEW d \in Docs, UploadDedup(d) PROVE SettleInv(e)'
    BY <2>2 DEF UploadDedup, UploadStep
  <2>3. ASSUME NEW d \in Docs, UploadInsert(d) PROVE SettleInv(e)'
    BY <2>3 DEF UploadInsert, UploadStep
  <2>4. ASSUME NEW d \in Docs, UploadJob(d) PROVE SettleInv(e)'
    BY <2>4 DEF UploadJob, UploadStep
  <2>5. ASSUME NEW d \in Docs, UploadEnqueue(d) PROVE SettleInv(e)'
    BY <2>5 DEF UploadEnqueue, UploadStep
  <2>6. ASSUME NEW d \in Docs, UploadFails(d) PROVE SettleInv(e)'
    BY <2>6 DEF UploadFails, Fault
  <2>7. ASSUME NEW d \in Docs, StartJob(d) PROVE SettleInv(e)'
    BY <2>7 DEF StartJob, RunStep
  <2>8. ASSUME NEW d \in Docs, LoadDocument(d) PROVE SettleInv(e)'
    BY <2>8 DEF LoadDocument, RunStep, Live, Reprocessable, DocStatus
  <2>9. ASSUME NEW d \in Docs, MarkProcessing(d) PROVE SettleInv(e)'
    BY <2>9 DEF MarkProcessing, RunStep, SetStatus, SetIndexing, RowMatches, Live
  <2>10. ASSUME NEW d \in Docs, Extract(d) PROVE SettleInv(e)'
    BY <2>10 DEF Extract, RunStep, AfterExtract
  <2>11. ASSUME NEW d \in Docs, ExtractMissing(d) PROVE SettleInv(e)'
    BY <2>11 DEF ExtractMissing, RecordFailure, SetStatus, RowMatches, Live
  <2>12. ASSUME NEW d \in Docs, DropVectors(d) PROVE SettleInv(e)'
    BY <2>12 DEF DropVectors, RunStep, VectorsWithout
  <2>13. ASSUME NEW d \in Docs, DropEntries(d) PROVE SettleInv(e)'
    BY <2>13 DEF DropEntries, RunStep, EntriesWithout
  <2>14. ASSUME NEW d \in Docs, InsertVectors(d) PROVE SettleInv(e)'
    BY <2>14 DEF InsertVectors, RunStep, VectorsWith
  <2>15. ASSUME NEW d \in Docs, FlushRows(d) PROVE SettleInv(e)'
    BY <2>15 DEF FlushRows, RunStep, AddEntries, EntriesWith, RowsFlushed
  <2>16. ASSUME NEW d \in Docs, Finalize(d) PROVE SettleInv(e)'
    BY <2>16 DEF Finalize, RunStep, PendingRows, SetStatus, SetIndexing, RowMatches, Live
  <2>17. ASSUME NEW d \in Docs, FinishCompleted(d) PROVE SettleInv(e)'
    BY <2>17 DEF FinishCompleted, RunStep, JobResult
  <2>18. ASSUME NEW d \in Docs, FinishFailed(d) PROVE SettleInv(e)'
    BY <2>18 DEF FinishFailed, RunStep
  <2>19. ASSUME NEW d \in Docs, StepFails(d) PROVE SettleInv(e)'
    BY <2>19 DEF StepFails, Fault, RecordFailure, SetStatus, RowMatches, Live
  <2>20. ASSUME NEW d \in Docs, DbFails(d) PROVE SettleInv(e)'
    BY <2>20 DEF DbFails, Fault, Stopped, AddEntries, EntriesWith
  <2>21. ASSUME NEW d \in Docs, TimeoutInTry(d) PROVE SettleInv(e)'
    BY <2>21 DEF TimeoutInTry, Fault, SetStatus, SetIndexing, PendingRows, RowMatches, Live
  <2>22. ASSUME NEW d \in Docs, TimeoutOutside(d) PROVE SettleInv(e)'
    BY <2>22 DEF TimeoutOutside, Fault, SetStatus, SetIndexing, RowMatches, Live
  <2>23. ASSUME NEW d \in Docs, WorkerDies(d) PROVE SettleInv(e)'
    BY <2>23 DEF WorkerDies, Fault
  <2>24. ASSUME NEW d \in Docs, Requeue(d) PROVE SettleInv(e)'
    BY <2>24 DEF Requeue, RunStep
  <2>25. ASSUME NEW d \in Docs, DeleteRead(d) PROVE SettleInv(e)'
    BY <2>25 DEF DeleteRead, Live
  <2>26. ASSUME NEW d \in Docs, DeleteVectors(d) PROVE SettleInv(e)'
    BY <2>26 DEF DeleteVectors, DelStep, VectorsWithout
  <2>27. ASSUME NEW d \in Docs, DeleteEntries(d) PROVE SettleInv(e)'
    BY <2>27 DEF DeleteEntries, DelStep, EntriesWithout
  <2>28. ASSUME NEW d \in Docs, DeleteCommit(d) PROVE SettleInv(e)'
    BY <2>28 DEF DeleteCommit, DelStep
  <2>29. ASSUME NEW d \in Docs, DeleteFails(d) PROVE SettleInv(e)'
    BY <2>29 DEF DeleteFails, Fault, EntriesWithout
  <2>30. ASSUME NEW d \in Docs, CancelRead(d) PROVE SettleInv(e)'
    BY <2>30 DEF CancelRead
  <2>31. ASSUME NEW d \in Docs, CancelCommit(d) PROVE SettleInv(e)'
    BY <2>31 DEF CancelCommit
  <2>32. ASSUME NEW s \in Servers, ServerDies(s) PROVE SettleInv(e)'
    BY <2>32 DEF ServerDies, Fault
  <2>35. ASSUME NEW d \in Docs, Return(d) PROVE SettleInv(e)'
    BY <2>35 DEF Return, RunStep
  <2>33. CASE UNCHANGED vars
    BY <2>33 DEF vars
  <2>34. QED
    BY <2>1, <2>2, <2>3, <2>4, <2>5, <2>6, <2>7, <2>8, <2>9, <2>10, <2>11, <2>12, <2>13,
       <2>14, <2>15, <2>16, <2>17, <2>18, <2>19, <2>20, <2>21, <2>22, <2>23, <2>24,
       <2>25, <2>26, <2>27, <2>28, <2>29, <2>30, <2>31, <2>32, <2>33, <2>35
       DEF Next, UploadNext, RunNext, Progress, DeleteNext, CancelNext
<1>3. QED
  BY <1>2

\* A run that is over has settled its document and its job, whatever a cancel,
\* a delete or a second upload did meanwhile, if no fault but an exception of a
\* step or a failed push occurs.
THEOREM RunsSettle ==
  ASSUME Faults \subseteq {"step", "redis"}
  PROVE  Spec => []SettledWhenOver
<1> DEFINE SInv == \A e \in Docs : SettleInv(e)
<1>1. Init => SInv
  BY DEF Init, SettleInv, Live
<1>2. TypeOK /\ IInv /\ SInv /\ [Next]_vars => SInv'
  <2> SUFFICES ASSUME TypeOK, IInv, SInv, [Next]_vars, NEW e \in Docs PROVE SettleInv(e)'
    OBVIOUS
  <2> QED
    BY SettleStep DEF OnlySteps
<1>3. SInv => SettledWhenOver
  BY DEF SettleInv, SettledWhenOver
<1> HIDE DEF SInv
<1>4. QED
  BY <1>1, <1>2, <1>3, TypeCorrect, InductiveInvariant, PTL DEF Spec
=============================================================================
