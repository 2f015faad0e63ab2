# Verification of the RAG platform

TLA+ models of the document-intelligence / RAG platform in this repository
(`src/backend/ultimate_rag`, `src/frontend/src`), the TLC configurations that
check them on small instances, and TLAPS proofs of the results that hold for
every instance. Paths below are relative to `src/backend/ultimate_rag/` unless
they start with `src/` or `docs/`.

    tlc -workers 2 -config Ingest_inline.cfg MCIngestion.tla     # one run
    tlapm IngestionProofs.tla                                    # one set of proofs

`PROJECT.json` lists the runs, for every property a mutation of the modelled
code that it detects, the source lines of every definition, the finding, the
hazards and the theorems.

## 1. The system and its parts

The program is an API server (FastAPI, one asyncio event loop per uvicorn
process, `--workers 2` in deployment), optional RQ worker processes, and a
React client. Processes share a SQL database, a vector store, file storage and
Redis; everything else is per process.

| Component | State it keeps | Operations | Interacts with | Where it is hard |
|---|---|---|---|---|
| Documents API (`api/routes/docs.py`) | `documents` rows | upload, list, delete | file storage, job runner, vector store, BM25 | four stores changed one after another, no transaction over them; check-then-insert of the content hash |
| Jobs API (`api/routes/jobs.py`) | `jobs` rows | read, cancel | the runner writes the same column | stale check before the write |
| Runners (`jobs/runner.py`, `jobs/queue_runner.py`, `jobs/worker.py`) | asyncio tasks, RQ queue | enqueue, execute, requeue | ingestion pipeline | crashes, RQ timeouts, lost pushes, a semaphore per request |
| Ingestion pipeline (`ingestion/pipeline.py`) | document status, chunk rows, vectors, BM25 entries | process | all stores | a failure between any two stores; a delete in between |
| BM25 index (`retrieval/bm25.py`) | per-tenant postings, frequencies, counts | add_chunks, delete_document, search | written by the event loop, read by search threads | reads outside the lock |
| Rate limiter (`core/rate_limit.py`) | time stamps per route and client | check, retry_after | every request | window boundary, whole-second rounding, identity of the client |
| Query service (`generation/query_service.py`, chat and search routes) | conversation, messages, query, evidence rows | answer, stream_answer | retrieval, LLM, verification | one transaction over a long conversation with a model; disconnects |
| Browser session (`src/frontend/src/api.ts`, `hooks/useAuth.tsx`) | stored tokens, shown user, waiting requests | login, logout, refresh, retry | auth routes | many requests meeting one expired token |
| Accounts (`api/routes/auth.py`, `auth/`) | `tenants`, `users` rows | register, login, refresh | database | check-then-insert without a unique key |
| Chat page (`src/frontend/src/pages/Chat.tsx`) | shown messages, the flag isStreaming, queued updates | send, retry, stop, new chat, read a stream | chat routes | stale closures, frames that end late, a stream nobody stops |
| Query transformation (`retrieval/query_transform/`) | nothing | transform | retrieval | what counts as a new variant |
| Retrieval (`retrieval/pipeline.py`, `fusion`, `dedup`, `compression`, `reranker`, `dense`) | nothing between requests | retrieve | BM25, vector store, embeddings | gathered searches that fail one by one, order of their results, rows that go away meanwhile |
| Answers (`generation/answer_builder.py`, `generation/providers/`) | nothing | build, stream | query service, LLM | texts loaded twice, streams that break |
| Verification (`verification/guard.py`) | nothing | verify | query service | thresholds, empty inputs |
| Chunker (`ingestion/chunker.py`), extractor, validator | nothing | chunk_document, extract, validate | pipeline | flushes with a kept tail, size limits |
| Embeddings, caches | nothing that the program uses between calls | embed_chunks | pipeline, retrieval | retries per batch |
| Vector stores (`vecstore/providers/`) | a dictionary, a table, or a collection with its log | create, insert, delete, search | pipeline, documents API, retrieval | upserts nobody waits for, threads that outlive their caller, a collection made twice |
| File storage, database repositories | the shared stores | insert, delete, read | pipeline, documents API | what is committed when |
| Container, configuration, logging, metrics, health, settings, evaluation, other pages of the frontend, deployment | wiring | – | – | – |

What makes them correct, in short: an INDEXED document is whole and stays so; a
delete is final and leaves nothing; every job ends and tells what happened; a
search sees only what was indexed for its tenant; no client exceeds its limit
and none is refused for others; an answered question is remembered; a session
belongs to one user and no request is lost in a refresh; chunks hold all the
text and cite the section it stands in; one failing search costs its own hits
only; the verdict on an answer rests on the texts the model was given; an
account is one per address; a deleted vector is never found again; an answer is
shown under its own question.

## 2. Modules

| Module | Models | Its checks | Proofs |
|---|---|---|---|
| `DocumentLifecycle` | abstract: what the documents API promises about one document | implemented by `Ingestion` | – |
| `Ingestion` (`MCIngestion`) | docs.py, jobs.py, runners, `process()`, the stores as they use them | `Ingest_*` | `IngestionProofs` |
| `BM25Index` (`MCBM25Index`) | retrieval/bm25.py, one process, writers and searching threads | `BM25_search` | `BM25IndexProofs` |
| `RateLimiter` (`MCRateLimiter`) | core/rate_limit.py, one process | `Rate_limit` | `RateLimiterProofs` |
| `QueryService` (`MCQueryService`) | one question as a database transaction | `Says_history` | – |
| `BrowserSession` (`MCBrowserSession`) | api.ts and useAuth.tsx of one tab, the token side of auth.py | `Browser_session` | `FrontendProofs` |
| `Chunker` | ingestion/chunker.py, every loop of `chunk_document` | `Chunk_embed` | `ChunkerProofs` |
| `EmbedBatches` (`MCEmbedBatches`) | `Chunker`, then ingestion/embeddings_batch.py over its segments | `Chunk_embed` | `ChunkerProofs` |
| `QueryTransform` | operators: retrieval/query_transform/transformer.py | used by `Retrieval` | `AnswerStreamProofs` |
| `Retrieval` | retrieval/pipeline.py with fusion, dedup, compression, reranker | `Answer_path` | `AnswerStreamProofs` |
| `VerificationGuard` | operators: verification/guard.py | used by `Answering` | `AnswerStreamProofs` |
| `Answering` | `Retrieval`, then generation/answer_builder.py and the guard over one context | `Answer_path` | `AnswerStreamProofs` |
| `AnswerStream` (`MCAnswering`) | `Answering`, and `stream_answer` over the lines of a provider | `Answer_path` | `AnswerStreamProofs` |
| `Evaluation` | operators: the metrics of evaluation/ and the strategies of its ablation, over the lists of `Retrieval` | `Answer_path` | `AnswerStreamProofs` |
| `Accounts` (`MCAccounts`) | register and login of api/routes/auth.py as transactions | `Accounts` | `AccountsProofs` |
| `VectorStores` (`MCVectorStores`) | vecstore/providers: in_memory, pgvector, qdrant | `Vector_store` | `VectorStoresProofs` |
| `ChatPage` (`MCChatPage`) | pages/Chat.tsx with React's queued updates | `Chat_page` | `FrontendProofs` |

`EmbedBatches` composes the chunker with the embedding of its output, and
`Answering` and `AnswerStream` compose transformation, retrieval, generation and
verification, so their properties speak about the segments and contexts the
earlier steps really make. `Ingestion` has the vector store and BM25 as its
callers use them; `VectorStores` and `BM25Index` are those components seen from
inside.

Operators marked "Variant" in a comment are plausible errors in the definition
that follows; no step uses them. They are what the mutations in `PROJECT.json`
put in place.

### Ingestion

One upload request makes at most one document and one job, so `Docs` names all
three. A handler or run is a program counter (`upload`, `del`, `run`) and its
actions are its steps; a step ends where the code awaits something that another
process can observe: a commit, a write of the vector store, a task switch.

* `UploadSave`, `UploadDedup`, `UploadInsert`, `UploadJob`, `UploadEnqueue` are
  the awaits of `upload_document` in their order; `UploadFails` is an exception
  at each of them.
* `StartJob` ... `FinishFailed` are `_execute_ingestion_job` or the RQ job.
  `SlotFree` is the semaphore of a runner that lives as long as its request
  (`RunnerOf`), or the worker count.
* `LoadDocument` ... `Finalize`, `Return` are `IngestionPipeline.process`;
  `RecordFailure` is its `except` clause, used by `ExtractMissing`, `StepFails`
  and, in the form that commits flushed rows, `TimeoutInTry`. The `try` block
  goes on after the commit of `_finalize` (`committed`), up to the return.
* `DbFails` is a database statement that raises and leaves the session unusable;
  `WorkerDies`, `ServerDies`, `Requeue`, `TimeoutOutside` are the rest of what
  can befall a run.
* `DeleteRead` ... `DeleteFails` and `CancelRead`, `CancelCommit` are the two
  DELETE handlers.

Vectors and chunk rows are represented by the attempts of the ingestion they
come from, BM25 entries by the documents in the index of each API process. Which
fault kinds a behaviour contains is the constant `Faults`.

`DocumentLifecycle` has one step per event a client can observe, chunk rows
included: they appear with INDEXED and at no other moment. `ImplementsLifecycle`
is the refinement, with `PhaseOf` and `rows` as the mapping.

### BM25Index

Writers are one thread (the event loop), and `add_chunk` and `delete_document`
hold the lock, so each is one action. A search copies the chunk table under the
lock (`Snapshot`) and then reads postings and frequencies that it holds by
reference: one `Enter` and one `Collect` or `Score` per term and pass, between
which any write may happen. `Yields` is what an iteration over a dict may have
produced that was changed meanwhile and not stopped by a change of its size:
CPython walks the entries by index, and a deletion and an insertion may move
them, so it need not yield all that is there. `held` is what the dict had when the iteration
began, `ever` all it has had since. Scores keep their sign only.

### RateLimiter

The middleware does not await between check and answer: a request is one action,
`Admit` or `Refuse`. A time stamp in a bucket is named by its request's position
in the history `log`, so that the properties can speak about requests while the
code's arithmetic on stamps stays what it is. `promised` is history for the
Retry-After property. `Rounded` is Python's `round` to an even half.

### QueryService

`Resolve`, `AddQuestion`, `Generate`, `AddAnswer`, `Evidence` are the flushes of
`answer` and `stream_answer`; `Abandon` is an exception or a disconnect; `Close`
ends the session of the request, which rolls back what nobody committed.

### BrowserSession

A handler up to its next await is one action. `call` holds the open requests
(sent, waiting in `pendingRequests`, or awaiting `/auth/refresh`), `store` is
localStorage, `user` is the React state. Tokens carry their owner and the number
of the pair; the server expires them in order of issue.

### Chunker and EmbedBatches

A text is a sequence of pieces (the part of a line that belongs to one
sentence), and every segment the code makes is a run of them: its first and last
piece stand for it, and its length follows from their columns. `buffer` is the
list of lines of the closure in `chunk_page`, with `tail` the line that a flush keeps
(chunker.py:116); `split` is the state of `_split_large`, `group` that of
`make_parents`: a parent is a run of children, and `ParentSegment` what its
segment says of itself. `GroupWidth` is the sum the code compares,
`ParentWidth` the length of the text it then makes. `ReadLine` chooses the next line, so a run meets every
document within the bounds. `_is_heading` is given by the set `Headings`.
`Embed` and `EmbedRaises` are one attempt each at a batch; a vector is the
number of its text.

### Retrieval, Answering, AnswerStream

One request is one value of `stage`. `EmbedFails`, `SearchBoth`, `SearchOne`,
`SearchExpanded`, `SearchMulti` are the `gather` calls of `retrieve`: each
search returns some ranked list or `Failed`. `FuseCandidates` is RRF in integers
(`Scale` is a common multiple of the denominators), `Hydrate`, `Rerank`,
`CompressContext` are what follows. `RowDeleted` is somebody else's delete
between any two steps. `settings` holds the switches a request starts with.
Compression compares beginnings (`BeginningOf`, `Alike`): 80 characters in lower
case. Scores are ten-thousandths, since the guard rounds to them (`Rounded`).
`Reload` is the second loading of texts in `build_answer`; `Generate` and the
actions of `AnswerStream` (`Piece`, `Skip`, `LastLine`, `StreamFails`, `Done`)
are the two ways to an answer. A line of a reply is a piece, or blank, or one that
does not parse, that says the model failed, or that has no choice in it.
`named` is FALSE for the code as it is: neither `ollama.py` nor
`openai_compat.py` binds the name httpx, so building those providers raises
(`ProviderFails`). TRUE is the code with the import added, without which their
streams could not be looked at. The run has both (`Providers`). `Verify` and `VerifyStream` call the guard with
citation scores and without, as the two callers do. `VerificationGuard` has the
token overlap of a claim and a text as the constant `Overlap`, and what an NLI
model returns for them as `Predicted`; `Judged` chooses between the two
(`settings.nli`: the model is off, loaded, or missing and the overlap stands in).
Every loop that appends what fits to a list (new variants, distinct ids,
compression, the pieces of a reply) is `Filtered`.

`Evaluation` has no state of its own: its operators score the lists that the
two searches of a request have returned, the four ways `run_ablation` does.

### Accounts

A request is a program counter over the look-ups and inserts of the two
handlers. `Visible` is read-committed: committed rows and the request's own. An
insert of a tenant waits while another open transaction has inserted the same
name, and fails when that one commits (`InsertTenant`); e-mails are not unique in the
schema (db/models.py). `Drop` ends a transaction at any point. `met` and `known` are
history.

### VectorStores

A request of a client is `sent`, with Qdrant `logged`, `done`, then answered.
`Commit` is the end of a pgvector transaction, `Receive` and `Apply` are the two
sides of Qdrant's log (upserts are answered when received, wait=False; deletes
when applied). `GiveUp` is a time-out or cancellation: `asyncio.to_thread` goes
on, so the request may be `adrift` and take effect with `Land` at any later
time. `Die` kills a process with its calls and its dictionary. `CollectionMissing` and
`Recreate` are the two halves of Qdrant's `acreate_collection`. Apply and Die
are external.

### ChatPage

React's state setters queue updates (`pending`), which `Render` applies in
order; a click renders first. `turn` holds the locals of each `sendMessage`: what
was received, whether the answer was created, the frame that waits. A closure
reads the state of the render it was made in (`conv`), an updater that of the
moment it is applied (`Apply`). `Leave` unmounts the page: nothing aborts its
stream, whose turn is then in `left`; it is read on, what it sets is lost, and
its done event still navigates (`Done`). `Return` mounts a fresh page, which may
ask beside it. `Under` is what is under way on the page that is mounted.

## 3. Runs

| Run | Instance | Shows |
|---|---|---|
| `Ingest_inline` | 1 document, 2 API processes (upload served by one, delete by the other), inline tasks, up to 3 faults of any kind | an INDEXED document is whole; a delete that raced no run leaves nothing; chunk rows appear with INDEXED only; a deleted document stays deleted; the lifecycle is implemented |
| `Ingest_queue` | 1 document, 1 API process, 1 RQ worker, up to 3 faults of any kind | the same for completeness with RQ timeouts, worker deaths and requeues, and an INDEXED document is taken back by one thing only, a timeout between the commit that publishes it and the return |
| `Ingest_settles` | 2 uploads of the same bytes, one without text, 1 worker, at most one exception of a step | every scheduled run settles its document and its job, and a cancel cannot keep a job from an end state |
| `BM25_search` | 2 tenants, 3 documents, 5 chunks in 4 runs, 2 terms, 1 searching thread | the maps agree; a KeyError takes chunks added and documents deleted during the search; an undisturbed search is exact; a disturbed one fails only because of its own tenant and never reports another tenant's chunk |
| `Rate_limit` | 2 users behind 1 address, 2 categories with limit 2, time 0..6 with a window of 3 ticks (2 ticks are a second), 3 admitted requests, restarts | no window exceeds the limit; nobody is refused for others; Retry-After plus half a second suffices |
| `Browser_session` | 2 accounts, 3 open requests (reused), 2 token pairs | the stored pair is the shown user's unless a logout or login met a refresh; one refresh at a time and nobody waits for none; every request settles |
| `Chunk_embed` | every document of at most 4 lines on 2 pages: 2 headings, blank, short, long, unfinished and two-sentence lines; chunk size 8, parent size 16; batches of 2 tried twice | no text is lost; a child cites its own page and section, a parent its section and the page it begins on; overlap is one unit and does not add up; a child too long is one sentence and its overlap; parents partition children and end only where they must; vectors match texts |
| `Answer_path` | 3 chunks, 2 of whose texts begin alike; every choice of retrievers with expansion or paraphrases; 3 scores, one below the least; each search may fail; answers of 2 claims given at once, by `stub`, or streamed, by each of the 4 providers, in replies of 3 or 4 lines with each kind of line; `ollama` and `openai` both as they are and with httpx imported | a failed search costs its own hits; the context is distinct, ranked and full; the verdict follows the texts of the prompt; a streamed answer that was declared done is whole, but for the garbled pieces openai drops and the failures both read over; the four strategies of the ablation are scored on lists of the same searches without repetitions |
| `Accounts` | 4 requests of 5 payloads over 2 tenant names and 2 addresses, transactions cut off anywhere | one tenant per name; duplicate users only after overlapping registrations; replies are true |
| `Vector_store` | each provider, 2 processes with a client each, 2 rows of 2 documents of 2 tenants, 1 death or call given up | deleted rows are not found again; answered rows are kept and found |
| `Chat_page` | 2 questions, answers of up to 2 tokens, the page left and opened again at any time | answers stand under their questions; a page reads one stream of its own at a time; it never stays busy |

`Says_history` is the one run that fails, and is to: README.md:19 promises
"Conversation memory with full history persistence", and TLC shows an answered
question that leaves nothing in the database, since the session is closed
without a commit.

The passing runs switch deadlock checking off where the system may stop (all
uploads handled, the request over, the index written, the user idle);
`Rate_limit` and `Vector_store` keep it on.

Why the bounds suffice. Documents meet only in the dedup check, in the worker
slots and in the BM25 index of a process (`EntriesWithout` already contains the
reset another document causes), so one document with all faults and two with few
cover the interactions. Three faults allow a failed run, a failed repetition
and a crash of the delete in one behaviour. In BM25Index three documents and
one with two runs are needed for the reset comparison (equal numbers of chunks
left and removed) and for stale postings; readers never see each other, so one
suffices. In RateLimiter the third admitted request is the first that can exceed
a limit of 2, and seven instants are two windows. In BrowserSession a third
request is the first that can wait beside another waiting one, and the second
token pair is the refreshed one; a login into another account during a refresh
sets `raced`, where nothing is claimed. In Chunker four lines are enough for a
flush that keeps a tail, a second flush of that tail, and a heading or page end
after it; the lengths are chosen on both sides of the chunk size. In
Answer_path two chunks that begin alike and a third are the least that fusion,
deduplication and the cut can disagree on, and requests share nothing but the
rows. Two overlapping registrations, the one whose tenant they find, and a login
are the four requests of Accounts (symmetric, so no other number of duplicates
adds a case). In VectorStores a call that is given up, the delete that follows
and the search after both need two clients and one fault. In ChatPage the
second question is the first that an old update, or the stream of a page that
was left, could reach; the second token is the first that waits for a frame.

## 4. Fairness

* `Ingestion`: weak fairness of the next step of a request that has begun, of a
  scheduled run, and of a commit that was begun: asyncio runs every ready task
  and a worker polls its queue. No fairness for clients, faults, or the
  operator's requeue.
* `BrowserSession`: every request sent is answered or fails. Axios' timeout of
  120 s justifies it for ordinary calls. `/auth/refresh` is sent by the bare
  `axios` without a timeout, so for it this is an assumption about the network.
  A bounded number of token pairs also means that tokens do not expire between
  every answer and its retry for ever, and that the requests of a refused
  account, each of which refreshes once, do not keep one another waiting for
  ever.
* `ChatPage` (`PageFairness`, in `FairPageSpec` only; the proofs are about
  `PageSpec`, without it): queued updates are rendered; a request is answered or canceled
  (axios' timeout), and a stream that is being read ends (the generator of an
  answer is finite). No fairness for the user, tokens or frames.

## 5. What is proved

All proofs are for arbitrary constants that meet the named ASSUMEs.

`IngestionProofs`. `TypeCorrect` first. The inductive invariant `IInv` joins the
type invariant with three parts:

* `StageInv` relates the program counters to what has been committed: a run
  inside `process` belongs to a document at PROCESSING or to a deleted one, a
  document is `absent` until its upload inserted it, and so on;
* `StoreInv` says what vectors and rows hold at each step of a run: nothing
  before the drop, exactly the present attempt after the insert;
* `DeleteInv` says what a delete has removed at each of its steps as long as no
  run of the document overlapped it (`raced`).

Neither safety property is inductive alone: that an INDEXED document is whole depends
on which step of which attempt wrote its vectors, and that a delete left nothing
depends on every run that might still be inside `process`. A run that has
committed and not returned (`committed`) is part of it: a timeout there writes
FAILED over INDEXED, and leaves `indexing_status`, vectors and rows as they were
published. From `IInv`:
`CompleteWhenIndexed` (which speaks of such documents too), `DeleteCleans`,
`DeletedForGood`, and `IndexedForGood`, whose one exception is that timeout. With
the assumption that RQ timeouts do not occur (`"timeout" \notin Faults`; a
timeout commits flushed rows together with FAILED), `PublicationIsAtomic` and
`Implementation`: initial states map to initial states and every step to a step
of `DocumentLifecycle` or a stutter.

`RunsSettle` (`SettledWhenOver`) is about every upload and run together: with
faults of steps and of pushes to Redis only (`Faults \subseteq {"step",
"redis"}`, the statement's hypothesis), a run that is over has a job in an end
state and a live document at INDEXED or FAILED. A database error, a worker that dies
or an RQ timeout leaves both at PROCESSING (section 6), so the hypothesis is
what the code allows.

`BM25IndexProofs`. `ConsistentIndex`: postings, frequencies and counts of a
tenant agree for any chunks, documents and tenants. The strengthening adds that
chunks still to be added are not yet indexed and belong to the run under way.
`SearchInvariant` follows every search beside the writers: its snapshot is a
copy of the tenant's table when it began, what it has collected and scored came
from postings that were right at that moment or were written since, and as long
as nobody wrote to its tenant (`raced`) all of it is still right. After writes
of one kind, additions or deletions, the candidates still cover every posting
that is left: a dict to which nothing was both added and taken away either
has another size, which stops the iteration, or is as it was. After both kinds
nothing of the sort holds, and the KeyError can happen. From it
`KeyErrorTakesBoth` (`KeyErrorNeedsBoth`), `QuietIsExact`, `FailureIsOwn` and
`GenuineReports`, for any number of searching threads.

`RateLimiterProofs`. `RateInvariant` is inductive: a bucket holds every admitted
request of its key that is at most a window old (`BucketInv`), all stamps are in
the past, and promises are kept apart by key. `NeverOverLimit`: no window of any
position exceeds the limit, although the limiter only ever looks back from
`now`. `RefusalIsDeserved`: a refused client had its limit admitted.
`RetryAfterSuffices` is the arithmetic of the header: an open promise names the
stamp it waits for, and rounding to whole seconds, half to even, loses half a
second at most.

`AccountsProofs`. The invariant says where a request at each step may have open
rows, that a request whose look-up found no user has met every open or later
request that could add the same one, and what each reply was based on.
Uniqueness of addresses is not an invariant of the rows: it holds only up to
`met`, and `met` has to be shown symmetric between requests that are open
together. From it `DuplicatesOverlapped` (`OneAccountPerAddress`) and
`RepliesTrue` (`RepliesAreFaithful`), for any number of requests, names,
addresses and passwords.

`VectorStoresProofs`. `DeletedStaysUnfound`: a search never finds a row deleted
before it began, for every provider and any number of processes, clients and
rows. The property says nothing about the log or about requests adrift, so it
is far from inductive. The invariant `IInv` follows a row: it is on its way in
one request at most (`SentOnce`), no longer once its insertion was answered, and a
delete that waits in Qdrant's log comes after every insert of the rows it answers for
(`Awaited`); a delete is therefore answered when its rows are on no way, in no
log and in no store (`Buried`), and no step brings a buried row back. `OwnParts`
separates the providers, `Finds` carries the claim over the steps of a search.
`AnsweredStays` (`AnsweredIsKept`) is the converse: an answered row is in a
store or still in the log, until something that may remove it was begun.

`ChunkerProofs` covers `Chunker` and `EmbedBatches` for any document, lines,
headings and sizes. There are five invariants, each on top of the ones before.
`IInv`: chunks, children and the buffer are runs of pieces read under one
heading of one page, and the state of `_split_large` is a run at the end of the
first chunk; it gives `TextIsKept`, `CitationsAreRight`, and with `EmbedInv`
`VectorsMatchTexts`. `RInv` adds the order of the runs, `LInv` their lengths (the
count of `_split_large` is that of the sentences it has taken, or one more):
`OverlapIsOneUnit` and `LengthIsBounded`. `OInv` orders the children by page
(`PagesInvariant`), from which `CitationsAreRight` has its part about parents:
they begin on the page they name. `GInv` is about `make_parents`:
`ParentsAreAPartition`, with the spaces between the children in the text of a
parent and the reason why each parent ended. Lengths of runs are sums, and sums are recursive
functions; what is needed of them is shown by a least counterexample, since
induction over a formula is not available.

`FrontendProofs` covers `BrowserSession` and `ChatPage`.

* The session. A refresh stores the tokens of the user it was started for, long
  after it read their token. The invariant follows the call that awaits
  `/auth/refresh`: it is the only one (`RefreshInv`), and while nothing raced
  with it its token is of the user shown (`OwnerInv`). `StoreIsShown`,
  `RefreshIsSingle`.
* The page. An update changes whatever answer is last when it is applied, not
  when it was queued, so nothing about the list shown is inductive by itself.
  `PageInv` says which turn the page is busy with, if any (`Serving`): all that
  waits in `pending` was queued by that turn, and the list ends where those
  updates belong, at its question, at its own answer, or empty since the chat
  was cleared. A page that is not busy has nothing pending, which is why the
  flag that refuses a second `handleSend` is enough on that page. It is not
  across pages: streams of pages that were left (`LooseStep`) go on, and the
  invariant shows that they reach nothing of what is shown but the route. `Sound` is what is then
  kept of every list: an answer holds an initial part of the tokens of the
  question above it, or of one that was cleared if it comes first. From it `AnswersStay` (`AnswersUnderQuestions`) and
  `StreamIsSingle` (`OneStream`, of the page that is mounted), for any number of
  questions and tokens.

`AnswerStreamProofs` covers `Retrieval`, `Answering`, `AnswerStream` and
`Evaluation`, for any collection, rankings, scores, claims and replies. Its first half is about
operators: `Filtered` (its function over the positions of a list is named by
`Filters`; what it keeps, in which order, and why the rest is left out), the
stable sort by ranks, fusion, concatenation of gathered lists, compression, and
the verdict. Induction is replaced by `UpTo`: a set of numbers that has 0 and
with n - 1 also n has every number up to a bound. Its second half has four
invariants: `Shape` (types, and the lines read so far), `Fusion` (until it is
fused, what was found is what is held, in the list of its own retriever),
`Evidence` (the texts of the prompt are the chunks' own or of deleted rows, and
the verdict is the one over them) and `Whole` (the client was given the pieces
of the lines that were read, all of which its provider gets past). From them `PartialFailures`
(`SearchFailureIsPartial`), `SoundContexts` (`ContextIsSound`, for
`FinalTop # 0`, since with 0 the code keeps a chunk),
`VerdictsRestOnEvidence` (`VerdictFollowsEvidence`) and `StreamsAreWhole`
(`StreamedAnswerIsWhole`). These three say what the code gives, its own
exceptions included: chunks that begin alike count as one; a claim may be
supported by no chunk when the threshold is 0 or less; a retrieval score of
0.7499 verifies, since the confidence is rounded to four decimals before it is
compared (`RoundedIs`); and a finished stream may lack the pieces its provider
reads over.

Its last part is the ablation, `AblationsAreComparable`
(`AblationIsComparable`). A list of one search has no chunk twice
(`SearchedOnce`, inductive), and no strategy brings a repetition in
(`RetrievedIs`). For such lists nDCG is a share: ranks that are counted, `c` of
the first `n`, add up to no more than the first `c` ranks, since discounts fall, and
to as much only if they are these (`BestGain`); the relevant ranks are at most
as many as the expected chunks, since the list maps them to chunks one to one.
Recall and precision follow from counting (`HitsAre`) and from division keeping
the order (`Shares`). That the strategies agree over an empty index rests on
three facts: a list begins with what it began with after repetitions are
dropped (`DistinctBegins`), each chunk has the reciprocal rank of its one place
(`ReciprocalOnce`), and a stable sort leaves alone what is in order, also where
rounding makes neighbours equal (`SortedStays`).

Type correctness is proved of all modules with proofs (`TypeCorrect`,
`PageTypeCorrect`); for the answer path `Shape` stands for it.

The assumptions on constants are what the code gives: thresholds and sizes are
numbers (a threshold of the guard any), searches return lists of chunks, a guard has an overlap for each claim
and text, and an empty text has none with any claim; the mark of the end is the
last line of a reply; a store holds a chunk under its id, so one search does not
return it twice, and there is a discount for every rank up to the largest
cut-off of a report.

Model-checked only: liveness (`IngestionSettles`, `CallsSettle`,
`StreamingEnds`), which is out of this prover's reach, and what `Says_history`
shows. The other way round, TLC looks at one threshold of the guard, 65
hundredths; that a threshold of 0 or less supports every claim and asks for no
chunk is covered by `VerdictsRestOnEvidence`, which is about every number. Every other property that a run checks is the subject of a theorem.

## 6. What the code does that one might not expect

What `Says_history` shows is in section 3. The rest was seen while modelling;
the models have it as the code does, and the properties are stated so that they
hold with it, or name it as their exception. Where a document of the repository
says otherwise, it is named.

Ingestion and documents:

* an RQ timeout between the commit of `_finalize` and the return of `process`
  writes FAILED over a published INDEXED, whose vectors and rows stay
  (`ingestion/pipeline.py:114`, after `:255`);
* a failed ingestion ends as a COMPLETED job, since `process` returns instead of
  raising (`ingestion/pipeline.py:114`), while docs/final-audit-before-changes.md:259
  has the job FAILED; a run that died at PROCESSING is never made up for, since a
  requeued job returns at once, COMPLETED (`ingestion/pipeline.py:94`), while
  the docstring at `ingestion/pipeline.py:8` has a re-run replace everything; a database error at the chunk rows
  leaves job and document at PROCESSING (`ingestion/pipeline.py:231`), and a
  recorded FAILED leaves `indexing_status` at PROCESSING;
* a cancelled job becomes PROCESSING and COMPLETED when its run goes on, and
  CANCELED may overwrite an end state (`api/routes/jobs.py:93`);
* a delete during a run is followed by the run's vectors
  (`api/routes/docs.py:228`); a failed run leaves vectors without text
  (`ingestion/pipeline.py:223`), while ARCHITECTURE.md:65 has failed jobs leave
  the index untouched;
* two overlapping uploads of the same bytes both become documents, and every
  further upload of them is answered 500 (`api/routes/docs.py:74`), while
  ARCHITECTURE.md:65 promises dedup by SHA-256; the PDF of a
  refused upload stays in storage (`api/routes/docs.py:69`); the job id is
  written over metadata the run may have changed (`api/routes/docs.py:99`);
* `inline_ingestion_concurrency` bounds nothing, the semaphore is per request
  (`jobs/runner.py:125`); a failed push to Redis leaves an UPLOADED document and
  a PENDING job (`jobs/queue_runner.py:64`);
* deleting a document that has as many chunks as all others of its tenant
  clears the BM25 index of the tenant (`retrieval/bm25.py:88`); entries live in
  the process that ingested the document: a delete served by another leaves
  them, a restart loses them, those of a worker are seen by no API process
  (`api/routes/docs.py:229`, `jobs/worker.py:27`);
* a search that is written to may miss chunks that are there all the time, and
  then fail with a KeyError in its second pass (`retrieval/bm25.py:182`), if
  chunks were both added and deleted meanwhile;
* parents are grouped by section alone: a parent may span several pages and cites the
  first (`ingestion/chunker.py:188`), and its text may exceed the parent size by the
  spaces between its children (`ingestion/chunker.py:184`), two children of 8 making
  17 where 16 are allowed, while `ingestion/chunker.py:161` has it "respecting parent size";
* blank lines after a flush that kept its last line flush that line again as a
  chunk of its own (`ingestion/chunker.py:116`).

Vector stores:

* two processes that start without a Qdrant collection both find it missing; the
  second one's `recreate_collection` removes what the first has stored
  (`vecstore/providers/qdrant.py:62`); an RQ worker never creates it;
* upserts with wait=False are answered before they can be found
  (`vecstore/providers/qdrant.py:90`); a pgvector call that timed out still takes
  effect (`vecstore/providers/pgvector.py:121`); the dictionary of `in_memory`
  is one per process and lost with it;
* `adelete_tenant` and `aclose` have no caller.

Questions and answers:

* query expansion searches by vectors although dense retrieval is switched off
  (`retrieval/pipeline.py:125`); with `bm25_top_k = 0` results that are told
  apart by parity go to the wrong list (`retrieval/pipeline.py:151`); `compress`
  with `top_k = 0` keeps one chunk (`retrieval/compression.py:24`);
* `compress` takes two texts for one if their first 80 characters are, in lower
  case (`retrieval/compression.py:19`): a parent and its first child can be, so that
  one is dropped for a text that is not its own, while its docstring (line 13)
  speaks of de-duplicating text;
* a contradicted claim does not affect `verified`, and a retrieval score of 0.7499
  or more verifies an answer without a supported claim, since the confidence is
  rounded first (`verification/guard.py:236`); with a threshold of 0 a claim is
  supported without any chunk (`verification/guard.py:185`);
  `/search/query` replies `verified` whenever there is a report, whatever it says
  (`api/routes/search.py:78`);
* a streamed answer is judged without citation scores and after the done event,
  the report is discarded, and its failure is logged with an undefined `logger`
  (`generation/query_service.py:215`);
* neither the `ollama` nor the `openai` provider can be built: `httpx.AsyncClient`
  is used without the name httpx (`generation/providers/ollama.py:25`,
  `generation/providers/openai_compat.py:25`), so every question asked with
  `LLM_PROVIDER` at its default fails before its first search, while README.md:128
  lists both;
* were they built: an OpenAI-compatible stream passes over lines that do not
  parse (`generation/providers/openai_compat.py:80`), Ollama's fails on them
  (`generation/providers/ollama.py:92`); both read over a line that says that the model
  failed and end the answer as done; an empty list of choices raises
  (`generation/providers/openai_compat.py:82`);
* a claim may be supported by a chunk without text if an NLI model says so
  (`verification/guard.py:65`);
* `main` of the ablation makes its BM25 retriever over an empty index, so
  `bm25_only` finds nothing and both hybrids score as `dense_only`
  (`evaluation/ablation.py:144`), while docs/evaluation.md has it compare the
  retrievers;
* with the SQLite default the write lock is held during retrieval and generation
  (`generation/query_service.py:84`).

Accounts, limits and the browser:

* two overlapping registrations at one address make two users, after which every
  login there is answered 500 (`api/routes/auth.py:99`); two first registrations
  of a tenant answer the second with 500 (`api/routes/auth.py:94`);
* each uvicorn process has a rate limiter of its own, so two processes double
  the limit; ARCHITECTURE.md calls the limiter a token bucket, the code is a
  sliding window;
* a refresh that ends after a logout brings the tokens back, and after a login
  into another account replaces that account's tokens while the other user is
  shown (`src/frontend/src/api.ts:56`); refresh tokens are not rotated;
* the tokens received since the last frame are lost when the stream ends before
  the next one (`src/frontend/src/pages/Chat.tsx:148`); a response without a
  reader, which axios' default adapter gives, drops all answers shown;
* an account made inactive is refused every request, yet its tokens are refreshed
  each time, as `/auth/refresh` does not look at the account
  (`api/routes/auth.py:164`);
* leaving the chat page aborts nothing: the stream is read to its end for nobody,
  its done event takes the browser back to the chat from wherever it is, and a
  page opened meanwhile sends a second question beside it
  (`src/frontend/src/pages/Chat.tsx:156`);
* a new chat begun during a stream gets that stream's answer without a question,
  and its done event navigates back (`src/frontend/src/pages/Chat.tsx:198`).

## 7. Not modelled, and why

Document metadata beyond the job id (read by nobody); term frequencies, lengths and
ranking of BM25; distances of vectors; token counts and the heading heuristic of
the chunker; prompt text; what NLI and cross-encoder models compute (what they
may return is modelled); rejections of an upload before the file is saved; text extraction,
OCR and validation (PDF libraries; their failures are a failing step of
`Ingestion`); the order of RQ's queue; `delete_tenant` of the index (no caller);
`rate_limit_enabled = False`; several tabs sharing localStorage; `useChat.ts`
(no page uses it) and pages that fetch and render; `CachedEmbeddingProvider` and
the cache (nothing constructs or reads them); the dataset reader, means and
command line of the evaluation; logging,
metrics, health and settings routes; deployment files. The components with
status `not_modelled` or `partly` in `PROJECT.json` carry their reason.

## 8. What could come next

1. `Stack`: `Ingestion` composed with `Answering` over the same rows, for what a
   question finds during ingestion, deletion and restart.
2. Several tabs of `BrowserSession` over one localStorage.
