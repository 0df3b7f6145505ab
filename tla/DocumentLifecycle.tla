------------------------- MODULE DocumentLifecycle -------------------------
(***************************************************************************)
(* Documents from upload to deletion: the API handlers                     *)
(* (app/services/documents.py), the Redis ingest queue and dead-letter     *)
(* list (app/queue.py, app/ingestion/jobs.py), the workers                 *)
(* (worker/main.py) and the indexer (app/ingestion/indexer.py).            *)
(*                                                                         *)
(* Postgres, Qdrant, Redis and the file store are separate systems and     *)
(* nothing spans a transaction over two of them, so a handler is one       *)
(* action per effect another process can see: a Postgres commit, a Qdrant  *)
(* or file-store call, a Redis push or pop.  What a Postgres transaction   *)
(* holds uncommitted stays in the record of the worker that holds it.      *)
(*                                                                         *)
(* One run of the indexer writes a batch: all the chunks of the document,  *)
(* with new chunk ids, to Postgres and to Qdrant.                          *)
(***************************************************************************)
EXTENDS Naturals, Sequences, FiniteSets

CONSTANTS
    Docs,                   \* document ids (one per accepted upload)
    Workers,                \* worker processes
    Requests,               \* API requests (and operators) served at a time
    JobIds,                 \* ids of ingest_jobs rows: bounds the triggers
    Batches,                \* identities of the batches of chunks
    None,                   \* absent document, job or batch
    MaxIndexingRetries,     \* settings.max_indexing_retries
    MaxWorkerFaults,        \* bound on worker crashes and lost pushes
    MaxRequestFaults        \* bound on API requests that die half way

ASSUME LifecycleAssumption ==
    /\ MaxIndexingRetries \in Nat \ {0}
    /\ MaxWorkerFaults \in Nat
    /\ MaxRequestFaults \in Nat
    /\ None \notin Docs \cup JobIds \cup Batches \cup Workers
    /\ IsFiniteSet(Workers)

VARIABLES
    docs,                   \* documents.status, or "absent" / "deleted"
    jobs,                   \* ingest_jobs rows
    pg,                     \* committed document_chunks, as batches
    qdrant,                 \* points of rag_chunks, as batches
    files,                  \* documents whose stored file exists
    queue,                  \* Redis list settings.ingest_queue
    dlq,                    \* Redis list settings.ingest_dlq
    worker,                 \* the job each worker is handling, and where it is
    request,                \* the handler each request is executing
    workerFaults, requestFaults

vars == <<docs, jobs, pg, qdrant, files, queue, dlq, worker, request,
          workerFaults, requestFaults>>

LiveStatus == {"PENDING", "PROCESSING", "INDEXED", "FAILED"}
RowStatus == {"QUEUED", "PARSING", "CAPTIONING", "INDEXING", "INDEXED", "FAILED"}

\* The queue payload.  Dead letters add the error text, which nothing reads.
Entry == [doc: Docs, attempt: Nat, job: JobIds \cup {None}]

\* Inside index_document's try block: an exception lands in its handler.
InIndexer == {"parsing", "cleared", "wiped", "staged", "upserted"}
WorkerAt == {"idle", "popped", "begin", "indexed", "failed", "requeue", "dead"} \cup InIndexer
RequestAt == {"idle", "enqueue", "del_files", "del_row", "requeue"}

TypeOK ==
    /\ docs \in [Docs -> {"absent", "deleted"} \cup LiveStatus]
    /\ jobs \in [JobIds -> [doc: Docs \cup {None}, status: {"unused", "gone"} \cup RowStatus]]
    /\ pg \in [Docs -> SUBSET Batches]
    /\ qdrant \in [Docs -> SUBSET Batches]
    /\ files \in SUBSET Docs
    /\ queue \in Seq(Entry)
    /\ dlq \in Seq(Entry)
    /\ worker \in [Workers ->
            [at: WorkerAt, doc: Docs \cup {None}, attempt: Nat, job: JobIds \cup {None},
             dirty: SUBSET Batches, batch: Batches \cup {None}]]
    /\ request \in [Requests ->
            [at: RequestAt, doc: Docs \cup {None}, job: JobIds \cup {None}]]
    /\ workerFaults \in 0..MaxWorkerFaults
    /\ requestFaults \in 0..MaxRequestFaults

IdleWorker ==
    [at |-> "idle", doc |-> None, attempt |-> 0, job |-> None, dirty |-> {}, batch |-> None]
IdleRequest == [at |-> "idle", doc |-> None, job |-> None]

Init ==
    /\ docs = [d \in Docs |-> "absent"]
    /\ jobs = [j \in JobIds |-> [doc |-> None, status |-> "unused"]]
    /\ pg = [d \in Docs |-> {}] /\ qdrant = [d \in Docs |-> {}] /\ files = {}
    /\ queue = <<>> /\ dlq = <<>>
    /\ worker = [w \in Workers |-> IdleWorker]
    /\ request = [r \in Requests |-> IdleRequest]
    /\ workerFaults = 0 /\ requestFaults = 0

Live(d) == docs[d] \in LiveStatus
RowExists(j) == j \in JobIds /\ jobs[j].status \in RowStatus
Row(d, s) == [doc |-> d, status |-> s]
FreeJobs == {j \in JobIds : jobs[j].status = "unused"}
\* create_job: the id of the new row.
NewJob == CHOOSE j \in FreeJobs : TRUE

\* A worker waits for the row locks of another's uncommitted DELETE; so does the
\* cascade of a document deletion.
ChunksLocked(d, self) ==
    \E v \in Workers \ {self} : worker[v].doc = d /\ worker[v].dirty \cap pg[d] # {}

-----------------------------------------------------------------------------
(* API handlers.                                                           *)

\* create_document up to its commit: row, file and job row become visible
\* together (a duplicate of a live document returns it and changes nothing).
Upload(r, d) ==
    /\ request[r].at = "idle" /\ docs[d] = "absent"
    /\ FreeJobs # {}
    /\ jobs' = [jobs EXCEPT ![NewJob] = Row(d, "QUEUED")]
    /\ request' = [request EXCEPT ![r] = [at |-> "enqueue", doc |-> d, job |-> NewJob]]
    /\ docs' = [docs EXCEPT ![d] = "PENDING"]
    /\ files' = files \cup {d}
    /\ UNCHANGED <<pg, qdrant, queue, dlq, worker, workerFaults, requestFaults>>

\* Mutated Reindex: the document gets the job's status.
ReindexQueued(r, d) ==
    /\ request[r].at = "idle" /\ Live(d)
    /\ FreeJobs # {}
    /\ jobs' = [jobs EXCEPT ![NewJob] = Row(d, "QUEUED")]
    /\ request' = [request EXCEPT ![r] = [at |-> "enqueue", doc |-> d, job |-> NewJob]]
    /\ docs' = [docs EXCEPT ![d] = "QUEUED"]
    /\ UNCHANGED <<pg, qdrant, files, queue, dlq, worker, workerFaults, requestFaults>>

\* reindex_document up to its commit; the cache eviction that follows is outside
\* this module.
Reindex(r, d) ==
    /\ request[r].at = "idle" /\ Live(d)
    /\ FreeJobs # {}
    /\ jobs' = [jobs EXCEPT ![NewJob] = Row(d, "QUEUED")]
    /\ request' = [request EXCEPT ![r] = [at |-> "enqueue", doc |-> d, job |-> NewJob]]
    /\ docs' = [docs EXCEPT ![d] = "PENDING"]
    /\ UNCHANGED <<pg, qdrant, files, queue, dlq, worker, workerFaults, requestFaults>>

\* enqueue_index, the last step of both.
Enqueue(r) ==
    /\ request[r].at = "enqueue"
    /\ queue' = Append(queue,
            [doc |-> request[r].doc, attempt |-> 0, job |-> request[r].job])
    /\ request' = [request EXCEPT ![r] = IdleRequest]
    /\ UNCHANGED <<docs, jobs, pg, qdrant, files, dlq, worker, workerFaults, requestFaults>>

\* delete_document: vectors first, then cache and files, then the row.
DeleteVectors(r, d) ==
    /\ request[r].at = "idle" /\ Live(d)
    /\ qdrant' = [qdrant EXCEPT ![d] = {}]
    /\ request' = [request EXCEPT ![r] = [at |-> "del_files", doc |-> d, job |-> None]]
    /\ UNCHANGED <<docs, jobs, pg, files, queue, dlq, worker, workerFaults, requestFaults>>

DeleteFiles(r) ==
    /\ request[r].at = "del_files"
    /\ files' = files \ {request[r].doc}
    /\ request' = [request EXCEPT ![r].at = "del_row"]
    /\ UNCHANGED <<docs, jobs, pg, qdrant, queue, dlq, worker, workerFaults, requestFaults>>

\* The row goes, and by ON DELETE CASCADE its chunks and its job rows.
DeleteRow(r) ==
    LET d == request[r].doc IN
    /\ request[r].at = "del_row" /\ ~ChunksLocked(d, None)
    /\ docs' = [docs EXCEPT ![d] = "deleted"]
    /\ pg' = [pg EXCEPT ![d] = {}]
    /\ jobs' = [j \in JobIds |->
            IF jobs[j].doc = d THEN [jobs[j] EXCEPT !.status = "gone"] ELSE jobs[j]]
    /\ request' = [request EXCEPT ![r] = IdleRequest]
    /\ UNCHANGED <<qdrant, files, queue, dlq, worker, workerFaults, requestFaults>>

\* requeue_dlq, one dead letter: LPOP, then RPUSH with the attempts reset.
RequeuePop(r) ==
    /\ request[r].at = "idle" /\ dlq # <<>>
    /\ dlq' = Tail(dlq)
    /\ request' = [request EXCEPT
            ![r] = [at |-> "requeue", doc |-> Head(dlq).doc, job |-> Head(dlq).job]]
    /\ UNCHANGED <<docs, jobs, pg, qdrant, files, queue, worker, workerFaults, requestFaults>>

RequeuePush(r) ==
    /\ request[r].at = "requeue"
    /\ queue' = Append(queue,
            [doc |-> request[r].doc, attempt |-> 0, job |-> request[r].job])
    /\ request' = [request EXCEPT ![r] = IdleRequest]
    /\ UNCHANGED <<docs, jobs, pg, qdrant, files, dlq, worker, workerFaults, requestFaults>>

\* The API process stops, or an external call raises, between two effects.
RequestDies(r) ==
    /\ request[r].at # "idle" /\ requestFaults < MaxRequestFaults
    /\ requestFaults' = requestFaults + 1
    /\ request' = [request EXCEPT ![r] = IdleRequest]
    /\ UNCHANGED <<docs, jobs, pg, qdrant, files, queue, dlq, worker, workerFaults>>

-----------------------------------------------------------------------------
(* Workers: the main loop, _handle_job and index_document.                 *)

\* BLPOP removes the payload; nothing acknowledges it later.
Pop(w) ==
    /\ worker[w].at = "idle" /\ queue # <<>>
    /\ queue' = Tail(queue)
    /\ worker' = [worker EXCEPT ![w] = [IdleWorker EXCEPT
            !.at = "popped", !.doc = Head(queue).doc,
            !.attempt = Head(queue).attempt, !.job = Head(queue).job]]
    /\ UNCHANGED <<docs, jobs, pg, qdrant, files, dlq, request, workerFaults, requestFaults>>

\* jobs.job_started: the payload's row goes to PARSING; without a row a new one is
\* made, unless the document is gone and the job is dropped.
JobStarted(w) ==
    LET job == worker[w].job
        d == worker[w].doc IN
    /\ worker[w].at = "popped"
    /\ \/ /\ RowExists(job)
          /\ jobs' = [jobs EXCEPT ![job].status = "PARSING"]
          /\ worker' = [worker EXCEPT ![w].at = "begin"]
       \/ /\ ~RowExists(job) /\ Live(d) /\ FreeJobs # {}
          /\ jobs' = [jobs EXCEPT ![NewJob] = Row(d, "PARSING")]
          /\ worker' = [worker EXCEPT ![w].at = "begin", ![w].job = NewJob]
       \/ /\ ~RowExists(job) /\ ~Live(d)
          /\ worker' = [worker EXCEPT ![w] = IdleWorker]
          /\ UNCHANGED jobs
    /\ UNCHANGED <<docs, pg, qdrant, files, queue, dlq, request, workerFaults, requestFaults>>

\* Any other tracking error: the job goes on without a row.
TrackingFails(w) ==
    /\ worker[w].at = "popped" /\ workerFaults < MaxWorkerFaults
    /\ workerFaults' = workerFaults + 1
    /\ worker' = [worker EXCEPT ![w].at = "begin", ![w].job = None]
    /\ UNCHANGED <<docs, jobs, pg, qdrant, files, queue, dlq, request, requestFaults>>

\* Mutated BeginIndex: the status is left for the end of the run.
BeginIndexSilently(w) ==
    /\ worker[w].at = "begin"
    /\ worker' = [worker EXCEPT ![w].at = IF Live(worker[w].doc) THEN "parsing" ELSE "failed"]
    /\ UNCHANGED <<docs, jobs, pg, qdrant, files, queue, dlq, request, workerFaults,
                   requestFaults>>

\* Mutated BeginIndex: the document is not looked up again.
BeginIndexUnchecked(w) ==
    /\ worker[w].at = "begin"
    /\ docs' = [docs EXCEPT ![worker[w].doc] = "PROCESSING"]
    /\ worker' = [worker EXCEPT ![w].at = "parsing"]
    /\ UNCHANGED <<jobs, pg, qdrant, files, queue, dlq, request, workerFaults, requestFaults>>

\* index_document: a missing document raises before the try block.
BeginIndex(w) ==
    LET d == worker[w].doc IN
    /\ worker[w].at = "begin"
    /\ \/ /\ Live(d)
          /\ docs' = [docs EXCEPT ![d] = "PROCESSING"]
          /\ worker' = [worker EXCEPT ![w].at = "parsing"]
       \/ /\ ~Live(d)
          /\ worker' = [worker EXCEPT ![w].at = "failed"]
          /\ UNCHANGED docs
    /\ UNCHANGED <<jobs, pg, qdrant, files, queue, dlq, request, workerFaults, requestFaults>>

\* The file is read, then _clear_existing: DELETE in Postgres, not yet committed.
ClearChunks(w) ==
    LET d == worker[w].doc IN
    /\ worker[w].at = "parsing" /\ d \in files /\ ~ChunksLocked(d, w)
    /\ worker' = [worker EXCEPT ![w].at = "cleared", ![w].dirty = pg[d]]
    /\ UNCHANGED <<docs, jobs, pg, qdrant, files, queue, dlq, request, workerFaults,
                   requestFaults>>

\* Mutated ClearVectors: only Postgres is cleared.
ClearNoVectors(w) ==
    /\ worker[w].at = "cleared"
    /\ worker' = [worker EXCEPT ![w].at = "wiped"]
    /\ UNCHANGED <<docs, jobs, pg, qdrant, files, queue, dlq, request, workerFaults,
                   requestFaults>>

\* The rest of _clear_existing: qindex.delete_by_document.
ClearVectors(w) ==
    /\ worker[w].at = "cleared"
    /\ qdrant' = [qdrant EXCEPT ![worker[w].doc] = {}]
    /\ worker' = [worker EXCEPT ![w].at = "wiped"]
    /\ UNCHANGED <<docs, jobs, pg, files, queue, dlq, request, workerFaults, requestFaults>>

\* on_stage with a job row still there: job_stage commits the session, and with it
\* the pending DELETE.  Untracked, or with the row gone, nothing is committed.
Stage(w, status, next) ==
    LET job == worker[w].job
        d == worker[w].doc IN
    IF RowExists(job)
    THEN /\ jobs' = [jobs EXCEPT ![job].status = status]
         /\ pg' = [pg EXCEPT ![d] = @ \ worker[w].dirty]
         /\ worker' = [worker EXCEPT ![w].at = next, ![w].dirty = {}]
    ELSE /\ worker' = [worker EXCEPT ![w].at = next]
         /\ UNCHANGED <<jobs, pg>>

\* A figure found by the pipeline flips the job to CAPTIONING.
Captioning(w) ==
    /\ worker[w].at = "wiped"
    /\ Stage(w, "CAPTIONING", "wiped")
    /\ UNCHANGED <<docs, qdrant, files, queue, dlq, request, workerFaults, requestFaults>>

Indexing(w) ==
    /\ worker[w].at = "wiped"
    /\ Stage(w, "INDEXING", "staged")
    /\ UNCHANGED <<docs, qdrant, files, queue, dlq, request, workerFaults, requestFaults>>

UsedBatches ==
    UNION {pg[d] \cup qdrant[d] : d \in Docs} \cup {worker[w].batch : w \in Workers}
        \cup UNION {worker[w].dirty : w \in Workers}

\* New chunk ids; the points are upserted before the chunk rows are committed.
UpsertPoints(w) ==
    LET b == CHOOSE x \in Batches : x \notin UsedBatches IN
    /\ worker[w].at = "staged" /\ Batches \ UsedBatches # {}
    /\ qdrant' = [qdrant EXCEPT ![worker[w].doc] = @ \cup {b}]
    /\ worker' = [worker EXCEPT ![w].at = "upserted", ![w].batch = b]
    /\ UNCHANGED <<docs, jobs, pg, files, queue, dlq, request, workerFaults, requestFaults>>

\* The final commit; it fails on the foreign key when the document is gone.
CommitIndexed(w) ==
    LET d == worker[w].doc IN
    /\ worker[w].at = "upserted" /\ Live(d)
    /\ pg' = [pg EXCEPT ![d] = (@ \ worker[w].dirty) \cup {worker[w].batch}]
    /\ docs' = [docs EXCEPT ![d] = "INDEXED"]
    /\ worker' = [worker EXCEPT ![w].at = "indexed", ![w].dirty = {}, ![w].batch = None]
    /\ UNCHANGED <<jobs, qdrant, files, queue, dlq, request, workerFaults, requestFaults>>

\* Any exception inside the try block: rollback, FAILED if the document is still
\* there, re-raise.
IndexFails(w) ==
    LET d == worker[w].doc IN
    /\ worker[w].at \in InIndexer
    /\ docs' = IF Live(d) THEN [docs EXCEPT ![d] = "FAILED"] ELSE docs
    /\ worker' = [worker EXCEPT ![w].at = "failed", ![w].dirty = {}, ![w].batch = None]
    /\ UNCHANGED <<jobs, pg, qdrant, files, queue, dlq, request, workerFaults, requestFaults>>

JobRowGets(job, status) ==
    jobs' = IF RowExists(job) THEN [jobs EXCEPT ![job].status = status] ELSE jobs

JobIndexed(w) ==
    /\ worker[w].at = "indexed"
    /\ JobRowGets(worker[w].job, "INDEXED")
    /\ worker' = [worker EXCEPT ![w] = IdleWorker]
    /\ UNCHANGED <<docs, pg, qdrant, files, queue, dlq, request, workerFaults, requestFaults>>

\* Mutated WillRetry: off by one.
WillRetryOnceMore(attempt) == attempt < MaxIndexingRetries

WillRetry(attempt) == attempt + 1 < MaxIndexingRetries

\* Mutated JobFailed: a permanent failure is recorded as a pending retry.
JobFailedAsQueued(w) ==
    /\ worker[w].at = "failed"
    /\ JobRowGets(worker[w].job, "QUEUED")
    /\ worker' = [worker EXCEPT
            ![w].at = IF WillRetry(worker[w].attempt) THEN "requeue" ELSE "dead"]
    /\ UNCHANGED <<docs, pg, qdrant, files, queue, dlq, request, workerFaults, requestFaults>>

\* job_finished(error): the row tells a pending retry from a permanent failure.
JobFailed(w) ==
    LET retry == WillRetry(worker[w].attempt) IN
    /\ worker[w].at = "failed"
    /\ JobRowGets(worker[w].job, IF retry THEN "QUEUED" ELSE "FAILED")
    /\ worker' = [worker EXCEPT ![w].at = IF retry THEN "requeue" ELSE "dead"]
    /\ UNCHANGED <<docs, pg, qdrant, files, queue, dlq, request, workerFaults, requestFaults>>

\* Mutated Requeue: the attempt is not counted.
RequeueSameAttempt(w) ==
    /\ worker[w].at = "requeue"
    /\ queue' = Append(queue, [doc |-> worker[w].doc, attempt |-> worker[w].attempt,
                               job |-> worker[w].job])
    /\ worker' = [worker EXCEPT ![w] = IdleWorker]
    /\ UNCHANGED <<docs, jobs, pg, qdrant, files, dlq, request, workerFaults, requestFaults>>

Requeue(w) ==
    /\ worker[w].at = "requeue"
    /\ queue' = Append(queue, [doc |-> worker[w].doc, attempt |-> worker[w].attempt + 1,
                               job |-> worker[w].job])
    /\ worker' = [worker EXCEPT ![w] = IdleWorker]
    /\ UNCHANGED <<docs, jobs, pg, qdrant, files, dlq, request, workerFaults, requestFaults>>

\* Mutated DeadLetter: the payload of a permanent failure is dropped.
DropDeadLetter(w) ==
    /\ worker[w].at = "dead"
    /\ worker' = [worker EXCEPT ![w] = IdleWorker]
    /\ UNCHANGED <<docs, jobs, pg, qdrant, files, queue, dlq, request, workerFaults,
                   requestFaults>>

DeadLetter(w) ==
    /\ worker[w].at = "dead"
    /\ dlq' = Append(dlq, [doc |-> worker[w].doc, attempt |-> worker[w].attempt,
                           job |-> worker[w].job])
    /\ worker' = [worker EXCEPT ![w] = IdleWorker]
    /\ UNCHANGED <<docs, jobs, pg, qdrant, files, queue, request, workerFaults, requestFaults>>

\* The process is killed and restarted by its healthcheck, or an error escapes
\* _handle_job and main() logs it: the open transaction is rolled back, the popped
\* payload is gone.
WorkerDies(w) ==
    /\ worker[w].at # "idle" /\ workerFaults < MaxWorkerFaults
    /\ workerFaults' = workerFaults + 1
    /\ worker' = [worker EXCEPT ![w] = IdleWorker]
    /\ UNCHANGED <<docs, jobs, pg, qdrant, files, queue, dlq, request, requestFaults>>

-----------------------------------------------------------------------------
RequestStep(r) ==
    Enqueue(r) \/ DeleteFiles(r) \/ DeleteRow(r) \/ RequeuePush(r)

RequestStart(r) ==
    \/ \E d \in Docs : Upload(r, d) \/ Reindex(r, d) \/ DeleteVectors(r, d)
    \/ RequeuePop(r)

WorkerStep(w) ==
    \/ Pop(w) \/ JobStarted(w) \/ BeginIndex(w) \/ ClearChunks(w) \/ ClearVectors(w)
    \/ Indexing(w) \/ UpsertPoints(w) \/ CommitIndexed(w) \/ IndexFails(w)
    \/ JobIndexed(w) \/ JobFailed(w) \/ Requeue(w) \/ DeadLetter(w)

Next ==
    \/ \E r \in Requests : RequestStart(r) \/ RequestStep(r) \/ RequestDies(r)
    \/ \E w \in Workers :
          WorkerStep(w) \/ Captioning(w) \/ TrackingFails(w) \/ WorkerDies(w)

\* Handlers and workers that started a step finish it; clients owe nothing.
\* A deletion waits for the row locks of workers and gets its turn between them,
\* hence strong fairness there.
Fairness ==
    /\ \A r \in Requests : SF_vars(RequestStep(r))
    /\ \A w \in Workers : WF_vars(WorkerStep(w))

Spec == Init /\ [][Next]_vars /\ Fairness

-----------------------------------------------------------------------------
(* Properties.                                                             *)

Holds(list, d) == \E i \in DOMAIN list : list[i].doc = d
InQueue(d) == Holds(queue, d)
InDlq(d) == Holds(dlq, d)
\* A worker that is about to index, and one that may, or that has just failed to.
Starting == {"popped", "begin"}
Retrying == Starting \cup {"failed", "requeue", "dead"}
WorkerOn(d, where) == \E w \in Workers : worker[w].doc = d /\ worker[w].at \in where
RequestOn(d, where) == \E r \in Requests : request[r].doc = d /\ request[r].at \in where

\* Something will move the document on from its status: a payload that reaches a
\* worker, a worker in the middle of it, or a dead letter an operator can see.
Backed(d) ==
    /\ docs[d] = "PENDING" =>
          RequestOn(d, {"enqueue"}) \/ InQueue(d) \/ WorkerOn(d, Starting)
    /\ docs[d] = "PROCESSING" => WorkerOn(d, InIndexer)
    /\ docs[d] = "FAILED" =>
          InQueue(d) \/ InDlq(d) \/ RequestOn(d, {"requeue"}) \/ WorkerOn(d, Retrying)

\* Without crashes no interleaving of uploads, re-ingests, deletes, retries and
\* operators leaves a document PENDING, PROCESSING or FAILED with nothing left
\* that would move it on, for any number of workers.
NoDocumentStranded ==
    workerFaults = 0 /\ requestFaults = 0 => \A d \in Docs : Backed(d)


\* The progress row the UI polls is never left in an active state by a finished
\* or vanished job: QUEUED rows have their payload, running rows their worker.
ProgressIsReal ==
    workerFaults = 0 /\ requestFaults = 0 => \A j \in JobIds :
        /\ jobs[j].status = "QUEUED" =>
              \/ \E r \in Requests : request[r].at = "enqueue" /\ request[r].job = j
              \/ \E i \in DOMAIN queue : queue[i].job = j
              \/ \E w \in Workers :
                    worker[w].job = j /\ worker[w].at \in {"popped", "requeue"}
        /\ jobs[j].status \in {"PARSING", "CAPTIONING", "INDEXING"} =>
              \E w \in Workers : worker[w].job = j /\
                    worker[w].at \in InIndexer \cup {"begin", "indexed", "failed"}

\* Every accepted ingest comes to an end: indexed, deleted or dead-lettered.
EveryIngestSettles ==
    \A d \in Docs : docs[d] \in {"PENDING", "PROCESSING", "FAILED"} ~>
        docs[d] \in {"INDEXED", "deleted"} \/ InDlq(d)

\* A job is tried at most MaxIndexingRetries times before it is dead-lettered, and
\* not given up before that.
RetryBudget ==
    /\ \A i \in DOMAIN queue : queue[i].attempt < MaxIndexingRetries
    /\ \A i \in DOMAIN dlq : dlq[i].attempt = MaxIndexingRetries - 1

\* With one worker, clear-then-write keeps at most one generation of a document's
\* chunks in each store, whatever crashes or retries came between.
NoDuplicates ==
    Cardinality(Workers) = 1 =>
        \A d \in Docs : Cardinality(qdrant[d]) <= 1 /\ Cardinality(pg[d]) <= 1

\* With one worker, an INDEXED document has its chunks in Postgres and exactly
\* the same ones in Qdrant, unless a deletion of it has begun (or died half way).
IndexedIsSearchable ==
    Cardinality(Workers) = 1 => \A d \in Docs : docs[d] = "INDEXED" =>
        /\ pg[d] # {}
        /\ \/ qdrant[d] = pg[d]
           \/ qdrant[d] = {} /\ (RequestOn(d, {"del_files", "del_row"}) \/ requestFaults > 0)

\* Once a document is deleted and no worker is inside its indexing, nothing brings
\* a row, a chunk or a vector of it back: not a late payload, a retry, a requeued
\* dead letter or an untracked job.
DeletedStaysGone ==
    [][\A d \in Docs : docs[d] = "deleted" /\ ~WorkerOn(d, InIndexer) =>
            /\ docs'[d] = "deleted"
            /\ pg'[d] = {}
            /\ qdrant'[d] \subseteq qdrant[d]]_vars
=============================================================================
