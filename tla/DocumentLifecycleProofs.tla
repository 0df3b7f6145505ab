----------------------- MODULE DocumentLifecycleProofs -----------------------
(***************************************************************************)
(* Proofs about DocumentLifecycle, for every set of documents, workers and *)
(* requests and every retry budget.                                        *)
(***************************************************************************)
EXTENDS DocumentLifecycle, FiniteSetTheorems, TLAPS

\* A busy worker or request holds a document; a worker that has upserted holds the
\* batch it will commit.
HolderInv ==
    /\ \A w \in Workers : worker[w].at # "idle" => worker[w].doc \in Docs
    /\ \A w \in Workers : worker[w].at = "upserted" => worker[w].batch \in Batches
    /\ \A r \in Requests : request[r].at # "idle" => request[r].doc \in Docs

TypeInv == TypeOK /\ HolderInv

WorkerRecord ==
    [at: WorkerAt, doc: Docs \cup {None}, attempt: Nat, job: JobIds \cup {None},
     dirty: SUBSET Batches, batch: Batches \cup {None}]
RequestRecord == [at: RequestAt, doc: Docs \cup {None}, job: JobIds \cup {None}]
JobRecord == [doc: Docs \cup {None}, status: {"unused", "gone"} \cup RowStatus]

-----------------------------------------------------------------------------
(* Facts about the operators.                                              *)

\* A new row gets an unused id.
LEMMA NewJobFree == FreeJobs # {} => NewJob \in JobIds /\ jobs[NewJob].status = "unused"
BY DEF FreeJobs, NewJob

\* What BLPOP and LPOP take and leave of a list of payloads.
LEMMA PopType ==
    ASSUME NEW s \in Seq(Entry), s # <<>>
    PROVE  Head(s) \in Entry /\ Tail(s) \in Seq(Entry)
OBVIOUS

\* RPUSH keeps a list of payloads one.
LEMMA PushType ==
    ASSUME NEW s \in Seq(Entry), NEW e \in Entry
    PROVE  Append(s, e) \in Seq(Entry)
OBVIOUS

\* An idle worker and an idle request are well typed.
LEMMA IdleType == IdleWorker \in WorkerRecord /\ IdleRequest \in RequestRecord
BY DEF IdleWorker, IdleRequest, WorkerRecord, RequestRecord, WorkerAt, RequestAt, InIndexer

-----------------------------------------------------------------------------
(* Type correctness.                                                       *)

\* A step of an API handler, an operator or a dying request keeps the types.
LEMMA RequestType ==
    ASSUME TypeInv, NEW r \in Requests,
           RequestStart(r) \/ RequestStep(r) \/ RequestDies(r)
    PROVE  TypeInv'
<1> USE DEF TypeInv, TypeOK, HolderInv, RequestAt, IdleRequest
<1>1. ASSUME NEW d \in Docs, Upload(r, d) PROVE TypeInv'
  BY <1>1, NewJobFree DEF Upload, Row, LiveStatus, RowStatus
<1>2. ASSUME NEW d \in Docs, Reindex(r, d) PROVE TypeInv'
  BY <1>2, NewJobFree DEF Reindex, Row, LiveStatus, RowStatus
<1>3. ASSUME NEW d \in Docs, DeleteVectors(r, d) PROVE TypeInv'
  BY <1>3 DEF DeleteVectors
<1>4. CASE RequeuePop(r)
  BY <1>4, PopType DEF RequeuePop, Entry
<1>5. CASE Enqueue(r)
  <2>1. [doc |-> request[r].doc, attempt |-> 0, job |-> request[r].job] \in Entry
    BY <1>5 DEF Enqueue, Entry
  <2> QED
    BY <1>5, <2>1, PushType DEF Enqueue
<1>6. CASE DeleteFiles(r)
  BY <1>6 DEF DeleteFiles
<1>7. CASE DeleteRow(r)
  <2>1. jobs' \in [JobIds -> JobRecord]
    BY <1>7 DEF DeleteRow, JobRecord
  <2> QED
    BY <1>7, <2>1 DEF DeleteRow, JobRecord
<1>8. CASE RequeuePush(r)
  <2>1. [doc |-> request[r].doc, attempt |-> 0, job |-> request[r].job] \in Entry
    BY <1>8 DEF RequeuePush, Entry
  <2> QED
    BY <1>8, <2>1, PushType DEF RequeuePush
<1>9. CASE RequestDies(r)
  BY <1>9, LifecycleAssumption DEF RequestDies
<1> QED
  BY <1>1, <1>2, <1>3, <1>4, <1>5, <1>6, <1>7, <1>8, <1>9 DEF RequestStart, RequestStep

\* The worker record, which every worker action replaces for one worker.
LEMMA WorkerMoves ==
    ASSUME TypeInv, NEW w \in Workers, NEW rec \in WorkerRecord,
           worker' = [worker EXCEPT ![w] = rec], UNCHANGED request,
           rec.at # "idle" => rec.doc \in Docs,
           rec.at = "upserted" => rec.batch \in Batches
    PROVE  worker' \in [Workers -> WorkerRecord] /\ HolderInv'
<1>1. worker \in [Workers -> WorkerRecord]
  BY DEF TypeInv, TypeOK, WorkerRecord
<1>2. worker' \in [Workers -> WorkerRecord]
  BY <1>1
<1>3. \A v \in Workers : worker'[v] = IF v = w THEN rec ELSE worker[v]
  BY <1>1
<1> QED
  BY <1>2, <1>3 DEF TypeInv, HolderInv

\* A progress row takes another status.
LEMMA JobRowType ==
    ASSUME TypeInv, NEW job, NEW s \in RowStatus, RowExists(job)
    PROVE  [jobs EXCEPT ![job].status = s] \in [JobIds -> JobRecord]
BY DEF TypeInv, TypeOK, JobRecord, RowExists

\* A step of a worker keeps the types.
LEMMA WorkerType ==
    ASSUME TypeInv, NEW w \in Workers,
           WorkerStep(w) \/ Captioning(w) \/ TrackingFails(w) \/ WorkerDies(w)
    PROVE  TypeInv'
<1> DEFINE W == worker[w]
<1>t. /\ W \in WorkerRecord
      /\ W.at # "idle" => W.doc \in Docs
      /\ W.at = "upserted" => W.batch \in Batches
  BY DEF TypeInv, TypeOK, HolderInv, WorkerRecord
<1>i. IdleWorker \in WorkerRecord /\ IdleWorker.at = "idle"
  BY IdleType DEF IdleWorker
<1>1. CASE Pop(w)
  <2>0. Head(queue) \in Entry /\ Tail(queue) \in Seq(Entry)
    BY <1>1, PopType DEF Pop, TypeInv, TypeOK
  <2> DEFINE rec == [IdleWorker EXCEPT !.at = "popped", !.doc = Head(queue).doc,
                              !.attempt = Head(queue).attempt, !.job = Head(queue).job]
  <2>1. worker' = [worker EXCEPT ![w] = rec] /\ UNCHANGED request
    BY <1>1, <2>0 DEF Pop, IdleWorker, Entry
  <2>2. /\ rec \in WorkerRecord /\ rec.doc \in Docs
        /\ rec.at = "upserted" => rec.batch \in Batches
    BY <1>1, <1>t, <2>0 DEF Pop, WorkerRecord, WorkerAt, InIndexer, IdleWorker, Entry
  <2>3. worker' \in [Workers -> WorkerRecord] /\ HolderInv'
    BY <2>1, <2>2, WorkerMoves
  <2> QED
    BY <1>1, <2>3, <2>0, PopType DEF TypeInv, TypeOK, WorkerRecord, Pop
<1>2. CASE TrackingFails(w)
  <2> DEFINE rec == [W EXCEPT !.at = "begin", !.job = None]
  <2>1. worker' = [worker EXCEPT ![w] = rec] /\ UNCHANGED request
    BY <1>2 DEF TrackingFails
  <2>2. /\ rec \in WorkerRecord /\ rec.doc \in Docs
        /\ rec.at = "upserted" => rec.batch \in Batches
    BY <1>2, <1>t DEF TrackingFails, WorkerRecord, WorkerAt, InIndexer
  <2>3. worker' \in [Workers -> WorkerRecord] /\ HolderInv'
    BY <2>1, <2>2, WorkerMoves
  <2> QED
    BY <1>2, <2>3, LifecycleAssumption DEF TypeInv, TypeOK, WorkerRecord, TrackingFails
<1>3. CASE BeginIndex(w)
  <2> DEFINE rec == [W EXCEPT !.at = IF Live(W.doc) THEN "parsing" ELSE "failed"]
  <2>1. worker' = [worker EXCEPT ![w] = rec] /\ UNCHANGED request
    BY <1>3 DEF BeginIndex
  <2>2. /\ rec \in WorkerRecord /\ rec.doc \in Docs
        /\ rec.at = "upserted" => rec.batch \in Batches
    BY <1>3, <1>t DEF BeginIndex, WorkerRecord, WorkerAt, InIndexer
  <2>3. worker' \in [Workers -> WorkerRecord] /\ HolderInv'
    BY <2>1, <2>2, WorkerMoves
  <2> QED
    BY <1>3, <2>3 DEF TypeInv, TypeOK, WorkerRecord, BeginIndex, LiveStatus
<1>4. CASE ClearChunks(w)
  <2> DEFINE rec == [W EXCEPT !.at = "cleared", !.dirty = pg[W.doc]]
  <2>1. worker' = [worker EXCEPT ![w] = rec] /\ UNCHANGED request
    BY <1>4 DEF ClearChunks
  <2>2. /\ rec \in WorkerRecord /\ rec.doc \in Docs
        /\ rec.at = "upserted" => rec.batch \in Batches
    BY <1>4, <1>t DEF ClearChunks, WorkerRecord, WorkerAt, InIndexer, TypeInv, TypeOK
  <2>3. worker' \in [Workers -> WorkerRecord] /\ HolderInv'
    BY <2>1, <2>2, WorkerMoves
  <2> QED
    BY <1>4, <2>3 DEF TypeInv, TypeOK, WorkerRecord, ClearChunks
<1>5. CASE ClearVectors(w)
  <2> DEFINE rec == [W EXCEPT !.at = "wiped"]
  <2>1. worker' = [worker EXCEPT ![w] = rec] /\ UNCHANGED request
    BY <1>5 DEF ClearVectors
  <2>2. /\ rec \in WorkerRecord /\ rec.doc \in Docs
        /\ rec.at = "upserted" => rec.batch \in Batches
    BY <1>5, <1>t DEF ClearVectors, WorkerRecord, WorkerAt, InIndexer
  <2>3. worker' \in [Workers -> WorkerRecord] /\ HolderInv'
    BY <2>1, <2>2, WorkerMoves
  <2> QED
    BY <1>5, <2>3 DEF TypeInv, TypeOK, WorkerRecord, ClearVectors
<1>6. CASE Captioning(w)
  <2> DEFINE rec == IF RowExists(W.job) THEN [W EXCEPT !.at = "wiped", !.dirty = {}]
                   ELSE [W EXCEPT !.at = "wiped"]
  <2>1. worker' = [worker EXCEPT ![w] = rec] /\ UNCHANGED request
    BY <1>6 DEF Captioning, Stage
  <2>2. /\ rec \in WorkerRecord /\ rec.doc \in Docs
        /\ rec.at = "upserted" => rec.batch \in Batches
    BY <1>6, <1>t DEF Captioning, WorkerRecord, WorkerAt, InIndexer, Stage
  <2>3. worker' \in [Workers -> WorkerRecord] /\ HolderInv'
    BY <2>1, <2>2, WorkerMoves
  <2>4. jobs' \in [JobIds -> JobRecord] /\ pg' \in [Docs -> SUBSET Batches]
    <3>1. jobs \in [JobIds -> JobRecord] /\ pg \in [Docs -> SUBSET Batches]
      BY DEF TypeInv, TypeOK, JobRecord
    <3>2. CASE RowExists(W.job)
      <4>1. jobs' = [jobs EXCEPT ![W.job].status = "CAPTIONING"]
        BY <1>6, <3>2 DEF Captioning, Stage
      <4>2. pg' = [pg EXCEPT ![W.doc] = pg[W.doc] \ W.dirty]
        BY <1>6, <3>2 DEF Captioning, Stage
      <4>3. jobs' \in [JobIds -> JobRecord]
        BY <3>2, <4>1, JobRowType DEF RowStatus
      <4> QED
        BY <3>1, <4>2, <4>3
    <3> QED
      BY <1>6, <3>1, <3>2 DEF Captioning, Stage
  <2> QED
    BY <1>6, <2>3, <2>4 DEF TypeInv, TypeOK, WorkerRecord, JobRecord, Captioning
<1>7. CASE Indexing(w)
  <2> DEFINE rec == IF RowExists(W.job) THEN [W EXCEPT !.at = "staged", !.dirty = {}]
                   ELSE [W EXCEPT !.at = "staged"]
  <2>1. worker' = [worker EXCEPT ![w] = rec] /\ UNCHANGED request
    BY <1>7 DEF Indexing, Stage
  <2>2. /\ rec \in WorkerRecord /\ rec.doc \in Docs
        /\ rec.at = "upserted" => rec.batch \in Batches
    BY <1>7, <1>t DEF Indexing, WorkerRecord, WorkerAt, InIndexer, Stage
  <2>3. worker' \in [Workers -> WorkerRecord] /\ HolderInv'
    BY <2>1, <2>2, WorkerMoves
  <2>4. jobs' \in [JobIds -> JobRecord] /\ pg' \in [Docs -> SUBSET Batches]
    <3>1. jobs \in [JobIds -> JobRecord] /\ pg \in [Docs -> SUBSET Batches]
      BY DEF TypeInv, TypeOK, JobRecord
    <3>2. CASE RowExists(W.job)
      <4>1. jobs' = [jobs EXCEPT ![W.job].status = "INDEXING"]
        BY <1>7, <3>2 DEF Indexing, Stage
      <4>2. pg' = [pg EXCEPT ![W.doc] = pg[W.doc] \ W.dirty]
        BY <1>7, <3>2 DEF Indexing, Stage
      <4>3. jobs' \in [JobIds -> JobRecord]
        BY <3>2, <4>1, JobRowType DEF RowStatus
      <4> QED
        BY <3>1, <4>2, <4>3
    <3> QED
      BY <1>7, <3>1, <3>2 DEF Indexing, Stage
  <2> QED
    BY <1>7, <2>3, <2>4 DEF TypeInv, TypeOK, WorkerRecord, JobRecord, Indexing
<1>8. CASE UpsertPoints(w)
  <2> DEFINE b == CHOOSE x \in Batches : x \notin UsedBatches
  <2>0. b \in Batches
    BY <1>8 DEF UpsertPoints
  <2> DEFINE rec == [W EXCEPT !.at = "upserted", !.batch = b]
  <2>1. worker' = [worker EXCEPT ![w] = rec] /\ UNCHANGED request
    BY <1>8, <2>0 DEF UpsertPoints
  <2>2. /\ rec \in WorkerRecord /\ rec.doc \in Docs
        /\ rec.at = "upserted" => rec.batch \in Batches
    BY <1>8, <1>t, <2>0 DEF UpsertPoints, WorkerRecord, WorkerAt, InIndexer
  <2>3. worker' \in [Workers -> WorkerRecord] /\ HolderInv'
    BY <2>1, <2>2, WorkerMoves
  <2> QED
    BY <1>8, <2>3, <2>0 DEF TypeInv, TypeOK, WorkerRecord, UpsertPoints
<1>9. CASE CommitIndexed(w)
  <2> DEFINE rec == [W EXCEPT !.at = "indexed", !.dirty = {}, !.batch = None]
  <2>1. worker' = [worker EXCEPT ![w] = rec] /\ UNCHANGED request
    BY <1>9 DEF CommitIndexed
  <2>2. /\ rec \in WorkerRecord /\ rec.doc \in Docs
        /\ rec.at = "upserted" => rec.batch \in Batches
    BY <1>9, <1>t DEF CommitIndexed, WorkerRecord, WorkerAt, InIndexer
  <2>3. worker' \in [Workers -> WorkerRecord] /\ HolderInv'
    BY <2>1, <2>2, WorkerMoves
  <2> QED
    BY <1>9, <2>3, <1>t DEF TypeInv, TypeOK, WorkerRecord, CommitIndexed, LiveStatus
<1>10. CASE IndexFails(w)
  <2> DEFINE rec == [W EXCEPT !.at = "failed", !.dirty = {}, !.batch = None]
  <2>1. worker' = [worker EXCEPT ![w] = rec] /\ UNCHANGED request
    BY <1>10 DEF IndexFails
  <2>2. /\ rec \in WorkerRecord /\ rec.doc \in Docs
        /\ rec.at = "upserted" => rec.batch \in Batches
    BY <1>10, <1>t DEF IndexFails, WorkerRecord, WorkerAt, InIndexer
  <2>3. worker' \in [Workers -> WorkerRecord] /\ HolderInv'
    BY <2>1, <2>2, WorkerMoves
  <2> QED
    BY <1>10, <2>3 DEF TypeInv, TypeOK, WorkerRecord, IndexFails, LiveStatus
<1>11. CASE JobIndexed(w)
  <2> DEFINE rec == IdleWorker
  <2>1. worker' = [worker EXCEPT ![w] = rec] /\ UNCHANGED request
    BY <1>11 DEF JobIndexed
  <2>2. worker' \in [Workers -> WorkerRecord] /\ HolderInv'
    BY <1>i, <2>1, WorkerMoves
  <2>3. jobs' \in [JobIds -> JobRecord]
    BY <1>11, JobRowType DEF JobIndexed, JobRowGets, RowStatus, TypeInv, TypeOK, JobRecord
  <2> QED
    BY <1>11, <2>2, <2>3 DEF TypeInv, TypeOK, WorkerRecord, JobRecord, JobIndexed
<1>12. CASE JobFailed(w)
  <2> DEFINE rec == [W EXCEPT !.at = IF WillRetry(W.attempt) THEN "requeue" ELSE "dead"]
  <2>1. worker' = [worker EXCEPT ![w] = rec] /\ UNCHANGED request
    BY <1>12 DEF JobFailed
  <2>2. /\ rec \in WorkerRecord /\ rec.doc \in Docs
        /\ rec.at = "upserted" => rec.batch \in Batches
    BY <1>12, <1>t DEF JobFailed, WorkerRecord, WorkerAt, InIndexer
  <2>3. worker' \in [Workers -> WorkerRecord] /\ HolderInv'
    BY <2>1, <2>2, WorkerMoves
  <2>4. jobs' \in [JobIds -> JobRecord]
    BY <1>12, JobRowType DEF JobFailed, JobRowGets, RowStatus, TypeInv, TypeOK, JobRecord
  <2> QED
    BY <1>12, <2>3, <2>4 DEF TypeInv, TypeOK, WorkerRecord, JobRecord, JobFailed
<1>13. CASE Requeue(w)
  <2>0. queue' \in Seq(Entry)
    <3>1. [doc |-> W.doc, attempt |-> W.attempt + 1, job |-> W.job] \in Entry
      BY <1>13, <1>t DEF Requeue, WorkerRecord, Entry
    <3> QED
      BY <1>13, <3>1, PushType DEF Requeue, TypeInv, TypeOK
  <2> DEFINE rec == IdleWorker
  <2>1. worker' = [worker EXCEPT ![w] = rec] /\ UNCHANGED request
    BY <1>13 DEF Requeue
  <2>2. worker' \in [Workers -> WorkerRecord] /\ HolderInv'
    BY <1>i, <2>1, WorkerMoves
  <2> QED
    BY <1>13, <2>2, <2>0 DEF TypeInv, TypeOK, WorkerRecord, Requeue
<1>14. CASE DeadLetter(w)
  <2>0. dlq' \in Seq(Entry)
    <3>1. [doc |-> W.doc, attempt |-> W.attempt, job |-> W.job] \in Entry
      BY <1>14, <1>t DEF DeadLetter, WorkerRecord, Entry
    <3> QED
      BY <1>14, <3>1, PushType DEF DeadLetter, TypeInv, TypeOK
  <2> DEFINE rec == IdleWorker
  <2>1. worker' = [worker EXCEPT ![w] = rec] /\ UNCHANGED request
    BY <1>14 DEF DeadLetter
  <2>2. worker' \in [Workers -> WorkerRecord] /\ HolderInv'
    BY <1>i, <2>1, WorkerMoves
  <2> QED
    BY <1>14, <2>2, <2>0 DEF TypeInv, TypeOK, WorkerRecord, DeadLetter
<1>15. CASE WorkerDies(w)
  <2> DEFINE rec == IdleWorker
  <2>1. worker' = [worker EXCEPT ![w] = rec] /\ UNCHANGED request
    BY <1>15 DEF WorkerDies
  <2>2. worker' \in [Workers -> WorkerRecord] /\ HolderInv'
    BY <1>i, <2>1, WorkerMoves
  <2> QED
    BY <1>15, <2>2, LifecycleAssumption DEF TypeInv, TypeOK, WorkerRecord, WorkerDies
<1>16. CASE JobStarted(w)
  <2> DEFINE rec == IF RowExists(W.job) THEN [W EXCEPT !.at = "begin"]
                    ELSE IF Live(W.doc) THEN [W EXCEPT !.at = "begin", !.job = NewJob]
                    ELSE IdleWorker
  <2>1. worker' = [worker EXCEPT ![w] = rec] /\ UNCHANGED request
    BY <1>16 DEF JobStarted
  <2>2. RowExists(W.job) \/ ~Live(W.doc) \/ NewJob \in JobIds
    BY <1>16, NewJobFree DEF JobStarted
  <2>3. /\ rec \in WorkerRecord
        /\ rec.at \in {"idle", "begin"}
        /\ rec.at # "idle" => rec.doc \in Docs
    BY <1>16, <1>t, <1>i, <2>2 DEF JobStarted, WorkerRecord, WorkerAt
  <2>4. worker' \in [Workers -> WorkerRecord] /\ HolderInv'
    BY <2>1, <2>3, WorkerMoves
  <2>5. jobs' \in [JobIds -> JobRecord]
    <3>1. jobs \in [JobIds -> JobRecord] /\ Row(W.doc, "PARSING") \in JobRecord
      BY <1>t DEF TypeInv, TypeOK, JobRecord, Row, RowStatus, WorkerRecord
    <3>2. CASE RowExists(W.job)
      BY <1>16, <3>1, <3>2 DEF JobStarted, JobRecord, RowStatus
    <3>3. CASE ~RowExists(W.job)
      BY <1>16, <3>1, <3>3 DEF JobStarted
    <3> QED
      BY <3>2, <3>3
  <2> QED
    BY <1>16, <2>4, <2>5 DEF TypeInv, TypeOK, WorkerRecord, JobRecord, JobStarted
<1> QED
  BY <1>1, <1>2, <1>3, <1>4, <1>5, <1>6, <1>7, <1>8, <1>9, <1>10, <1>11, <1>12,
     <1>13, <1>14, <1>15, <1>16
  DEF WorkerStep

\* The empty stores and idle workers are well typed.
LEMMA InitType == Init => TypeInv
BY LifecycleAssumption
DEF Init, TypeInv, TypeOK, HolderInv, IdleWorker, IdleRequest, WorkerAt, RequestAt, InIndexer,
    Entry

\* A stutter keeps the types.
LEMMA StutterType == TypeInv /\ UNCHANGED vars => TypeInv'
BY DEF TypeInv, TypeOK, HolderInv, vars

\* Every store, queue and progress row is well typed in every behaviour, and a busy
\* worker or request always has a document to work on.
THEOREM TypeCorrect == Spec => [](TypeOK /\ HolderInv)
<1>1. TypeInv /\ [Next]_vars => TypeInv'
  BY RequestType, WorkerType, StutterType DEF Next
<1> QED
  BY <1>1, InitType, PTL DEF Spec, TypeInv

-----------------------------------------------------------------------------
(* No document is stranded.                                                *)

\* A pushed payload is in the list with all the others.
LEMMA PushHolds ==
    ASSUME NEW list \in Seq(Entry), NEW e \in Entry, NEW d
    PROVE  /\ Holds(list, d) => Holds(Append(list, e), d)
           /\ e.doc = d => Holds(Append(list, e), d)
<1> DEFINE new == Append(list, e)
<1>1. /\ Len(new) = Len(list) + 1 /\ Len(list) \in Nat
      /\ \A i \in 1..Len(list) : new[i] = list[i]
      /\ new[Len(list) + 1] = e
      /\ DOMAIN new = 1..Len(new) /\ DOMAIN list = 1..Len(list)
  OBVIOUS
<1> QED
  BY <1>1 DEF Holds

\* A pop takes one payload and leaves the others.
LEMMA PopHolds ==
    ASSUME NEW list \in Seq(Entry), list # <<>>, NEW d, Holds(list, d)
    PROVE  Head(list).doc = d \/ Holds(Tail(list), d)
<1> DEFINE new == Tail(list)
<1>1. /\ Len(list) \in Nat /\ Len(new) = Len(list) - 1
      /\ \A i \in 1..Len(new) : new[i] = list[i + 1]
      /\ Head(list) = list[1]
      /\ DOMAIN new = 1..Len(new) /\ DOMAIN list = 1..Len(list)
  OBVIOUS
<1>2. PICK i \in 1..Len(list) : list[i].doc = d
  BY <1>1 DEF Holds
<1>3. CASE i = 1
  BY <1>1, <1>2, <1>3
<1>4. CASE i # 1
  <2>1. i - 1 \in 1..Len(new) /\ new[i - 1] = list[i]
    BY <1>1, <1>4
  <2> QED
    BY <1>1, <1>2, <2>1 DEF Holds
<1> QED
  BY <1>3, <1>4

\* When one worker moves, it counts where it arrives and the others count where
\* they were.
LEMMA WorkerMoved ==
    ASSUME TypeInv, NEW w \in Workers, NEW rec, worker' = [worker EXCEPT ![w] = rec],
           NEW d, NEW where
    PROVE  /\ rec.doc = d /\ rec.at \in where => WorkerOn(d, where)'
           /\ WorkerOn(d, where) /\ ~(worker[w].doc = d /\ worker[w].at \in where)
                => WorkerOn(d, where)'
<1>1. worker \in [Workers -> WorkerRecord]
  BY DEF TypeInv, TypeOK, WorkerRecord
<1>2. worker'[w] = rec /\ \A v \in Workers \ {w} : worker'[v] = worker[v]
  BY <1>1
<1> QED
  BY <1>2 DEF WorkerOn

\* The same for a request.
LEMMA RequestMoved ==
    ASSUME TypeInv, NEW r \in Requests, NEW rec, request' = [request EXCEPT ![r] = rec],
           NEW d, NEW where
    PROVE  /\ rec.doc = d /\ rec.at \in where => RequestOn(d, where)'
           /\ RequestOn(d, where) /\ ~(request[r].doc = d /\ request[r].at \in where)
                => RequestOn(d, where)'
<1>1. request \in [Requests -> RequestRecord]
  BY DEF TypeInv, TypeOK, RequestRecord
<1>2. request'[r] = rec /\ \A v \in Requests \ {r} : request'[v] = request[v]
  BY <1>1
<1> QED
  BY <1>2 DEF RequestOn

\* What a worker or a request does not touch counts as before.
LEMMA Untouched ==
    ASSUME NEW d, NEW where
    PROVE  /\ UNCHANGED worker => WorkerOn(d, where)' = WorkerOn(d, where)
           /\ UNCHANGED request => RequestOn(d, where)' = RequestOn(d, where)
           /\ UNCHANGED queue => InQueue(d)' = InQueue(d)
           /\ UNCHANGED dlq => InDlq(d)' = InDlq(d)
BY DEF WorkerOn, RequestOn, InQueue, InDlq, Holds

\* A handler's step keeps every document backed: a commit comes with a pending
\* push, a push and a pop carry the payload on, a deletion ends the obligation.
LEMMA RequestBacks ==
    ASSUME TypeInv, NEW d \in Docs, Backed(d), NEW r \in Requests,
           RequestStart(r) \/ RequestStep(r)
    PROVE  Backed(d)'
<1> DEFINE entry == [doc |-> request[r].doc, attempt |-> 0, job |-> request[r].job]
<1>t. docs \in [Docs -> {"absent", "deleted"} \cup LiveStatus]
  BY DEF TypeInv, TypeOK
<1>1. ASSUME NEW e \in Docs, Upload(r, e) PROVE Backed(d)'
  <2> DEFINE rec == [at |-> "enqueue", doc |-> e, job |-> NewJob]
  <2>1. request' = [request EXCEPT ![r] = rec] /\ request[r].at = "idle"
    BY <1>1 DEF Upload
  <2>2. docs' = [docs EXCEPT ![e] = "PENDING"] /\ UNCHANGED <<queue, dlq, worker>>
    BY <1>1 DEF Upload
  <2>3. d = e => RequestOn(d, {"enqueue"})'
    <3>1. rec.doc = e /\ rec.at \in {"enqueue"}
      OBVIOUS
    <3> HIDE DEF rec
    <3> QED
      BY <2>1, <3>1, RequestMoved
  <2> QED
    BY <1>t, <2>1, <2>2, <2>3, RequestMoved, Untouched DEF Backed
<1>2. ASSUME NEW e \in Docs, Reindex(r, e) PROVE Backed(d)'
  <2> DEFINE rec == [at |-> "enqueue", doc |-> e, job |-> NewJob]
  <2>1. request' = [request EXCEPT ![r] = rec] /\ request[r].at = "idle"
    BY <1>2 DEF Reindex
  <2>2. docs' = [docs EXCEPT ![e] = "PENDING"] /\ UNCHANGED <<queue, dlq, worker>>
    BY <1>2 DEF Reindex
  <2>3. d = e => RequestOn(d, {"enqueue"})'
    <3>1. rec.doc = e /\ rec.at \in {"enqueue"}
      OBVIOUS
    <3> HIDE DEF rec
    <3> QED
      BY <2>1, <3>1, RequestMoved
  <2> QED
    BY <1>t, <2>1, <2>2, <2>3, RequestMoved, Untouched DEF Backed
<1>3. ASSUME NEW e \in Docs, DeleteVectors(r, e) PROVE Backed(d)'
  <2> DEFINE rec == [at |-> "del_files", doc |-> e, job |-> None]
  <2>1. request' = [request EXCEPT ![r] = rec] /\ request[r].at = "idle"
    BY <1>3 DEF DeleteVectors
  <2>2. UNCHANGED <<docs, queue, dlq, worker>>
    BY <1>3 DEF DeleteVectors
  <2> QED
    BY <2>1, <2>2, RequestMoved, Untouched DEF Backed
<1>4. CASE RequeuePop(r)
  <2> DEFINE rec == [at |-> "requeue", doc |-> Head(dlq).doc, job |-> Head(dlq).job]
  <2>1. request' = [request EXCEPT ![r] = rec] /\ request[r].at = "idle"
    BY <1>4 DEF RequeuePop
  <2>2. UNCHANGED <<docs, queue, worker>>
    BY <1>4 DEF RequeuePop
  <2>3. InDlq(d) => InDlq(d)' \/ RequestOn(d, {"requeue"})'
    <3>1. dlq \in Seq(Entry) /\ dlq # <<>> /\ dlq' = Tail(dlq)
      BY <1>4 DEF RequeuePop, TypeInv, TypeOK
    <3>2. Head(dlq).doc = d => RequestOn(d, {"requeue"})'
      <4>1. rec.doc = Head(dlq).doc /\ rec.at \in {"requeue"}
        OBVIOUS
      <4> HIDE DEF rec
      <4> QED
        BY <2>1, <4>1, RequestMoved
    <3> QED
      BY <3>1, <3>2, PopHolds DEF InDlq
  <2> QED
    BY <2>1, <2>2, <2>3, RequestMoved, Untouched DEF Backed
<1>5. CASE Enqueue(r) \/ RequeuePush(r)
  <2>1. /\ request' = [request EXCEPT ![r] = IdleRequest]
        /\ request[r].at \in {"enqueue", "requeue"} /\ queue' = Append(queue, entry)
    BY <1>5 DEF Enqueue, RequeuePush
  <2>2. UNCHANGED <<docs, dlq, worker>>
    BY <1>5 DEF Enqueue, RequeuePush
  <2>3. queue \in Seq(Entry) /\ entry \in Entry
    BY <2>1 DEF TypeInv, TypeOK, HolderInv, Entry
  <2>4. (InQueue(d) => InQueue(d)') /\ (request[r].doc = d => InQueue(d)')
    BY <2>1, <2>3, PushHolds DEF InQueue
  <2> QED
    BY <2>1, <2>2, <2>4, RequestMoved, Untouched DEF Backed
<1>6. CASE DeleteFiles(r)
  <2>1. /\ request' = [request EXCEPT ![r] = [request[r] EXCEPT !.at = "del_row"]]
        /\ request[r].at = "del_files"
    BY <1>6 DEF DeleteFiles
  <2>2. UNCHANGED <<docs, queue, dlq, worker>>
    BY <1>6 DEF DeleteFiles
  <2> QED
    BY <2>1, <2>2, RequestMoved, Untouched DEF Backed
<1>7. CASE DeleteRow(r)
  <2>1. request' = [request EXCEPT ![r] = IdleRequest] /\ request[r].at = "del_row"
    BY <1>7 DEF DeleteRow
  <2>2. docs' = [docs EXCEPT ![request[r].doc] = "deleted"] /\ UNCHANGED <<queue, dlq, worker>>
    BY <1>7 DEF DeleteRow
  <2> QED
    BY <1>t, <2>1, <2>2, RequestMoved, Untouched DEF Backed
<1> QED
  BY <1>1, <1>2, <1>3, <1>4, <1>5, <1>6, <1>7 DEF RequestStart, RequestStep

\* A worker that moves within the part of its run that backs the document, or
\* outside of it, leaves the document backed.
LEMMA WorkerStays ==
    ASSUME TypeInv, NEW d \in Docs, Backed(d), NEW w \in Workers, NEW rec,
           worker' = [worker EXCEPT ![w] = rec],
           UNCHANGED <<docs, request, queue, dlq>>,
           \A where \in {Starting, InIndexer, Retrying} :
               worker[w].doc = d /\ worker[w].at \in where => rec.doc = d /\ rec.at \in where
    PROVE  Backed(d)'
<1>1. \A where \in {Starting, InIndexer, Retrying} :
          WorkerOn(d, where) => WorkerOn(d, where)'
  BY WorkerMoved
<1> QED
  BY <1>1, Untouched DEF Backed

\* A worker's step keeps every document backed: the status it writes is the one its
\* next steps, or the payload it pushes, will change.
LEMMA WorkerBacks ==
    ASSUME TypeInv, NEW d \in Docs, Backed(d), NEW w \in Workers,
           WorkerStep(w) \/ Captioning(w)
    PROVE  Backed(d)'
<1> DEFINE W == worker[w]
<1>t. /\ docs \in [Docs -> {"absent", "deleted"} \cup LiveStatus]
      /\ W \in WorkerRecord
      /\ W.at # "idle" => W.doc \in Docs
  BY DEF TypeInv, TypeOK, HolderInv, WorkerRecord
<1>1. CASE ClearChunks(w)
  <2> DEFINE rec == [W EXCEPT !.at = "cleared", !.dirty = pg[W.doc]]
  <2>1. worker' = [worker EXCEPT ![w] = rec] /\ UNCHANGED <<docs, request, queue, dlq>>
    BY <1>1 DEF ClearChunks
  <2>2. W.at = "parsing" /\ rec.doc = W.doc /\ rec.at = "cleared"
    BY <1>1, <1>t DEF ClearChunks, WorkerRecord
  <2> HIDE DEF rec
  <2> QED
    BY <2>1, <2>2, WorkerStays DEF Starting, InIndexer, Retrying
<1>2. CASE ClearVectors(w)
  <2> DEFINE rec == [W EXCEPT !.at = "wiped"]
  <2>1. worker' = [worker EXCEPT ![w] = rec] /\ UNCHANGED <<docs, request, queue, dlq>>
    BY <1>2 DEF ClearVectors
  <2>2. W.at = "cleared" /\ rec.doc = W.doc /\ rec.at = "wiped"
    BY <1>2, <1>t DEF ClearVectors, WorkerRecord
  <2> HIDE DEF rec
  <2> QED
    BY <2>1, <2>2, WorkerStays DEF Starting, InIndexer, Retrying
<1>3. CASE Captioning(w)
  <2> DEFINE rec == IF RowExists(W.job) THEN [W EXCEPT !.at = "wiped", !.dirty = {}]
                   ELSE [W EXCEPT !.at = "wiped"]
  <2>1. worker' = [worker EXCEPT ![w] = rec] /\ UNCHANGED <<docs, request, queue, dlq>>
    BY <1>3 DEF Captioning, Stage
  <2>2. W.at = "wiped" /\ rec.doc = W.doc /\ rec.at = "wiped"
    BY <1>3, <1>t DEF Captioning, WorkerRecord
  <2> HIDE DEF rec
  <2> QED
    BY <2>1, <2>2, WorkerStays DEF Starting, InIndexer, Retrying
<1>4. CASE Indexing(w)
  <2> DEFINE rec == IF RowExists(W.job) THEN [W EXCEPT !.at = "staged", !.dirty = {}]
                   ELSE [W EXCEPT !.at = "staged"]
  <2>1. worker' = [worker EXCEPT ![w] = rec] /\ UNCHANGED <<docs, request, queue, dlq>>
    BY <1>4 DEF Indexing, Stage
  <2>2. W.at = "wiped" /\ rec.doc = W.doc /\ rec.at = "staged"
    BY <1>4, <1>t DEF Indexing, WorkerRecord
  <2> HIDE DEF rec
  <2> QED
    BY <2>1, <2>2, WorkerStays DEF Starting, InIndexer, Retrying
<1>5. CASE UpsertPoints(w)
  <2> DEFINE rec == [W EXCEPT !.at = "upserted",
                              !.batch = CHOOSE x \in Batches : x \notin UsedBatches]
  <2>1. worker' = [worker EXCEPT ![w] = rec] /\ UNCHANGED <<docs, request, queue, dlq>>
    BY <1>5 DEF UpsertPoints
  <2>2. W.at = "staged" /\ rec.doc = W.doc /\ rec.at = "upserted"
    BY <1>5, <1>t DEF UpsertPoints, WorkerRecord
  <2> HIDE DEF rec
  <2> QED
    BY <2>1, <2>2, WorkerStays DEF Starting, InIndexer, Retrying
<1>6. CASE JobIndexed(w)
  <2> DEFINE rec == IdleWorker
  <2>1. worker' = [worker EXCEPT ![w] = rec] /\ UNCHANGED <<docs, request, queue, dlq>>
    BY <1>6 DEF JobIndexed
  <2>2. W.at = "indexed"
    BY <1>6, <1>t DEF JobIndexed, WorkerRecord
  <2> HIDE DEF rec
  <2> QED
    BY <2>1, <2>2, WorkerStays DEF Starting, InIndexer, Retrying
<1>7. CASE JobFailed(w)
  <2> DEFINE rec == [W EXCEPT !.at = IF WillRetry(W.attempt) THEN "requeue" ELSE "dead"]
  <2>1. worker' = [worker EXCEPT ![w] = rec] /\ UNCHANGED <<docs, request, queue, dlq>>
    BY <1>7 DEF JobFailed
  <2>2. W.at = "failed" /\ rec.doc = W.doc /\ rec.at \in {"requeue", "dead"}
    BY <1>7, <1>t DEF JobFailed, WorkerRecord
  <2> HIDE DEF rec
  <2> QED
    BY <2>1, <2>2, WorkerStays DEF Starting, InIndexer, Retrying
<1>8. CASE Pop(w)
  <2> DEFINE rec == [IdleWorker EXCEPT !.at = "popped", !.doc = Head(queue).doc,
                              !.attempt = Head(queue).attempt, !.job = Head(queue).job]
  <2>1. worker' = [worker EXCEPT ![w] = rec] /\ UNCHANGED <<docs, request, dlq>>
    BY <1>8 DEF Pop
  <2>2. W.at = "idle" /\ rec.doc = Head(queue).doc /\ rec.at = "popped"
    BY <1>8 DEF Pop, IdleWorker
  <2>3. queue \in Seq(Entry) /\ queue # <<>> /\ queue' = Tail(queue)
    BY <1>8 DEF Pop, TypeInv, TypeOK
  <2> HIDE DEF rec
  <2>4. \A where \in {Starting, InIndexer, Retrying} :
            WorkerOn(d, where) => WorkerOn(d, where)'
    BY <2>1, <2>2, WorkerMoved DEF Starting, InIndexer, Retrying
  <2>5. InQueue(d) => InQueue(d)' \/ Head(queue).doc = d
    BY <2>3, PopHolds DEF InQueue
  <2>6. Head(queue).doc = d => WorkerOn(d, Starting)' /\ WorkerOn(d, Retrying)'
    <3>1. "popped" \in Starting /\ "popped" \in Retrying
      BY DEF Starting, Retrying
    <3> QED
      BY <2>1, <2>2, <3>1, WorkerMoved
  <2> QED
    BY <2>1, <2>4, <2>5, <2>6, Untouched DEF Backed
<1>9. CASE JobStarted(w)
  <2> DEFINE rec == IF RowExists(W.job) THEN [W EXCEPT !.at = "begin"]
                    ELSE IF Live(W.doc) THEN [W EXCEPT !.at = "begin", !.job = NewJob]
                    ELSE IdleWorker
  <2>1. worker' = [worker EXCEPT ![w] = rec] /\ UNCHANGED <<docs, request, queue, dlq>>
    BY <1>9 DEF JobStarted
  <2>2. W.at = "popped"
    BY <1>9 DEF JobStarted
  <2>3. Live(W.doc) => rec.doc = W.doc /\ rec.at = "begin"
    BY <1>t DEF WorkerRecord
  <2> HIDE DEF rec
  <2>4. CASE W.doc = d /\ ~Live(d)
    BY <1>t, <2>1, <2>4 DEF Backed, Live, LiveStatus
  <2>5. CASE ~(W.doc = d /\ ~Live(d))
    BY <2>1, <2>2, <2>3, <2>5, WorkerStays DEF Starting, InIndexer, Retrying
  <2> QED
    BY <2>4, <2>5
<1>10. CASE BeginIndex(w)
  <2> DEFINE rec == [W EXCEPT !.at = IF Live(W.doc) THEN "parsing" ELSE "failed"]
  <2>1. worker' = [worker EXCEPT ![w] = rec] /\ UNCHANGED <<request, queue, dlq>>
    BY <1>10 DEF BeginIndex
  <2>2. docs' = IF Live(W.doc) THEN [docs EXCEPT ![W.doc] = "PROCESSING"] ELSE docs
    BY <1>10 DEF BeginIndex
  <2>3. W.at = "begin" /\ rec.doc = W.doc /\ (Live(W.doc) => rec.at \in InIndexer)
    BY <1>10, <1>t DEF BeginIndex, WorkerRecord, InIndexer
  <2> HIDE DEF rec
  <2>4. CASE W.doc = d
    <3>1. Live(d) => WorkerOn(d, InIndexer)' /\ docs'[d] = "PROCESSING"
      BY <1>t, <2>1, <2>2, <2>3, <2>4, WorkerMoved
    <3>2. ~Live(d) => docs'[d] \notin LiveStatus
      BY <2>2, <2>4 DEF Live
    <3> QED
      BY <3>1, <3>2 DEF Backed, LiveStatus
  <2>5. CASE W.doc # d
    <3>1. docs'[d] = docs[d]
      BY <1>t, <2>2, <2>5
    <3>2. \A where \in {Starting, InIndexer, Retrying} :
              WorkerOn(d, where) => WorkerOn(d, where)'
      BY <2>1, <2>5, WorkerMoved
    <3> QED
      BY <2>1, <3>1, <3>2, Untouched DEF Backed
  <2> QED
    BY <2>4, <2>5
<1>11. CASE CommitIndexed(w) \/ IndexFails(w)
  <2> DEFINE status == IF CommitIndexed(w) THEN "INDEXED" ELSE "FAILED"
             to == IF CommitIndexed(w) THEN "indexed" ELSE "failed"
             rec == [W EXCEPT !.at = to, !.dirty = {}, !.batch = None]
  <2>1. worker' = [worker EXCEPT ![w] = rec] /\ UNCHANGED <<request, queue, dlq>>
    BY <1>11 DEF CommitIndexed, IndexFails
  <2>2. docs' = IF Live(W.doc) THEN [docs EXCEPT ![W.doc] = status] ELSE docs
    BY <1>11 DEF CommitIndexed, IndexFails
  <2>3. W.at \in InIndexer /\ rec.doc = W.doc /\ (status = "FAILED" => rec.at = "failed")
    BY <1>11, <1>t DEF CommitIndexed, IndexFails, WorkerRecord, InIndexer
  <2>4. status \in {"INDEXED", "FAILED"}
    OBVIOUS
  <2> HIDE DEF rec, status
  <2>5. CASE W.doc = d
    <3>1. status = "FAILED" => WorkerOn(d, Retrying)'
      BY <2>1, <2>3, <2>5, WorkerMoved DEF Retrying
    <3>2. Live(d) => docs'[d] = status
      BY <1>t, <2>2, <2>5
    <3>3. ~Live(d) => docs'[d] \notin LiveStatus
      BY <2>2, <2>5 DEF Live
    <3> QED
      BY <2>4, <3>1, <3>2, <3>3 DEF Backed, LiveStatus
  <2>6. CASE W.doc # d
    <3>1. docs'[d] = docs[d]
      BY <1>t, <2>2, <2>6
    <3>2. \A where \in {Starting, InIndexer, Retrying} :
              WorkerOn(d, where) => WorkerOn(d, where)'
      BY <2>1, <2>6, WorkerMoved
    <3> QED
      BY <2>1, <3>1, <3>2, Untouched DEF Backed
  <2> QED
    BY <2>5, <2>6
<1>12. CASE Requeue(w)
  <2> DEFINE entry == [doc |-> W.doc, attempt |-> W.attempt + 1, job |-> W.job]
  <2>1. /\ worker' = [worker EXCEPT ![w] = IdleWorker] /\ UNCHANGED <<docs, request, dlq>>
        /\ queue' = Append(queue, entry) /\ W.at = "requeue"
    BY <1>12 DEF Requeue
  <2>2. queue \in Seq(Entry) /\ entry \in Entry /\ entry.doc = W.doc
    BY <1>t, <2>1 DEF TypeInv, TypeOK, WorkerRecord, Entry
  <2> HIDE DEF entry
  <2>3. (InQueue(d) => InQueue(d)') /\ (W.doc = d => InQueue(d)')
    BY <2>1, <2>2, PushHolds DEF InQueue
  <2>4. \A where \in {Starting, InIndexer} : WorkerOn(d, where) => WorkerOn(d, where)'
    BY <2>1, WorkerMoved DEF Starting, InIndexer
  <2>5. WorkerOn(d, Retrying) => WorkerOn(d, Retrying)' \/ W.doc = d
    BY <2>1, WorkerMoved
  <2> QED
    BY <2>1, <2>3, <2>4, <2>5, Untouched DEF Backed
<1>13. CASE DeadLetter(w)
  <2> DEFINE entry == [doc |-> W.doc, attempt |-> W.attempt, job |-> W.job]
  <2>1. /\ worker' = [worker EXCEPT ![w] = IdleWorker] /\ UNCHANGED <<docs, request, queue>>
        /\ dlq' = Append(dlq, entry) /\ W.at = "dead"
    BY <1>13 DEF DeadLetter
  <2>2. dlq \in Seq(Entry) /\ entry \in Entry /\ entry.doc = W.doc
    BY <1>t, <2>1 DEF TypeInv, TypeOK, WorkerRecord, Entry
  <2> HIDE DEF entry
  <2>3. (InDlq(d) => InDlq(d)') /\ (W.doc = d => InDlq(d)')
    BY <2>1, <2>2, PushHolds DEF InDlq
  <2>4. \A where \in {Starting, InIndexer} : WorkerOn(d, where) => WorkerOn(d, where)'
    BY <2>1, WorkerMoved DEF Starting, InIndexer
  <2>5. WorkerOn(d, Retrying) => WorkerOn(d, Retrying)' \/ W.doc = d
    BY <2>1, WorkerMoved
  <2> QED
    BY <2>1, <2>3, <2>4, <2>5, Untouched DEF Backed
<1> QED
  BY <1>1, <1>2, <1>3, <1>4, <1>5, <1>6, <1>7, <1>8, <1>9, <1>10, <1>11, <1>12, <1>13
  DEF WorkerStep

\* Faults are counted, never forgotten.
LEMMA FaultsCounted ==
    ASSUME TypeInv, [Next]_vars, workerFaults' = 0, requestFaults' = 0
    PROVE  /\ workerFaults = 0 /\ requestFaults = 0
           /\ \/ \E r \in Requests : RequestStart(r) \/ RequestStep(r)
              \/ \E w \in Workers : WorkerStep(w) \/ Captioning(w)
              \/ UNCHANGED vars
<1>1. workerFaults \in Nat /\ requestFaults \in Nat
  BY LifecycleAssumption DEF TypeInv, TypeOK
<1>2. ASSUME NEW r \in Requests PROVE ~RequestDies(r)
  BY <1>1 DEF RequestDies
<1>3. ASSUME NEW w \in Workers PROVE ~TrackingFails(w) /\ ~WorkerDies(w)
  BY <1>1 DEF TrackingFails, WorkerDies
<1>4. ASSUME NEW r \in Requests, RequestStart(r) \/ RequestStep(r)
      PROVE  UNCHANGED <<workerFaults, requestFaults>>
  BY <1>4 DEF RequestStart, RequestStep, Upload, Reindex, DeleteVectors, RequeuePop, Enqueue,
              DeleteFiles, DeleteRow, RequeuePush
<1>5. ASSUME NEW w \in Workers, WorkerStep(w) \/ Captioning(w)
      PROVE  UNCHANGED <<workerFaults, requestFaults>>
  BY <1>5 DEF WorkerStep, Captioning, Pop, JobStarted, BeginIndex, ClearChunks, ClearVectors,
              Indexing, UpsertPoints, CommitIndexed, IndexFails, JobIndexed, JobFailed,
              Requeue, DeadLetter
<1> QED
  BY <1>2, <1>3, <1>4, <1>5 DEF Next, vars

\* For any number of documents, workers and requests: as long as no process dies
\* between two steps, no interleaving leaves a document PENDING, PROCESSING or
\* FAILED without a payload, a worker or a dead letter that accounts for it.
THEOREM NothingStranded == Spec => []NoDocumentStranded
<1>1. Init => NoDocumentStranded
  BY DEF Init, NoDocumentStranded, Backed
<1>2. TypeInv /\ NoDocumentStranded /\ [Next]_vars => NoDocumentStranded'
  <2> SUFFICES ASSUME TypeInv, NoDocumentStranded, [Next]_vars,
                      workerFaults' = 0, requestFaults' = 0, NEW d \in Docs
               PROVE  Backed(d)'
    BY DEF NoDocumentStranded
  <2>1. Backed(d)
    BY FaultsCounted DEF NoDocumentStranded
  <2>2. CASE UNCHANGED vars
    BY <2>1, <2>2, Untouched DEF Backed, vars
  <2> QED
    BY <2>1, <2>2, FaultsCounted, RequestBacks, WorkerBacks
<1> QED
  BY <1>1, <1>2, TypeCorrect, PTL DEF Spec, TypeInv

-----------------------------------------------------------------------------
(* A deleted document stays gone.                                          *)

\* The chunks of a deleted document are gone with its row.
GoneInv == \A d \in Docs : docs[d] = "deleted" => pg[d] = {}

\* No step of a request gives a deleted document a row, a chunk or a vector.
LEMMA RequestLeavesGone ==
    ASSUME TypeInv, GoneInv, NEW d \in Docs, NEW r \in Requests,
           RequestStart(r) \/ RequestStep(r) \/ RequestDies(r)
    PROVE  /\ docs[d] = "deleted" => docs'[d] = "deleted" /\ qdrant'[d] \subseteq qdrant[d]
           /\ docs'[d] = "deleted" => pg'[d] = {}
<1> DEFINE Goal == /\ docs[d] = "deleted" => docs'[d] = "deleted" /\ qdrant'[d] \subseteq qdrant[d]
                   /\ docs'[d] = "deleted" => pg'[d] = {}
<1> USE DEF TypeInv, TypeOK, GoneInv
<1>1. ASSUME NEW e \in Docs, Upload(r, e) PROVE Goal
  BY <1>1 DEF Upload
<1>2. ASSUME NEW e \in Docs, Reindex(r, e) PROVE Goal
  BY <1>2 DEF Reindex, Live, LiveStatus
<1>3. ASSUME NEW e \in Docs, DeleteVectors(r, e) PROVE Goal
  BY <1>3 DEF DeleteVectors
<1>4. CASE DeleteRow(r)
  BY <1>4 DEF DeleteRow
<1>5. CASE RequeuePop(r) \/ Enqueue(r) \/ DeleteFiles(r) \/ RequeuePush(r) \/ RequestDies(r)
  BY <1>5 DEF RequeuePop, Enqueue, DeleteFiles, RequeuePush, RequestDies
<1> QED
  BY <1>1, <1>2, <1>3, <1>4, <1>5 DEF RequestStart, RequestStep

\* No step of a worker gives a deleted document a row or a chunk, and only one in
\* the middle of indexing it can still write a vector.
LEMMA WorkerLeavesGone ==
    ASSUME TypeInv, GoneInv, NEW d \in Docs, NEW w \in Workers,
           WorkerStep(w) \/ Captioning(w) \/ TrackingFails(w) \/ WorkerDies(w)
    PROVE  /\ docs[d] = "deleted" => docs'[d] = "deleted"
           /\ docs'[d] = "deleted" => pg'[d] = {}
           /\ WorkerOn(d, InIndexer) \/ qdrant'[d] \subseteq qdrant[d]
<1> DEFINE Goal == /\ docs[d] = "deleted" => docs'[d] = "deleted"
                   /\ docs'[d] = "deleted" => pg'[d] = {}
                   /\ WorkerOn(d, InIndexer) \/ qdrant'[d] \subseteq qdrant[d]
<1> DEFINE W == worker[w]
<1>t. /\ docs \in [Docs -> {"absent", "deleted"} \cup LiveStatus]
      /\ pg \in [Docs -> SUBSET Batches] /\ qdrant \in [Docs -> SUBSET Batches]
  BY DEF TypeInv, TypeOK
<1>1. CASE \/ Pop(w) \/ JobStarted(w) \/ TrackingFails(w) \/ ClearChunks(w) \/ JobIndexed(w)
           \/ JobFailed(w) \/ Requeue(w) \/ DeadLetter(w) \/ WorkerDies(w)
  <2>1. UNCHANGED <<docs, pg, qdrant>>
    BY <1>1 DEF Pop, JobStarted, TrackingFails, ClearChunks, JobIndexed, JobFailed, Requeue,
                DeadLetter, WorkerDies
  <2> QED
    BY <2>1 DEF GoneInv
<1>2. CASE BeginIndex(w) \/ IndexFails(w)
  <2>1. /\ UNCHANGED <<pg, qdrant>>
        /\ \/ docs' = docs
           \/ docs' = [docs EXCEPT ![W.doc] = "PROCESSING"] /\ Live(W.doc)
           \/ docs' = [docs EXCEPT ![W.doc] = "FAILED"] /\ Live(W.doc)
    BY <1>2 DEF BeginIndex, IndexFails
  <2> QED
    BY <1>t, <2>1 DEF GoneInv, Live, LiveStatus
<1>3. CASE ClearVectors(w)
  <2>1. UNCHANGED <<docs, pg>> /\ qdrant' = [qdrant EXCEPT ![W.doc] = {}]
    BY <1>3 DEF ClearVectors
  <2> QED
    BY <1>t, <2>1 DEF GoneInv
<1>4. CASE Captioning(w) \/ Indexing(w)
  <2>1. /\ UNCHANGED <<docs, qdrant>>
        /\ pg' = pg \/ pg' = [pg EXCEPT ![W.doc] = pg[W.doc] \ W.dirty]
    BY <1>4 DEF Captioning, Indexing, Stage
  <2> QED
    BY <1>t, <2>1 DEF GoneInv
<1>5. CASE UpsertPoints(w)
  <2>1. /\ UNCHANGED <<docs, pg>> /\ W.at \in InIndexer
        /\ \E b \in Batches : qdrant' = [qdrant EXCEPT ![W.doc] = qdrant[W.doc] \cup {b}]
    BY <1>5 DEF UpsertPoints, InIndexer
  <2>2. W.doc = d => WorkerOn(d, InIndexer)
    BY <2>1 DEF WorkerOn
  <2> QED
    BY <1>t, <2>1, <2>2 DEF GoneInv
<1>6. CASE CommitIndexed(w)
  <2>1. /\ UNCHANGED qdrant /\ Live(W.doc)
        /\ docs' = [docs EXCEPT ![W.doc] = "INDEXED"]
        /\ \A e \in Docs : e # W.doc => pg'[e] = pg[e]
    BY <1>6, <1>t DEF CommitIndexed
  <2> QED
    BY <1>t, <2>1 DEF GoneInv, Live, LiveStatus
<1> QED
  BY <1>1, <1>2, <1>3, <1>4, <1>5, <1>6 DEF WorkerStep

\* With crashes, lost pushes and dying requests included: once a document is deleted
\* and no worker is inside its indexing, nothing brings any of it back.
THEOREM GoneForGood == Spec => DeletedStaysGone
<1>1. Init => GoneInv
  BY DEF Init, GoneInv
<1> DEFINE Stays(d) == docs[d] = "deleted" /\ ~WorkerOn(d, InIndexer) =>
                          /\ docs'[d] = "deleted"
                          /\ pg'[d] = {}
                          /\ qdrant'[d] \subseteq qdrant[d]
<1>2. TypeInv /\ GoneInv /\ [Next]_vars => GoneInv' /\ \A d \in Docs : Stays(d)
  <2> SUFFICES ASSUME TypeInv, GoneInv, [Next]_vars, NEW d \in Docs
               PROVE  (docs'[d] = "deleted" => pg'[d] = {}) /\ Stays(d)
    BY DEF GoneInv
  <2>1. CASE UNCHANGED vars
    BY <2>1 DEF vars, GoneInv
  <2>2. CASE Next
    BY <2>2, RequestLeavesGone, WorkerLeavesGone DEF Next
  <2> QED
    BY <2>1, <2>2
<1>3. TypeInv /\ GoneInv /\ [Next]_vars => [\A d \in Docs : Stays(d)]_vars
  BY <1>2
<1> QED
  BY <1>1, <1>2, <1>3, TypeCorrect, PTL DEF Spec, TypeInv, DeletedStaysGone

-----------------------------------------------------------------------------
(* What each step of a worker makes of its record.                         *)

\* The record of worker w, field by field, after a step; the other workers are as before.
Becomes(w, at, doc, attempt, job) ==
    /\ \A v \in Workers \ {w} : worker'[v] = worker[v]
    /\ worker'[w].at = at /\ worker'[w].doc = doc
    /\ worker'[w].attempt = attempt /\ worker'[w].job = job
Holding(w, dirty, batch) == worker'[w].dirty = dirty /\ worker'[w].batch = batch

\* A worker whose step is done waits for the next payload.
Rests(w) == Becomes(w, "idle", None, 0, None) /\ Holding(w, {}, None)

\* A worker's record is replaced as a whole.
LEMMA Replaced ==
    ASSUME TypeInv, NEW w \in Workers, NEW rec, worker' = [worker EXCEPT ![w] = rec]
    PROVE  worker'[w] = rec /\ \A v \in Workers \ {w} : worker'[v] = worker[v]
BY DEF TypeInv, TypeOK

\* So is that of a worker that has done with its payload.
LEMMA RestsWhenIdle ==
    ASSUME TypeInv, NEW w \in Workers, worker' = [worker EXCEPT ![w] = IdleWorker]
    PROVE  Rests(w)
<1>1. worker'[w] = IdleWorker /\ \A v \in Workers \ {w} : worker'[v] = worker[v]
  BY Replaced
<1>2. /\ IdleWorker.at = "idle" /\ IdleWorker.doc = None /\ IdleWorker.attempt = 0
      /\ IdleWorker.job = None /\ IdleWorker.dirty = {} /\ IdleWorker.batch = None
  BY DEF IdleWorker
<1> QED
  BY <1>1, <1>2 DEF Rests, Becomes, Holding

\* The steps that take a payload on, and those of the tracking.
LEMMA StartFields ==
    ASSUME TypeInv, NEW w \in Workers
    PROVE  /\ Pop(w) => /\ Becomes(w, "popped", Head(queue).doc, Head(queue).attempt, Head(queue).job)
                        /\ Holding(w, {}, None)
           /\ JobStarted(w) =>
                \/ /\ RowExists(worker[w].job) \/ Live(worker[w].doc)
                   /\ Becomes(w, "begin", worker[w].doc, worker[w].attempt,
                              IF RowExists(worker[w].job) THEN worker[w].job ELSE NewJob)
                \/ ~RowExists(worker[w].job) /\ ~Live(worker[w].doc) /\ Rests(w)
           /\ TrackingFails(w) => Becomes(w, "begin", worker[w].doc, worker[w].attempt, None)
           /\ BeginIndex(w) => Becomes(w, IF Live(worker[w].doc) THEN "parsing" ELSE "failed",
                                       worker[w].doc, worker[w].attempt, worker[w].job)
<1> DEFINE W == worker[w]
<1>t. W \in WorkerRecord
  BY DEF TypeInv, TypeOK, WorkerRecord
<1>1. ASSUME Pop(w)
      PROVE  /\ Becomes(w, "popped", Head(queue).doc, Head(queue).attempt, Head(queue).job)
             /\ Holding(w, {}, None)
  <2> DEFINE rec == [IdleWorker EXCEPT !.at = "popped", !.doc = Head(queue).doc,
                              !.attempt = Head(queue).attempt, !.job = Head(queue).job]
  <2>1. worker' = [worker EXCEPT ![w] = rec]
    BY <1>1 DEF Pop
  <2>2. /\ rec.at = "popped" /\ rec.doc = Head(queue).doc /\ rec.attempt = Head(queue).attempt
        /\ rec.job = Head(queue).job /\ rec.dirty = {} /\ rec.batch = None
    BY DEF IdleWorker
  <2> HIDE DEF rec
  <2> QED
    BY <2>1, <2>2, Replaced DEF Becomes, Holding
<1>2. ASSUME JobStarted(w), RowExists(W.job)
      PROVE  Becomes(w, "begin", W.doc, W.attempt, W.job)
  <2> DEFINE rec == [W EXCEPT !.at = "begin"]
  <2>1. worker' = [worker EXCEPT ![w] = rec]
    BY <1>2 DEF JobStarted
  <2>2. rec.at = "begin" /\ rec.doc = W.doc /\ rec.attempt = W.attempt /\ rec.job = W.job
    BY <1>t DEF WorkerRecord
  <2> HIDE DEF rec
  <2> QED
    BY <2>1, <2>2, Replaced DEF Becomes
<1>3. ASSUME JobStarted(w), ~RowExists(W.job), Live(W.doc)
      PROVE  Becomes(w, "begin", W.doc, W.attempt, NewJob)
  <2> DEFINE rec == [W EXCEPT !.at = "begin", !.job = NewJob]
  <2>1. worker' = [worker EXCEPT ![w] = rec]
    BY <1>3 DEF JobStarted
  <2>2. rec.at = "begin" /\ rec.doc = W.doc /\ rec.attempt = W.attempt /\ rec.job = NewJob
    BY <1>t DEF WorkerRecord
  <2> HIDE DEF rec
  <2> QED
    BY <2>1, <2>2, Replaced DEF Becomes
<1>4. ASSUME JobStarted(w), ~RowExists(W.job), ~Live(W.doc) PROVE Rests(w)
  BY <1>4, RestsWhenIdle DEF JobStarted
<1>5. ASSUME TrackingFails(w) PROVE Becomes(w, "begin", W.doc, W.attempt, None)
  <2> DEFINE rec == [W EXCEPT !.at = "begin", !.job = None]
  <2>1. worker' = [worker EXCEPT ![w] = rec]
    BY <1>5 DEF TrackingFails
  <2>2. rec.at = "begin" /\ rec.doc = W.doc /\ rec.attempt = W.attempt /\ rec.job = None
    BY <1>t DEF WorkerRecord
  <2> HIDE DEF rec
  <2> QED
    BY <2>1, <2>2, Replaced DEF Becomes
<1>6. ASSUME BeginIndex(w)
      PROVE  Becomes(w, IF Live(W.doc) THEN "parsing" ELSE "failed", W.doc, W.attempt, W.job)
  <2> DEFINE to == IF Live(W.doc) THEN "parsing" ELSE "failed"
             rec == [W EXCEPT !.at = to]
  <2>1. worker' = [worker EXCEPT ![w] = rec]
    BY <1>6 DEF BeginIndex
  <2>2. rec.at = to /\ rec.doc = W.doc /\ rec.attempt = W.attempt /\ rec.job = W.job
    BY <1>t DEF WorkerRecord
  <2> HIDE DEF rec
  <2> QED
    BY <2>1, <2>2, Replaced DEF Becomes
<1> QED
  BY <1>1, <1>2, <1>3, <1>4, <1>5, <1>6

\* The steps of index_document.
LEMMA IndexFields ==
    ASSUME TypeInv, NEW w \in Workers
    PROVE  /\ ClearChunks(w) => /\ Becomes(w, "cleared", worker[w].doc, worker[w].attempt, worker[w].job)
                                /\ worker'[w].dirty = pg[worker[w].doc]
           /\ ClearVectors(w) => /\ Becomes(w, "wiped", worker[w].doc, worker[w].attempt, worker[w].job)
                                 /\ worker'[w].dirty = worker[w].dirty
           /\ \A s, next : Stage(w, s, next) =>
                /\ Becomes(w, next, worker[w].doc, worker[w].attempt, worker[w].job)
                /\ worker'[w].dirty = IF RowExists(worker[w].job) THEN {} ELSE worker[w].dirty
           /\ UpsertPoints(w) =>
                /\ Becomes(w, "upserted", worker[w].doc, worker[w].attempt, worker[w].job)
                /\ Holding(w, worker[w].dirty, CHOOSE x \in Batches : x \notin UsedBatches)
           /\ CommitIndexed(w) => Becomes(w, "indexed", worker[w].doc, worker[w].attempt, worker[w].job)
           /\ IndexFails(w) => Becomes(w, "failed", worker[w].doc, worker[w].attempt, worker[w].job)
<1> DEFINE W == worker[w]
<1>t. W \in WorkerRecord
  BY DEF TypeInv, TypeOK, WorkerRecord
<1>1. ASSUME ClearChunks(w)
      PROVE  Becomes(w, "cleared", W.doc, W.attempt, W.job) /\ worker'[w].dirty = pg[W.doc]
  <2> DEFINE rec == [W EXCEPT !.at = "cleared", !.dirty = pg[W.doc]]
  <2>1. worker' = [worker EXCEPT ![w] = rec]
    BY <1>1 DEF ClearChunks
  <2>2. /\ rec.at = "cleared" /\ rec.doc = W.doc /\ rec.attempt = W.attempt /\ rec.job = W.job
        /\ rec.dirty = pg[W.doc]
    BY <1>t DEF WorkerRecord
  <2> HIDE DEF rec
  <2> QED
    BY <2>1, <2>2, Replaced DEF Becomes
<1>2. ASSUME ClearVectors(w)
      PROVE  Becomes(w, "wiped", W.doc, W.attempt, W.job) /\ worker'[w].dirty = W.dirty
  <2> DEFINE rec == [W EXCEPT !.at = "wiped"]
  <2>1. worker' = [worker EXCEPT ![w] = rec]
    BY <1>2 DEF ClearVectors
  <2>2. /\ rec.at = "wiped" /\ rec.doc = W.doc /\ rec.attempt = W.attempt /\ rec.job = W.job
        /\ rec.dirty = W.dirty
    BY <1>t DEF WorkerRecord
  <2> HIDE DEF rec
  <2> QED
    BY <2>1, <2>2, Replaced DEF Becomes
<1>3. ASSUME NEW s, NEW next, Stage(w, s, next)
      PROVE  /\ Becomes(w, next, W.doc, W.attempt, W.job)
             /\ worker'[w].dirty = IF RowExists(W.job) THEN {} ELSE W.dirty
  <2> DEFINE rec == IF RowExists(W.job) THEN [W EXCEPT !.at = next, !.dirty = {}]
                    ELSE [W EXCEPT !.at = next]
  <2>1. worker' = [worker EXCEPT ![w] = rec]
    BY <1>3 DEF Stage
  <2>2. /\ rec.at = next /\ rec.doc = W.doc /\ rec.attempt = W.attempt /\ rec.job = W.job
        /\ rec.dirty = IF RowExists(W.job) THEN {} ELSE W.dirty
    BY <1>t DEF WorkerRecord
  <2> HIDE DEF rec
  <2> QED
    BY <2>1, <2>2, Replaced DEF Becomes
<1>4. ASSUME UpsertPoints(w)
      PROVE  /\ Becomes(w, "upserted", W.doc, W.attempt, W.job)
             /\ Holding(w, W.dirty, CHOOSE x \in Batches : x \notin UsedBatches)
  <2> DEFINE b == CHOOSE x \in Batches : x \notin UsedBatches
             rec == [W EXCEPT !.at = "upserted", !.batch = b]
  <2>1. worker' = [worker EXCEPT ![w] = rec]
    BY <1>4 DEF UpsertPoints
  <2> HIDE DEF b
  <2>2. /\ rec.at = "upserted" /\ rec.doc = W.doc /\ rec.attempt = W.attempt /\ rec.job = W.job
        /\ rec.dirty = W.dirty /\ rec.batch = b
    BY <1>t DEF WorkerRecord
  <2> HIDE DEF rec
  <2> QED
    BY <2>1, <2>2, Replaced DEF Becomes, Holding, b
<1>5. ASSUME CommitIndexed(w) PROVE Becomes(w, "indexed", W.doc, W.attempt, W.job)
  <2> DEFINE rec == [W EXCEPT !.at = "indexed", !.dirty = {}, !.batch = None]
  <2>1. worker' = [worker EXCEPT ![w] = rec]
    BY <1>5 DEF CommitIndexed
  <2>2. rec.at = "indexed" /\ rec.doc = W.doc /\ rec.attempt = W.attempt /\ rec.job = W.job
    BY <1>t DEF WorkerRecord
  <2> HIDE DEF rec
  <2> QED
    BY <2>1, <2>2, Replaced DEF Becomes
<1>6. ASSUME IndexFails(w) PROVE Becomes(w, "failed", W.doc, W.attempt, W.job)
  <2> DEFINE rec == [W EXCEPT !.at = "failed", !.dirty = {}, !.batch = None]
  <2>1. worker' = [worker EXCEPT ![w] = rec]
    BY <1>6 DEF IndexFails
  <2>2. rec.at = "failed" /\ rec.doc = W.doc /\ rec.attempt = W.attempt /\ rec.job = W.job
    BY <1>t DEF WorkerRecord
  <2> HIDE DEF rec
  <2> QED
    BY <2>1, <2>2, Replaced DEF Becomes
<1> QED
  BY <1>1, <1>2, <1>3, <1>4, <1>5, <1>6

\* The steps that settle a job.
LEMMA EndFields ==
    ASSUME TypeInv, NEW w \in Workers
    PROVE  /\ JobFailed(w) => Becomes(w, IF WillRetry(worker[w].attempt) THEN "requeue" ELSE "dead",
                                      worker[w].doc, worker[w].attempt, worker[w].job)
           /\ JobIndexed(w) \/ Requeue(w) \/ DeadLetter(w) \/ WorkerDies(w) => Rests(w)
<1> DEFINE W == worker[w]
<1>t. W \in WorkerRecord
  BY DEF TypeInv, TypeOK, WorkerRecord
<1>1. ASSUME JobFailed(w)
      PROVE  Becomes(w, IF WillRetry(W.attempt) THEN "requeue" ELSE "dead", W.doc, W.attempt, W.job)
  <2> DEFINE to == IF WillRetry(W.attempt) THEN "requeue" ELSE "dead"
             rec == [W EXCEPT !.at = to]
  <2>1. worker' = [worker EXCEPT ![w] = rec]
    BY <1>1 DEF JobFailed
  <2>2. rec.at = to /\ rec.doc = W.doc /\ rec.attempt = W.attempt /\ rec.job = W.job
    BY <1>t DEF WorkerRecord
  <2> HIDE DEF rec
  <2> QED
    BY <2>1, <2>2, Replaced DEF Becomes
<1>2. ASSUME JobIndexed(w) \/ Requeue(w) \/ DeadLetter(w) \/ WorkerDies(w) PROVE Rests(w)
  BY <1>2, RestsWhenIdle DEF JobIndexed, Requeue, DeadLetter, WorkerDies
<1> QED
  BY <1>1, <1>2

-----------------------------------------------------------------------------
(* The retry budget.                                                       *)

Tries(list, S) == \A i \in DOMAIN list : list[i].attempt \in S

\* A pushed payload adds its attempt.
LEMMA PushTries ==
    ASSUME NEW list \in Seq(Entry), NEW e \in Entry, NEW S, Tries(list, S), e.attempt \in S
    PROVE  Tries(Append(list, e), S)
<1> DEFINE new == Append(list, e)
<1>1. /\ Len(new) = Len(list) + 1 /\ Len(list) \in Nat
      /\ \A i \in 1..Len(list) : new[i] = list[i]
      /\ new[Len(list) + 1] = e
      /\ DOMAIN new = 1..Len(new) /\ DOMAIN list = 1..Len(list)
  OBVIOUS
<1> QED
  BY <1>1 DEF Tries

\* A popped payload is one of those that were there.
LEMMA PopTries ==
    ASSUME NEW list \in Seq(Entry), list # <<>>, NEW S, Tries(list, S)
    PROVE  Head(list).attempt \in S /\ Tries(Tail(list), S)
<1> DEFINE new == Tail(list)
<1>1. /\ Len(list) \in Nat \ {0} /\ Len(new) = Len(list) - 1
      /\ \A i \in 1..Len(new) : new[i] = list[i + 1]
      /\ Head(list) = list[1]
      /\ DOMAIN new = 1..Len(new) /\ DOMAIN list = 1..Len(list)
  OBVIOUS
<1> QED
  BY <1>1 DEF Tries

\* A payload that waits, or that a worker is about to push again, has a try left; one that
\* is given up has none.
Budget == 0..(MaxIndexingRetries - 1)
Tried(w) ==
    /\ worker[w].at # "idle" => worker[w].attempt \in Budget
    /\ worker[w].at = "requeue" => WillRetry(worker[w].attempt)
    /\ worker[w].at = "dead" => ~WillRetry(worker[w].attempt)
BudgetInv ==
    /\ Tries(queue, Budget) /\ Tries(dlq, {MaxIndexingRetries - 1})
    /\ \A w \in Workers : Tried(w)

\* A handler pushes payloads with all their tries.
LEMMA RequestBudget ==
    ASSUME TypeInv, BudgetInv, NEW r \in Requests,
           RequestStart(r) \/ RequestStep(r) \/ RequestDies(r)
    PROVE  BudgetInv'
<1>0. /\ queue \in Seq(Entry) /\ dlq \in Seq(Entry) /\ Tries(queue, Budget)
      /\ Tries(dlq, {MaxIndexingRetries - 1}) /\ 0 \in Budget
  BY LifecycleAssumption DEF TypeInv, TypeOK, BudgetInv, Budget
<1>1. UNCHANGED worker
  BY DEF RequestStart, RequestStep, RequestDies, Upload, Reindex, DeleteVectors, RequeuePop,
         Enqueue, DeleteFiles, DeleteRow, RequeuePush
<1>2. \A w \in Workers : Tried(w)'
  BY <1>1 DEF BudgetInv, Tried
<1>3. CASE RequeuePop(r)
  <2>1. dlq # <<>> /\ dlq' = Tail(dlq) /\ queue' = queue
    BY <1>3 DEF RequeuePop
  <2>2. Tries(dlq', {MaxIndexingRetries - 1})
    BY <1>0, <2>1, PopTries
  <2> QED
    BY <1>0, <1>2, <2>1, <2>2 DEF BudgetInv
<1>4. CASE Enqueue(r) \/ RequeuePush(r)
  <2> DEFINE e == [doc |-> request[r].doc, attempt |-> 0, job |-> request[r].job]
  <2>1. /\ queue' = Append(queue, e) /\ dlq' = dlq /\ request[r].at # "idle"
    BY <1>4 DEF Enqueue, RequeuePush
  <2>2. e \in Entry /\ e.attempt = 0
    BY <2>1 DEF TypeInv, TypeOK, HolderInv, Entry
  <2> HIDE DEF e
  <2>3. Tries(queue', Budget)
    BY <1>0, <2>1, <2>2, PushTries
  <2> QED
    BY <1>0, <1>2, <2>1, <2>3 DEF BudgetInv
<1>5. CASE ~RequeuePop(r) /\ ~Enqueue(r) /\ ~RequeuePush(r)
  <2>1. UNCHANGED <<queue, dlq>>
    BY <1>5 DEF RequestStart, RequestStep, RequestDies, Upload, Reindex, DeleteVectors,
                DeleteFiles, DeleteRow
  <2> QED
    BY <1>0, <1>2, <2>1 DEF BudgetInv
<1> QED
  BY <1>3, <1>4, <1>5

\* A worker counts a failed try before it pushes the payload again.
LEMMA WorkerBudget ==
    ASSUME TypeInv, BudgetInv, NEW w \in Workers,
           WorkerStep(w) \/ Captioning(w) \/ TrackingFails(w) \/ WorkerDies(w)
    PROVE  BudgetInv'
<1> DEFINE W == worker[w]
<1>0. /\ queue \in Seq(Entry) /\ dlq \in Seq(Entry) /\ Tries(queue, Budget)
      /\ Tries(dlq, {MaxIndexingRetries - 1}) /\ W \in WorkerRecord /\ W.attempt \in Nat
      /\ MaxIndexingRetries \in Nat \ {0}
  BY LifecycleAssumption DEF TypeInv, TypeOK, BudgetInv, WorkerRecord
<1>1. \A v \in Workers : Tried(v)
  BY DEF BudgetInv
\* The others keep their record, so only this worker's is to be looked at.
<1>2. ASSUME \A v \in Workers \ {w} : worker'[v] = worker[v], Tried(w)'
      PROVE  \A v \in Workers : Tried(v)'
  <2>1. \A v \in Workers \ {w} : Tried(v)'
    BY <1>1, <1>2 DEF Tried
  <2> QED
    BY <1>2, <2>1
<1>3. CASE Pop(w)
  <2>1. queue # <<>> /\ queue' = Tail(queue) /\ dlq' = dlq
    BY <1>3 DEF Pop
  <2>2. Head(queue).attempt \in Budget /\ Tries(queue', Budget)
    BY <1>0, <2>1, PopTries
  <2>3. Becomes(w, "popped", Head(queue).doc, Head(queue).attempt, Head(queue).job)
    BY <1>3, StartFields
  <2>4. \A v \in Workers : Tried(v)'
    BY <1>2, <2>2, <2>3 DEF Becomes, Tried
  <2> QED
    BY <1>0, <2>1, <2>2, <2>4 DEF BudgetInv
<1>4. CASE Requeue(w)
  <2> DEFINE e == [doc |-> W.doc, attempt |-> W.attempt + 1, job |-> W.job]
  <2>1. queue' = Append(queue, e) /\ dlq' = dlq /\ W.at = "requeue"
    BY <1>4 DEF Requeue
  <2>2. W.doc \in Docs /\ WillRetry(W.attempt)
    BY <1>1, <2>1 DEF TypeInv, HolderInv, Tried
  <2>3. e \in Entry /\ e.attempt = W.attempt + 1
    BY <1>0, <2>2 DEF WorkerRecord, Entry
  <2>4. W.attempt + 1 \in Budget
    BY <1>0, <2>2 DEF WillRetry, Budget
  <2> HIDE DEF e
  <2>5. Tries(queue', Budget)
    BY <1>0, <2>1, <2>3, <2>4, PushTries
  <2>6. \A v \in Workers : Tried(v)'
    BY <1>2, <1>4, EndFields DEF Rests, Becomes, Tried
  <2> QED
    BY <1>0, <2>1, <2>5, <2>6 DEF BudgetInv
<1>5. CASE DeadLetter(w)
  <2> DEFINE e == [doc |-> W.doc, attempt |-> W.attempt, job |-> W.job]
  <2>1. dlq' = Append(dlq, e) /\ queue' = queue /\ W.at = "dead"
    BY <1>5 DEF DeadLetter
  <2>2. W.doc \in Docs /\ ~WillRetry(W.attempt) /\ W.attempt \in Budget
    BY <1>1, <2>1 DEF TypeInv, HolderInv, Tried
  <2>3. e \in Entry /\ e.attempt = W.attempt
    BY <1>0, <2>2 DEF WorkerRecord, Entry
  <2>4. W.attempt \in {MaxIndexingRetries - 1}
    BY <1>0, <2>2 DEF WillRetry, Budget
  <2> HIDE DEF e
  <2>5. Tries(dlq', {MaxIndexingRetries - 1})
    BY <1>0, <2>1, <2>3, <2>4, PushTries
  <2>6. \A v \in Workers : Tried(v)'
    BY <1>2, <1>5, EndFields DEF Rests, Becomes, Tried
  <2> QED
    BY <1>0, <2>1, <2>5, <2>6 DEF BudgetInv
<1>6. CASE ~Pop(w) /\ ~Requeue(w) /\ ~DeadLetter(w)
  <2>1. UNCHANGED <<queue, dlq>>
    BY <1>6 DEF WorkerStep, Captioning, TrackingFails, WorkerDies, JobStarted, BeginIndex,
                ClearChunks, ClearVectors, Indexing, UpsertPoints, CommitIndexed, IndexFails,
                JobIndexed, JobFailed
  <2>2. \/ Rests(w)
        \/ JobFailed(w)
        \/ /\ W.at # "idle"
           /\ \E job : \E at \in WorkerAt \ {"requeue", "dead"} : Becomes(w, at, W.doc, W.attempt, job)
    <3>1. CASE JobStarted(w) \/ TrackingFails(w) \/ BeginIndex(w)
      <4>1. W.at # "idle" /\ "begin" \in WorkerAt /\ "parsing" \in WorkerAt /\ "failed" \in WorkerAt
        BY <3>1 DEF JobStarted, TrackingFails, BeginIndex, WorkerAt, InIndexer
      <4> QED
        BY <3>1, <4>1, StartFields
    <3>2. CASE ClearChunks(w) \/ ClearVectors(w) \/ UpsertPoints(w) \/ CommitIndexed(w) \/ IndexFails(w)
      <4>1. /\ W.at # "idle" /\ "cleared" \in WorkerAt /\ "wiped" \in WorkerAt
            /\ "upserted" \in WorkerAt /\ "indexed" \in WorkerAt /\ "failed" \in WorkerAt
        BY <3>2 DEF ClearChunks, ClearVectors, UpsertPoints, CommitIndexed, IndexFails, WorkerAt,
                    InIndexer
      <4> QED
        BY <3>2, <4>1, IndexFields
    <3>3. CASE Captioning(w) \/ Indexing(w)
      <4>1. W.at # "idle" /\ "wiped" \in WorkerAt /\ "staged" \in WorkerAt
        BY <3>3 DEF Captioning, Indexing, WorkerAt, InIndexer
      <4>2. Stage(w, "CAPTIONING", "wiped") \/ Stage(w, "INDEXING", "staged")
        BY <3>3 DEF Captioning, Indexing
      <4> QED
        BY <4>1, <4>2, IndexFields
    <3>4. CASE JobIndexed(w) \/ WorkerDies(w)
      BY <3>4, EndFields
    <3> QED
      BY <1>6, <3>1, <3>2, <3>3, <3>4 DEF WorkerStep
  <2>3. \A v \in Workers : Tried(v)'
    <3>1. CASE Rests(w)
      BY <1>2, <3>1 DEF Rests, Becomes, Tried
    <3>2. CASE JobFailed(w)
      <4>1. /\ W.at = "failed"
            /\ Becomes(w, IF WillRetry(W.attempt) THEN "requeue" ELSE "dead", W.doc, W.attempt, W.job)
        BY <3>2, EndFields DEF JobFailed
      <4>2. W.attempt \in Budget
        BY <1>1, <4>1 DEF Tried
      <4> QED
        BY <1>2, <4>1, <4>2 DEF Becomes, Tried
    <3>3. ASSUME W.at # "idle", NEW at \in WorkerAt \ {"requeue", "dead"}, NEW job,
                 Becomes(w, at, W.doc, W.attempt, job)
          PROVE  \A v \in Workers : Tried(v)'
      <4>1. W.attempt \in Budget
        BY <1>1, <3>3 DEF Tried
      <4> QED
        BY <1>2, <3>3, <4>1 DEF Becomes, Tried
    <3> QED
      BY <2>2, <3>1, <3>2, <3>3
  <2> QED
    BY <1>0, <2>1, <2>3 DEF BudgetInv
<1> QED
  BY <1>3, <1>4, <1>5, <1>6

\* jobs.py and worker/main.py: whatever fails, a payload is pushed again until it was tried
\* MaxIndexingRetries times, and a dead letter has had all its tries.
THEOREM BudgetKept == Spec => []RetryBudget
<1>1. Init => BudgetInv
  <2> SUFFICES ASSUME Init PROVE BudgetInv
    OBVIOUS
  <2>1. queue = <<>> /\ dlq = <<>> /\ worker = [w \in Workers |-> IdleWorker]
    BY DEF Init
  <2>2. IdleWorker.at = "idle"
    BY DEF IdleWorker
  <2> QED
    BY <2>1, <2>2 DEF BudgetInv, Tries, Tried
<1>2. TypeInv /\ BudgetInv /\ [Next]_vars => BudgetInv'
  <2> SUFFICES ASSUME TypeInv, BudgetInv, [Next]_vars PROVE BudgetInv'
    OBVIOUS
  <2>1. CASE UNCHANGED vars
    BY <2>1 DEF vars, BudgetInv, Tried
  <2>2. CASE Next
    BY <2>2, RequestBudget, WorkerBudget DEF Next
  <2> QED
    BY <2>1, <2>2
<1>3. BudgetInv => RetryBudget
  BY LifecycleAssumption DEF BudgetInv, RetryBudget, Tries, Budget
<1> QED
  BY <1>1, <1>2, <1>3, TypeCorrect, PTL DEF Spec, TypeInv

-----------------------------------------------------------------------------
(* The progress rows.                                                      *)

HoldsJob(list, j) == \E i \in DOMAIN list : list[i].job = j
JobRequested(j) == \E r \in Requests : request[r].at = "enqueue" /\ request[r].job = j
JobOn(j, where) == \E w \in Workers : worker[w].job = j /\ worker[w].at \in where
Waiting == {"popped", "requeue"}
Busy == InIndexer \cup {"begin", "indexed", "failed"}
Active == {"PARSING", "CAPTIONING", "INDEXING"}

\* What a row says of its job is so.
Tracked(j) ==
    /\ jobs[j].status = "QUEUED" => JobRequested(j) \/ HoldsJob(queue, j) \/ JobOn(j, Waiting)
    /\ jobs[j].status \in Active => JobOn(j, Busy)

\* A pushed payload brings its job, and a popped one takes only its own.
LEMMA PushHoldsJob ==
    ASSUME NEW list \in Seq(Entry), NEW e \in Entry, NEW j
    PROVE  /\ HoldsJob(list, j) => HoldsJob(Append(list, e), j)
           /\ e.job = j => HoldsJob(Append(list, e), j)
<1> DEFINE new == Append(list, e)
<1>1. /\ Len(new) = Len(list) + 1 /\ Len(list) \in Nat
      /\ \A i \in 1..Len(list) : new[i] = list[i]
      /\ new[Len(list) + 1] = e
      /\ DOMAIN new = 1..Len(new) /\ DOMAIN list = 1..Len(list)
  OBVIOUS
<1> QED
  BY <1>1 DEF HoldsJob

\* The pop, which takes the first.
LEMMA PopHoldsJob ==
    ASSUME NEW list \in Seq(Entry), list # <<>>, NEW j, HoldsJob(list, j)
    PROVE  Head(list).job = j \/ HoldsJob(Tail(list), j)
<1> DEFINE new == Tail(list)
<1>1. /\ Len(list) \in Nat /\ Len(new) = Len(list) - 1
      /\ \A i \in 1..Len(new) : new[i] = list[i + 1]
      /\ Head(list) = list[1]
      /\ DOMAIN new = 1..Len(new) /\ DOMAIN list = 1..Len(list)
  OBVIOUS
<1>2. PICK i \in 1..Len(list) : list[i].job = j
  BY <1>1 DEF HoldsJob
<1>3. CASE i = 1
  BY <1>1, <1>2, <1>3
<1>4. CASE i # 1
  <2>1. i - 1 \in 1..Len(new) /\ new[i - 1] = list[i]
    BY <1>1, <1>4
  <2> QED
    BY <1>1, <1>2, <2>1 DEF HoldsJob
<1> QED
  BY <1>3, <1>4

\* A worker that moves takes its job along.
LEMMA JobMoved ==
    ASSUME NEW w \in Workers, NEW at, NEW doc, NEW attempt, NEW job,
           Becomes(w, at, doc, attempt, job), NEW j, NEW where
    PROVE  /\ job = j /\ at \in where => JobOn(j, where)'
           /\ JobOn(j, where) /\ ~(worker[w].job = j /\ worker[w].at \in where) => JobOn(j, where)'
BY DEF Becomes, JobOn

\* A handler's step makes a row for the payload it will push, pushes it, or removes it.
LEMMA RequestTracks ==
    ASSUME TypeInv, NEW j \in JobIds, Tracked(j), NEW r \in Requests,
           RequestStart(r) \/ RequestStep(r)
    PROVE  Tracked(j)'
<1>0. /\ jobs \in [JobIds -> JobRecord] /\ queue \in Seq(Entry)
      /\ request \in [Requests -> RequestRecord]
  BY DEF TypeInv, TypeOK, JobRecord, RequestRecord
<1>1. worker' = worker
  BY DEF RequestStart, RequestStep, Upload, Reindex, DeleteVectors, RequeuePop, Enqueue,
         DeleteFiles, DeleteRow, RequeuePush
<1>2. JobOn(j, Waiting)' = JobOn(j, Waiting) /\ JobOn(j, Busy)' = JobOn(j, Busy)
  BY <1>1 DEF JobOn
<1>3. ASSUME NEW d \in Docs, Upload(r, d) \/ Reindex(r, d) PROVE Tracked(j)'
  <2> DEFINE rec == [at |-> "enqueue", doc |-> d, job |-> NewJob]
  <2>1. /\ jobs' = [jobs EXCEPT ![NewJob] = Row(d, "QUEUED")]
        /\ request' = [request EXCEPT ![r] = rec] /\ request[r].at = "idle" /\ queue' = queue
    BY <1>3 DEF Upload, Reindex
  <2>2. rec.at = "enqueue" /\ rec.job = NewJob
    OBVIOUS
  <2> HIDE DEF rec
  <2>3. request'[r] = rec /\ \A o \in Requests \ {r} : request'[o] = request[o]
    BY <1>0, <2>1
  <2>4. JobRequested(j) \/ j = NewJob => JobRequested(j)'
    BY <2>1, <2>2, <2>3 DEF JobRequested
  <2>5. CASE j = NewJob
    <3>1. jobs'[j].status = "QUEUED"
      BY <1>0, <2>1, <2>5 DEF Row
    <3> QED
      BY <2>4, <2>5, <3>1 DEF Tracked, Active
  <2>6. CASE j # NewJob
    <3>1. jobs'[j] = jobs[j]
      BY <1>0, <2>1, <2>6
    <3> QED
      BY <1>2, <2>1, <2>4, <3>1 DEF Tracked
  <2> QED
    BY <2>5, <2>6
<1>4. CASE Enqueue(r) \/ RequeuePush(r)
  <2> DEFINE e == [doc |-> request[r].doc, attempt |-> 0, job |-> request[r].job]
  <2>1. /\ request' = [request EXCEPT ![r] = IdleRequest] /\ request[r].at # "idle"
        /\ queue' = Append(queue, e) /\ jobs' = jobs
    BY <1>4 DEF Enqueue, RequeuePush
  <2>2. e \in Entry /\ e.job = request[r].job
    BY <2>1 DEF TypeInv, TypeOK, HolderInv, Entry
  <2> HIDE DEF e
  <2>3. (HoldsJob(queue, j) => HoldsJob(queue', j)) /\ (request[r].job = j => HoldsJob(queue', j))
    BY <1>0, <2>1, <2>2, PushHoldsJob
  <2>4. JobRequested(j) => JobRequested(j)' \/ request[r].job = j
    BY <1>0, <2>1 DEF JobRequested
  <2> QED
    BY <1>2, <2>1, <2>3, <2>4 DEF Tracked
<1>5. CASE DeleteRow(r)
  <2>1. /\ request' = [request EXCEPT ![r] = IdleRequest] /\ request[r].at = "del_row"
        /\ queue' = queue
        /\ jobs' = [o \in JobIds |->
              IF jobs[o].doc = request[r].doc THEN [jobs[o] EXCEPT !.status = "gone"] ELSE jobs[o]]
    BY <1>5 DEF DeleteRow
  <2>2. JobRequested(j) => JobRequested(j)'
    BY <1>0, <2>1 DEF JobRequested
  <2>3. jobs'[j].status \in {"gone", jobs[j].status}
    BY <1>0, <2>1 DEF JobRecord
  <2> QED
    BY <1>2, <2>1, <2>2, <2>3 DEF Tracked, Active
<1>6. ASSUME NEW d \in Docs, DeleteVectors(r, d) PROVE Tracked(j)'
  <2>1. /\ jobs' = jobs /\ queue' = queue /\ request[r].at = "idle"
        /\ \A o \in Requests \ {r} : request'[o] = request[o]
    BY <1>0, <1>6 DEF DeleteVectors
  <2>2. JobRequested(j) => JobRequested(j)'
    BY <2>1 DEF JobRequested
  <2> QED
    BY <1>2, <2>1, <2>2 DEF Tracked
<1>7. CASE RequeuePop(r) \/ DeleteFiles(r)
  <2>1. /\ jobs' = jobs /\ queue' = queue /\ request[r].at \in {"idle", "del_files"}
        /\ \A o \in Requests \ {r} : request'[o] = request[o]
    BY <1>0, <1>7 DEF RequeuePop, DeleteFiles
  <2>2. JobRequested(j) => JobRequested(j)'
    BY <2>1 DEF JobRequested
  <2> QED
    BY <1>2, <2>1, <2>2 DEF Tracked
<1> QED
  BY <1>3, <1>4, <1>5, <1>6, <1>7 DEF RequestStart, RequestStep

\* A worker's step makes its row say where the worker now is, or leaves both.
LEMMA WorkerTracks ==
    ASSUME TypeInv, NEW j \in JobIds, Tracked(j), NEW w \in Workers,
           WorkerStep(w) \/ Captioning(w)
    PROVE  Tracked(j)'
<1> DEFINE W == worker[w]
<1>0. jobs \in [JobIds -> JobRecord] /\ queue \in Seq(Entry) /\ W \in WorkerRecord
  BY DEF TypeInv, TypeOK, JobRecord, WorkerRecord
<1>1. request' = request /\ JobRequested(j)' = JobRequested(j)
  BY DEF WorkerStep, Captioning, Pop, JobStarted, BeginIndex, ClearChunks, ClearVectors,
         Indexing, UpsertPoints, CommitIndexed, IndexFails, JobIndexed, JobFailed,
         Requeue, DeadLetter, JobRequested
<1>2. CASE Pop(w)
  <2>1. queue # <<>> /\ queue' = Tail(queue) /\ jobs' = jobs /\ W.at = "idle"
    BY <1>2 DEF Pop
  <2>2. Becomes(w, "popped", Head(queue).doc, Head(queue).attempt, Head(queue).job)
    BY <1>2, StartFields
  <2>3. HoldsJob(queue, j) => HoldsJob(queue', j) \/ JobOn(j, Waiting)'
    BY <1>0, <2>1, <2>2, PopHoldsJob, JobMoved DEF Waiting
  <2>4. /\ JobOn(j, Waiting) => JobOn(j, Waiting)'
        /\ JobOn(j, Busy) => JobOn(j, Busy)'
    BY <2>1, <2>2, JobMoved DEF Waiting, Busy, InIndexer
  <2> QED
    BY <1>1, <2>1, <2>3, <2>4 DEF Tracked
<1>3. CASE Requeue(w)
  <2> DEFINE e == [doc |-> W.doc, attempt |-> W.attempt + 1, job |-> W.job]
  <2>1. queue' = Append(queue, e) /\ jobs' = jobs /\ W.at = "requeue"
    BY <1>3 DEF Requeue
  <2>2. e \in Entry /\ e.job = W.job
    BY <1>0, <2>1 DEF TypeInv, HolderInv, WorkerRecord, Entry
  <2> HIDE DEF e
  <2>3. (HoldsJob(queue, j) => HoldsJob(queue', j)) /\ (W.job = j => HoldsJob(queue', j))
    BY <1>0, <2>1, <2>2, PushHoldsJob
  <2>4. Becomes(w, "idle", None, 0, None)
    BY <1>3, EndFields DEF Rests
  <2>5. /\ JobOn(j, Waiting) => JobOn(j, Waiting)' \/ W.job = j
        /\ JobOn(j, Busy) => JobOn(j, Busy)'
    BY <2>1, <2>4, JobMoved DEF Waiting, Busy, InIndexer
  <2> QED
    BY <1>1, <2>1, <2>3, <2>5 DEF Tracked
<1>4. CASE ~Pop(w) /\ ~Requeue(w)
  <2>1. queue' = queue
    BY <1>4 DEF WorkerStep, Captioning, JobStarted, BeginIndex, ClearChunks, ClearVectors,
         Indexing, UpsertPoints, CommitIndexed, IndexFails, JobIndexed, JobFailed, DeadLetter
\* The row the worker writes, if it writes one, and where it is then.
  <2>2. ASSUME NEW job, NEW s \in RowStatus, NEW at, NEW doc, NEW attempt,
               jobs' = (IF RowExists(job) THEN [jobs EXCEPT ![job].status = s] ELSE jobs),
               job = W.job, Becomes(w, at, doc, attempt, job),
               s = "QUEUED" => at \in Waiting, s \in Active => at \in Busy
        PROVE  Tracked(j)'
    <3>1. CASE RowExists(job) /\ j = job
      <4>1. jobs'[j].status = s
        BY <1>0, <2>2, <3>1 DEF JobRecord
      <4> QED
        BY <2>2, <3>1, <4>1, JobMoved DEF Tracked
    <3>2. CASE j # job
      <4>1. jobs'[j] = jobs[j]
        BY <1>0, <2>2, <3>2 DEF RowExists
      <4>2. /\ JobOn(j, Waiting) => JobOn(j, Waiting)'
            /\ JobOn(j, Busy) => JobOn(j, Busy)'
        BY <2>2, <3>2, JobMoved
      <4> QED
        BY <1>1, <2>1, <4>1, <4>2 DEF Tracked
    <3>3. CASE ~RowExists(job) /\ j = job
      BY <2>2, <3>3 DEF Tracked, RowExists, RowStatus, Active
    <3> QED
      BY <3>1, <3>2, <3>3
\* A step within the busy part writes no row.
  <2>3. ASSUME jobs' = jobs, NEW at \in Busy, Becomes(w, at, W.doc, W.attempt, W.job),
               W.at \in Busy
        PROVE  Tracked(j)'
    <3>1. /\ JobOn(j, Waiting) => JobOn(j, Waiting)'
          /\ JobOn(j, Busy) => JobOn(j, Busy)'
      BY <2>3, JobMoved DEF Waiting, Busy, InIndexer
    <3> QED
      BY <1>1, <2>1, <2>3, <3>1 DEF Tracked
  <2>4. CASE JobStarted(w)
    <3>1. CASE RowExists(W.job)
      <4>1. /\ jobs' = [jobs EXCEPT ![W.job].status = "PARSING"]
            /\ Becomes(w, "begin", W.doc, W.attempt, W.job)
        BY <2>4, <3>1, StartFields DEF JobStarted, Rests
      <4> QED
        BY <2>2, <3>1, <4>1 DEF RowStatus, Busy
    <3>2. CASE ~RowExists(W.job) /\ Live(W.doc)
      <4>1. /\ jobs' = [jobs EXCEPT ![NewJob] = Row(W.doc, "PARSING")] /\ W.at = "popped"
            /\ Becomes(w, "begin", W.doc, W.attempt, NewJob) /\ NewJob \in JobIds
        BY <2>4, <3>2, StartFields, NewJobFree DEF JobStarted, Rests
      <4>2. CASE j = NewJob
        <5>1. jobs'[j].status = "PARSING"
          BY <1>0, <4>1, <4>2 DEF Row
        <5> QED
          BY <4>1, <4>2, <5>1, JobMoved DEF Tracked, Busy
      <4>3. CASE j # NewJob
        <5>1. jobs'[j] = jobs[j]
          BY <1>0, <4>1, <4>3
        <5>2. jobs[j].status \in {"QUEUED"} \cup Active => j # W.job
          BY <3>2 DEF RowExists, RowStatus, Active
        <5>3. j # W.job => /\ JobOn(j, Waiting) => JobOn(j, Waiting)'
                           /\ JobOn(j, Busy) => JobOn(j, Busy)'
          BY <4>1, JobMoved
        <5> QED
          BY <1>1, <2>1, <5>1, <5>2, <5>3 DEF Tracked
      <4> QED
        BY <4>2, <4>3
    <3>3. CASE ~RowExists(W.job) /\ ~Live(W.doc)
      <4>1. jobs' = jobs /\ Becomes(w, "idle", None, 0, None)
        BY <2>4, <3>3, StartFields DEF JobStarted, Rests
      <4>2. jobs[j].status \in {"QUEUED"} \cup Active => j # W.job
        BY <3>3 DEF RowExists, RowStatus, Active
      <4>3. j # W.job => /\ JobOn(j, Waiting) => JobOn(j, Waiting)'
                         /\ JobOn(j, Busy) => JobOn(j, Busy)'
        BY <4>1, JobMoved
      <4> QED
        BY <1>1, <2>1, <4>1, <4>2, <4>3 DEF Tracked
    <3> QED
      BY <3>1, <3>2, <3>3
  <2>5. CASE BeginIndex(w)
    <3>1. jobs' = jobs /\ W.at = "begin"
      BY <2>5 DEF BeginIndex
    <3>2. Becomes(w, "parsing", W.doc, W.attempt, W.job) \/ Becomes(w, "failed", W.doc, W.attempt, W.job)
      BY <2>5, StartFields
    <3> QED
      BY <2>3, <3>1, <3>2 DEF Busy, InIndexer
  <2>6. CASE ClearChunks(w) \/ ClearVectors(w) \/ UpsertPoints(w) \/ CommitIndexed(w) \/ IndexFails(w)
    <3>1. jobs' = jobs /\ W.at \in Busy
      BY <2>6 DEF ClearChunks, ClearVectors, UpsertPoints, CommitIndexed, IndexFails, Busy, InIndexer
    <3>2. \E at \in Busy : Becomes(w, at, W.doc, W.attempt, W.job)
      <4>1. {"cleared", "wiped", "upserted", "indexed", "failed"} \subseteq Busy
        BY DEF Busy, InIndexer
      <4> QED
        BY <2>6, <4>1, IndexFields
    <3> QED
      BY <2>3, <3>1, <3>2
  <2>7. CASE Captioning(w) \/ Indexing(w)
    <3>1. PICK s \in {"CAPTIONING", "INDEXING"}, next \in {"wiped", "staged"} : Stage(w, s, next)
      BY <2>7 DEF Captioning, Indexing
    <3>2. /\ jobs' = IF RowExists(W.job) THEN [jobs EXCEPT ![W.job].status = s] ELSE jobs
          /\ Becomes(w, next, W.doc, W.attempt, W.job)
      BY <3>1, IndexFields DEF Stage
    <3>3. s \in RowStatus /\ s # "QUEUED" /\ next \in Busy
      BY DEF RowStatus, Busy, InIndexer
    <3> QED
      BY <2>2, <3>2, <3>3
  <2>8. CASE JobIndexed(w)
    <3>1. /\ jobs' = IF RowExists(W.job) THEN [jobs EXCEPT ![W.job].status = "INDEXED"] ELSE jobs
          /\ Becomes(w, "idle", None, 0, None)
      BY <2>8, EndFields DEF JobIndexed, JobRowGets, Rests
    <3>2. CASE j = W.job
      <4>1. jobs'[j].status \notin {"QUEUED"} \cup Active
        BY <1>0, <3>1, <3>2 DEF RowExists, RowStatus, Active, JobRecord
      <4> QED
        BY <4>1 DEF Tracked
    <3>3. CASE j # W.job
      <4>1. jobs'[j] = jobs[j]
        BY <1>0, <3>1, <3>3 DEF RowExists
      <4>2. /\ JobOn(j, Waiting) => JobOn(j, Waiting)'
            /\ JobOn(j, Busy) => JobOn(j, Busy)'
        BY <3>1, <3>3, JobMoved
      <4> QED
        BY <1>1, <2>1, <4>1, <4>2 DEF Tracked
    <3> QED
      BY <3>2, <3>3
  <2>9. CASE JobFailed(w)
    <3>1. CASE WillRetry(W.attempt)
      <4>1. /\ jobs' = IF RowExists(W.job) THEN [jobs EXCEPT ![W.job].status = "QUEUED"] ELSE jobs
            /\ Becomes(w, "requeue", W.doc, W.attempt, W.job)
        BY <2>9, <3>1, EndFields DEF JobFailed, JobRowGets
      <4> QED
        BY <2>2, <4>1 DEF RowStatus, Waiting, Active
    <3>2. CASE ~WillRetry(W.attempt)
      <4>1. /\ jobs' = IF RowExists(W.job) THEN [jobs EXCEPT ![W.job].status = "FAILED"] ELSE jobs
            /\ Becomes(w, "dead", W.doc, W.attempt, W.job)
        BY <2>9, <3>2, EndFields DEF JobFailed, JobRowGets
      <4> QED
        BY <2>2, <4>1 DEF RowStatus, Active
    <3> QED
      BY <3>1, <3>2
  <2>10. CASE DeadLetter(w)
    <3>1. jobs' = jobs /\ W.at = "dead" /\ Becomes(w, "idle", None, 0, None)
      BY <2>10, EndFields DEF DeadLetter, Rests
    <3>2. /\ JobOn(j, Waiting) => JobOn(j, Waiting)'
          /\ JobOn(j, Busy) => JobOn(j, Busy)'
      BY <3>1, JobMoved DEF Waiting, Busy, InIndexer
    <3> QED
      BY <1>1, <2>1, <3>1, <3>2 DEF Tracked
  <2> QED
    BY <1>4, <2>4, <2>5, <2>6, <2>7, <2>8, <2>9, <2>10 DEF WorkerStep
<1> QED
  BY <1>2, <1>3, <1>4

\* For any number of workers: as long as no process dies between two steps, a progress row
\* that is QUEUED has its payload and one that is running has its worker.
THEOREM ProgressHonest == Spec => []ProgressIsReal
<1> DEFINE Inv == workerFaults = 0 /\ requestFaults = 0 => \A j \in JobIds : Tracked(j)
<1>1. Init => Inv
  BY DEF Init, Tracked, Active
<1>2. TypeInv /\ Inv /\ [Next]_vars => Inv'
  <2> SUFFICES ASSUME TypeInv, Inv, [Next]_vars,
                      workerFaults' = 0, requestFaults' = 0, NEW j \in JobIds
               PROVE  Tracked(j)'
    OBVIOUS
  <2>1. Tracked(j)
    BY FaultsCounted
  <2>2. CASE UNCHANGED vars
    BY <2>1, <2>2 DEF Tracked, vars, JobRequested, HoldsJob, JobOn
  <2> QED
    BY <2>1, <2>2, FaultsCounted, RequestTracks, WorkerTracks
<1>3. Inv => ProgressIsReal
  BY DEF Tracked, ProgressIsReal, JobRequested, HoldsJob, JobOn, Waiting, Busy, Active
<1> QED
  BY <1>1, <1>2, <1>3, TypeCorrect, PTL DEF Spec, TypeInv

-----------------------------------------------------------------------------
(* One worker: the two stores of chunks.                                   *)

OneWorker == \E w \in Workers : Workers = {w}
Deleting(d) == RequestOn(d, {"del_files", "del_row"}) \/ requestFaults > 0

\* Each store holds one generation of a document's chunks.
OneBatch == \A d \in Docs : /\ \A x, y \in pg[d] : x = y
                            /\ \A x, y \in qdrant[d] : x = y

\* What the worker has done so far of clear-then-write.  Only a deletion can take the points
\* from under it.
RunInv(w) ==
    /\ worker[w].at \in InIndexer \ {"parsing"} => worker[w].dirty = pg[worker[w].doc]
    /\ worker[w].at \in {"wiped", "staged"} => qdrant[worker[w].doc] = {}
    /\ worker[w].at = "upserted" =>
          \/ qdrant[worker[w].doc] = {worker[w].batch}
          \/ /\ qdrant[worker[w].doc] = {}
             /\ Deleting(worker[w].doc) \/ docs[worker[w].doc] = "deleted"
    /\ worker[w].at \in InIndexer => docs[worker[w].doc] # "INDEXED"

\* An INDEXED document has its chunks in both stores, but for a deletion.
Searchable(d) ==
    docs[d] = "INDEXED" =>
        /\ pg[d] # {}
        /\ qdrant[d] = pg[d] \/ (qdrant[d] = {} /\ Deleting(d))

SoleInv ==
    OneWorker => /\ OneBatch
                 /\ \A w \in Workers : RunInv(w)
                 /\ \A d \in Docs : Searchable(d)

\* A handler that removes points is deleting; otherwise it leaves the stores alone.
LEMMA SoleFrame ==
    ASSUME TypeInv, SoleInv, worker' = worker, pg' = pg,
           \A d \in Docs :
               /\ qdrant'[d] = qdrant[d] \/ (qdrant'[d] = {} /\ Deleting(d)')
               /\ Deleting(d) => Deleting(d)'
               /\ docs'[d] = docs[d] \/ (docs[d] # "deleted" /\ docs'[d] # "INDEXED")
    PROVE  SoleInv'
<1> SUFFICES ASSUME OneWorker
             PROVE  OneBatch' /\ (\A w \in Workers : RunInv(w)') /\ (\A d \in Docs : Searchable(d)')
  BY DEF SoleInv, OneWorker
<1>1. OneBatch /\ (\A w \in Workers : RunInv(w)) /\ (\A d \in Docs : Searchable(d))
  BY DEF SoleInv
<1>2. OneBatch'
  BY <1>1 DEF OneBatch
<1>3. ASSUME NEW w \in Workers PROVE RunInv(w)'
  <2>1. worker[w].at \in InIndexer => worker[w].doc \in Docs
    BY DEF TypeInv, HolderInv, InIndexer
  <2> DEFINE d == worker[w].doc
  <2>2. RunInv(w)
    BY <1>1
  <2>3. d \in Docs => /\ qdrant'[d] = qdrant[d] \/ (qdrant'[d] = {} /\ Deleting(d)')
                      /\ Deleting(d) => Deleting(d)'
                      /\ docs'[d] = docs[d] \/ (docs[d] # "deleted" /\ docs'[d] # "INDEXED")
    OBVIOUS
  <2> QED
    BY <2>1, <2>2, <2>3 DEF RunInv, InIndexer
<1>4. ASSUME NEW d \in Docs PROVE Searchable(d)'
  BY <1>1 DEF Searchable
<1> QED
  BY <1>2, <1>3, <1>4

\* A deletion that goes on, and the steps of handlers that delete nothing.
LEMMA RequestSole ==
    ASSUME TypeInv, SoleInv, NEW r \in Requests,
           RequestStart(r) \/ RequestStep(r) \/ RequestDies(r)
    PROVE  SoleInv'
<1>0. /\ request \in [Requests -> RequestRecord] /\ requestFaults \in Nat
      /\ docs \in [Docs -> {"absent", "deleted"} \cup LiveStatus]
      /\ qdrant \in [Docs -> SUBSET Batches] /\ pg \in [Docs -> SUBSET Batches]
  BY LifecycleAssumption DEF TypeInv, TypeOK, RequestRecord
\* A request that was not deleting, or that goes on to, leaves all deletions going on.
<1>1. ASSUME NEW rec, request' = [request EXCEPT ![r] = rec], requestFaults' = requestFaults,
             \/ request[r].at \notin {"del_files", "del_row"}
             \/ rec.doc = request[r].doc /\ rec.at \in {"del_files", "del_row"}
      PROVE  \A d \in Docs : Deleting(d) => Deleting(d)'
  <2>1. \A d \in Docs : RequestOn(d, {"del_files", "del_row"}) => RequestOn(d, {"del_files", "del_row"})'
    BY <1>1, RequestMoved
  <2> QED
    BY <1>1, <2>1 DEF Deleting
<1>2. ASSUME NEW e \in Docs, Upload(r, e) \/ Reindex(r, e) PROVE SoleInv'
  <2>1. /\ request' = [request EXCEPT ![r] = [at |-> "enqueue", doc |-> e, job |-> NewJob]]
        /\ request[r].at = "idle" /\ UNCHANGED <<worker, pg, qdrant, requestFaults>>
        /\ docs' = [docs EXCEPT ![e] = "PENDING"] /\ docs[e] # "deleted"
    BY <1>2 DEF Upload, Reindex, Live, LiveStatus
  <2>2. \A d \in Docs : Deleting(d) => Deleting(d)'
    BY <1>1, <2>1
  <2> QED
    BY <1>0, <2>1, <2>2, SoleFrame
<1>3. ASSUME NEW e \in Docs, DeleteVectors(r, e) PROVE SoleInv'
  <2> DEFINE rec == [at |-> "del_files", doc |-> e, job |-> None]
  <2>1. /\ request' = [request EXCEPT ![r] = rec]
        /\ request[r].at = "idle" /\ UNCHANGED <<worker, pg, docs, requestFaults>>
        /\ qdrant' = [qdrant EXCEPT ![e] = {}]
    BY <1>3 DEF DeleteVectors
  <2>2. rec.doc = e /\ rec.at \in {"del_files", "del_row"}
    OBVIOUS
  <2> HIDE DEF rec
  <2>3. \A d \in Docs : Deleting(d) => Deleting(d)'
    BY <1>1, <2>1
  <2>4. RequestOn(e, {"del_files", "del_row"})'
    BY <2>1, <2>2, RequestMoved
  <2>5. Deleting(e)'
    BY <2>4 DEF Deleting
  <2>6. \A d \in Docs : qdrant'[d] = qdrant[d] \/ (qdrant'[d] = {} /\ d = e)
    BY <1>0, <2>1
  <2> QED
    BY <2>1, <2>3, <2>5, <2>6, SoleFrame
<1>4. CASE RequeuePop(r) \/ Enqueue(r) \/ RequeuePush(r)
  <2>1. /\ \E rec : request' = [request EXCEPT ![r] = rec]
        /\ request[r].at \in {"idle", "enqueue", "requeue"}
        /\ UNCHANGED <<worker, pg, docs, qdrant, requestFaults>>
    BY <1>4 DEF RequeuePop, Enqueue, RequeuePush
  <2>2. \A d \in Docs : Deleting(d) => Deleting(d)'
    BY <1>1, <2>1
  <2> QED
    BY <2>1, <2>2, SoleFrame
<1>5. CASE DeleteFiles(r)
  <2> DEFINE rec == [request[r] EXCEPT !.at = "del_row"]
  <2>1. /\ request' = [request EXCEPT ![r] = rec]
        /\ UNCHANGED <<worker, pg, docs, qdrant, requestFaults>>
    BY <1>5 DEF DeleteFiles
  <2>2. rec.doc = request[r].doc /\ rec.at \in {"del_files", "del_row"}
    BY <1>0 DEF RequestRecord
  <2> HIDE DEF rec
  <2>3. \A d \in Docs : Deleting(d) => Deleting(d)'
    BY <1>1, <2>1, <2>2
  <2> QED
    BY <2>1, <2>3, SoleFrame
<1>6. CASE RequestDies(r)
  <2>1. UNCHANGED <<worker, pg, docs, qdrant>> /\ requestFaults' = requestFaults + 1
    BY <1>6 DEF RequestDies
  <2>2. \A d \in Docs : Deleting(d)'
    BY <1>0, <2>1 DEF Deleting
  <2> QED
    BY <2>1, <2>2, SoleFrame
<1>7. CASE DeleteRow(r)
  <2> SUFFICES ASSUME OneWorker
               PROVE  OneBatch' /\ (\A w \in Workers : RunInv(w)') /\ (\A d \in Docs : Searchable(d)')
    BY DEF SoleInv, OneWorker
  <2> DEFINE e == request[r].doc
  <2>1. /\ request[r].at = "del_row" /\ e \in Docs /\ ~ChunksLocked(e, None)
        /\ docs' = [docs EXCEPT ![e] = "deleted"] /\ pg' = [pg EXCEPT ![e] = {}]
        /\ request' = [request EXCEPT ![r] = IdleRequest]
        /\ UNCHANGED <<worker, qdrant, requestFaults>>
    BY <1>7 DEF DeleteRow, TypeInv, HolderInv
  <2>2. /\ docs'[e] = "deleted" /\ pg'[e] = {}
        /\ \A d \in Docs \ {e} : docs'[d] = docs[d] /\ pg'[d] = pg[d]
    BY <1>0, <2>1
  <2>3. \A d \in Docs \ {e} : Deleting(d) => Deleting(d)'
    <3>1. \A d \in Docs \ {e} :
            RequestOn(d, {"del_files", "del_row"}) => RequestOn(d, {"del_files", "del_row"})'
      BY <2>1, RequestMoved
    <3> QED
      BY <2>1, <3>1 DEF Deleting
  <2>4. OneBatch /\ (\A w \in Workers : RunInv(w)) /\ (\A d \in Docs : Searchable(d))
    BY DEF SoleInv
  <2>5. OneBatch'
    BY <2>1, <2>2, <2>4 DEF OneBatch
  <2>6. ASSUME NEW d \in Docs PROVE Searchable(d)'
    BY <2>1, <2>2, <2>3, <2>4 DEF Searchable
  <2>7. ASSUME NEW w \in Workers PROVE RunInv(w)'
    <3>1. RunInv(w) /\ (worker[w].at \in InIndexer => worker[w].doc \in Docs)
      BY <2>4 DEF TypeInv, HolderInv, InIndexer
    <3>2. worker[w].doc = e => worker[w].dirty \cap pg[e] = {}
      BY <2>1, LifecycleAssumption DEF ChunksLocked
    <3>3. CASE worker[w].doc = e
      BY <2>1, <2>2, <3>1, <3>2, <3>3 DEF RunInv, InIndexer
    <3>4. CASE worker[w].doc # e
      BY <2>1, <2>2, <2>3, <3>1, <3>4 DEF RunInv, InIndexer
    <3> QED
      BY <3>3, <3>4
  <2> QED
    BY <2>5, <2>6, <2>7
<1> QED
  BY <1>2, <1>3, <1>4, <1>5, <1>6, <1>7 DEF RequestStart, RequestStep

\* The one worker clears before it writes, and commits what it has upserted.
LEMMA WorkerSole ==
    ASSUME TypeInv, SoleInv, NEW w \in Workers,
           WorkerStep(w) \/ Captioning(w) \/ TrackingFails(w) \/ WorkerDies(w)
    PROVE  SoleInv'
<1> SUFFICES ASSUME OneWorker
             PROVE  OneBatch' /\ (\A v \in Workers : RunInv(v)') /\ (\A d \in Docs : Searchable(d)')
  BY DEF SoleInv, OneWorker
<1> DEFINE W == worker[w]
           here == W.doc
<1>0. /\ docs \in [Docs -> {"absent", "deleted"} \cup LiveStatus] /\ W \in WorkerRecord
      /\ qdrant \in [Docs -> SUBSET Batches] /\ pg \in [Docs -> SUBSET Batches]
  BY DEF TypeInv, TypeOK, WorkerRecord
<1>1. Workers = {w}
  BY DEF OneWorker
<1>2. OneBatch /\ RunInv(w) /\ (\A d \in Docs : Searchable(d))
  BY DEF SoleInv
<1>3. W.at # "idle" => here \in Docs
  BY DEF TypeInv, HolderInv
<1>4. /\ UNCHANGED <<request, requestFaults>>
      /\ \A d \in Docs : Deleting(d)' = Deleting(d)
  <2>1. UNCHANGED <<request, requestFaults>>
    BY DEF WorkerStep, Captioning, TrackingFails, WorkerDies, Pop, JobStarted, BeginIndex,
           ClearChunks, ClearVectors, Indexing, UpsertPoints, CommitIndexed, IndexFails,
           JobIndexed, JobFailed, Requeue, DeadLetter
  <2> QED
    BY <2>1 DEF Deleting, RequestOn
\* A step outside of index_document, after which the worker is not in it.
<1>5. ASSUME UNCHANGED <<docs, pg, qdrant>>, worker'[w].at \notin InIndexer
      PROVE  OneBatch' /\ (\A v \in Workers : RunInv(v)') /\ (\A d \in Docs : Searchable(d)')
  <2>1. OneBatch' /\ \A d \in Docs : Searchable(d)'
    BY <1>2, <1>4, <1>5 DEF OneBatch, Searchable
  <2>2. RunInv(w)'
    BY <1>5 DEF RunInv, InIndexer
  <2> QED
    BY <1>1, <2>1, <2>2
<1>6. CASE \/ Pop(w) \/ JobStarted(w) \/ TrackingFails(w)
           \/ JobIndexed(w) \/ JobFailed(w) \/ Requeue(w) \/ DeadLetter(w) \/ WorkerDies(w)
  <2>1. UNCHANGED <<docs, pg, qdrant>>
    BY <1>6 DEF Pop, JobStarted, TrackingFails, JobIndexed, JobFailed, Requeue, DeadLetter, WorkerDies
  <2>2. worker'[w].at \in {"popped", "begin", "idle", "requeue", "dead"}
    <3>1. CASE Pop(w) \/ JobStarted(w) \/ TrackingFails(w)
      BY <3>1, StartFields DEF Becomes, Rests
    <3>2. CASE JobIndexed(w) \/ JobFailed(w) \/ Requeue(w) \/ DeadLetter(w) \/ WorkerDies(w)
      BY <3>2, EndFields DEF Becomes, Rests
    <3> QED
      BY <1>6, <3>1, <3>2
  <2> QED
    BY <1>5, <2>1, <2>2 DEF InIndexer
<1>7. CASE BeginIndex(w) \/ IndexFails(w)
  <2>1. /\ W.at # "idle" /\ UNCHANGED <<pg, qdrant>>
        /\ docs' = docs \/ \E s \in {"PROCESSING", "FAILED"} : docs' = [docs EXCEPT ![here] = s]
        /\ BeginIndex(w) /\ Live(here) => docs' = [docs EXCEPT ![here] = "PROCESSING"]
    BY <1>7 DEF BeginIndex, IndexFails, InIndexer
  <2>2. /\ worker'[w].doc = here
        /\ worker'[w].at = "failed" \/ (worker'[w].at = "parsing" /\ BeginIndex(w) /\ Live(here))
    BY <1>7, StartFields, IndexFields DEF Becomes
  <2>3. \A d \in Docs : docs'[d] = docs[d] \/ docs'[d] # "INDEXED"
    BY <1>0, <2>1
  <2>4. OneBatch' /\ \A d \in Docs : Searchable(d)'
    BY <1>2, <1>4, <2>1, <2>3 DEF OneBatch, Searchable
  <2>5. RunInv(w)'
    <3>1. CASE worker'[w].at = "failed"
      BY <3>1 DEF RunInv, InIndexer
    <3>2. CASE worker'[w].at = "parsing"
      <4>1. docs'[here] = "PROCESSING"
        BY <1>0, <1>3, <2>1, <2>2, <3>2
      <4> QED
        BY <2>2, <3>2, <4>1 DEF RunInv, InIndexer
    <3> QED
      BY <2>2, <3>1, <3>2
  <2> QED
    BY <1>1, <2>4, <2>5
<1>8. CASE ClearChunks(w)
  <2>1. W.at = "parsing" /\ UNCHANGED <<docs, pg, qdrant>>
    BY <1>8 DEF ClearChunks
  <2>2. worker'[w].at = "cleared" /\ worker'[w].doc = here /\ worker'[w].dirty = pg[here]
    BY <1>8, IndexFields DEF Becomes
  <2>3. OneBatch' /\ \A d \in Docs : Searchable(d)'
    BY <1>2, <1>4, <2>1 DEF OneBatch, Searchable
  <2>4. RunInv(w)'
    BY <1>2, <2>1, <2>2 DEF RunInv, InIndexer
  <2> QED
    BY <1>1, <2>3, <2>4
<1>9. CASE ClearVectors(w)
  <2>1. W.at = "cleared" /\ UNCHANGED <<docs, pg>> /\ qdrant' = [qdrant EXCEPT ![here] = {}]
    BY <1>9 DEF ClearVectors
  <2>2. worker'[w].at = "wiped" /\ worker'[w].doc = here /\ worker'[w].dirty = W.dirty
    BY <1>9, IndexFields DEF Becomes
  <2>3. here \in Docs /\ docs[here] # "INDEXED" /\ W.dirty = pg[here]
    BY <1>2, <1>3, <2>1 DEF RunInv, InIndexer
  <2>4. qdrant'[here] = {} /\ \A d \in Docs \ {here} : qdrant'[d] = qdrant[d]
    BY <1>0, <2>1, <2>3
  <2>5. OneBatch' /\ \A d \in Docs : Searchable(d)'
    BY <1>2, <1>4, <2>1, <2>3, <2>4 DEF OneBatch, Searchable
  <2>6. RunInv(w)'
    BY <2>1, <2>2, <2>3, <2>4 DEF RunInv, InIndexer
  <2> QED
    BY <1>1, <2>5, <2>6
<1>10. CASE Captioning(w) \/ Indexing(w)
  <2>1. PICK s \in {"CAPTIONING", "INDEXING"}, next \in {"wiped", "staged"} : Stage(w, s, next)
    BY <1>10 DEF Captioning, Indexing
  <2>2. /\ W.at = "wiped" /\ UNCHANGED <<docs, qdrant>>
        /\ pg' = IF RowExists(W.job) THEN [pg EXCEPT ![here] = pg[here] \ W.dirty] ELSE pg
    BY <1>10, <2>1 DEF Captioning, Indexing, Stage
  <2>3. /\ worker'[w].at = next /\ worker'[w].doc = here
        /\ worker'[w].dirty = IF RowExists(W.job) THEN {} ELSE W.dirty
    BY <2>1, IndexFields DEF Becomes
  <2>4. here \in Docs /\ docs[here] # "INDEXED" /\ W.dirty = pg[here] /\ qdrant[here] = {}
    BY <1>2, <1>3, <2>2 DEF RunInv, InIndexer
  <2>5. /\ pg'[here] = IF RowExists(W.job) THEN {} ELSE pg[here]
        /\ \A d \in Docs \ {here} : pg'[d] = pg[d]
    BY <1>0, <2>2, <2>4
  <2>6. OneBatch' /\ \A d \in Docs : Searchable(d)'
    BY <1>2, <1>4, <2>2, <2>4, <2>5 DEF OneBatch, Searchable
  <2>7. RunInv(w)'
    BY <2>2, <2>3, <2>4, <2>5 DEF RunInv, InIndexer
  <2> QED
    BY <1>1, <2>6, <2>7
<1>11. CASE UpsertPoints(w)
  <2> DEFINE b == CHOOSE x \in Batches : x \notin UsedBatches
  <2>1. /\ W.at = "staged" /\ UNCHANGED <<docs, pg>>
        /\ qdrant' = [qdrant EXCEPT ![here] = qdrant[here] \cup {b}]
    BY <1>11 DEF UpsertPoints
  <2>2. /\ worker'[w].at = "upserted" /\ worker'[w].doc = here /\ worker'[w].dirty = W.dirty
        /\ worker'[w].batch = b
    BY <1>11, IndexFields DEF Becomes, Holding
  <2> HIDE DEF b
  <2>3. here \in Docs /\ docs[here] # "INDEXED" /\ W.dirty = pg[here] /\ qdrant[here] = {}
    BY <1>2, <1>3, <2>1 DEF RunInv, InIndexer
  <2>4. qdrant'[here] = {b} /\ \A d \in Docs \ {here} : qdrant'[d] = qdrant[d]
    BY <1>0, <2>1, <2>3
  <2>5. OneBatch' /\ \A d \in Docs : Searchable(d)'
    BY <1>2, <1>4, <2>1, <2>3, <2>4 DEF OneBatch, Searchable
  <2>6. RunInv(w)'
    BY <2>1, <2>2, <2>3, <2>4 DEF RunInv, InIndexer
  <2> QED
    BY <1>1, <2>5, <2>6
<1>12. CASE CommitIndexed(w)
  <2>1. /\ W.at = "upserted" /\ Live(here) /\ qdrant' = qdrant
        /\ pg' = [pg EXCEPT ![here] = (pg[here] \ W.dirty) \cup {W.batch}]
        /\ docs' = [docs EXCEPT ![here] = "INDEXED"]
    BY <1>12 DEF CommitIndexed
  <2>2. worker'[w].at = "indexed"
    BY <1>12, IndexFields DEF Becomes
  <2>3. /\ here \in Docs /\ W.dirty = pg[here]
        /\ qdrant[here] = {W.batch} \/ (qdrant[here] = {} /\ Deleting(here))
    BY <1>2, <1>3, <2>1 DEF RunInv, InIndexer, Live, LiveStatus
  <2>4. /\ pg'[here] = {W.batch} /\ \A d \in Docs \ {here} : pg'[d] = pg[d]
        /\ \A d \in Docs \ {here} : docs'[d] = docs[d]
    <3>1. (pg[here] \ W.dirty) \cup {W.batch} = {W.batch}
      BY <2>3
    <3>2. pg' = [pg EXCEPT ![here] = {W.batch}]
      BY <2>1, <3>1
    <3> QED
      BY <1>0, <2>1, <2>3, <3>2
  <2>5. OneBatch'
    BY <1>2, <2>1, <2>4 DEF OneBatch
  <2>6. ASSUME NEW d \in Docs PROVE Searchable(d)'
    BY <1>2, <1>4, <2>1, <2>3, <2>4 DEF Searchable
  <2>7. RunInv(w)'
    BY <2>2 DEF RunInv, InIndexer
  <2> QED
    BY <1>1, <2>5, <2>6, <2>7
<1> QED
  BY <1>6, <1>7, <1>8, <1>9, <1>10, <1>11, <1>12 DEF WorkerStep

\* What one worker keeps, through crashes, retries, deletions and lost pushes.
THEOREM SoleWorker == Spec => []SoleInv
<1>1. Init => SoleInv
  <2> SUFFICES ASSUME Init PROVE SoleInv
    OBVIOUS
  <2>1. /\ docs = [d \in Docs |-> "absent"] /\ pg = [d \in Docs |-> {}]
        /\ qdrant = [d \in Docs |-> {}] /\ worker = [w \in Workers |-> IdleWorker]
    BY DEF Init
  <2>2. \A w \in Workers : worker[w].at = "idle"
    BY <2>1 DEF IdleWorker
  <2> QED
    BY <2>1, <2>2 DEF SoleInv, OneBatch, RunInv, Searchable, InIndexer
<1>2. TypeInv /\ SoleInv /\ [Next]_vars => SoleInv'
  <2> SUFFICES ASSUME TypeInv, SoleInv, [Next]_vars PROVE SoleInv'
    OBVIOUS
  <2>1. CASE UNCHANGED vars
    BY <2>1 DEF vars, SoleInv, OneWorker, OneBatch, RunInv, Searchable, Deleting, RequestOn
  <2>2. CASE Next
    BY <2>2, RequestSole, WorkerSole DEF Next
  <2> QED
    BY <2>1, <2>2
<1> QED
  BY <1>1, <1>2, TypeCorrect, PTL DEF Spec, TypeInv

\* Workers of which there is one.
LEMMA OneIsSole == Cardinality(Workers) = 1 => OneWorker
BY LifecycleAssumption, FS_Singleton DEF OneWorker

\* A set without two elements has at most one.
LEMMA AtMostOne ==
    ASSUME NEW S, \A x, y \in S : x = y
    PROVE  Cardinality(S) <= 1
<1>1. CASE S = {}
  BY <1>1, FS_EmptySet
<1>2. CASE S # {}
  <2>1. PICK x \in S : TRUE
    BY <1>2
  <2>2. S = {x}
    BY <2>1
  <2>3. Cardinality({x}) = 1
    BY FS_Singleton
  <2> QED
    BY <2>2, <2>3
<1> QED
  BY <1>1, <1>2

\* With one worker a document never has two generations of chunks in Postgres or in Qdrant.
THEOREM OneGeneration == Spec => []NoDuplicates
<1>1. SoleInv => NoDuplicates
  BY OneIsSole, AtMostOne DEF SoleInv, OneBatch, NoDuplicates
<1> QED
  BY <1>1, SoleWorker, PTL

\* With one worker an INDEXED document has the same chunks in both stores, unless it is
\* being deleted or a deletion died half way.
THEOREM IndexedIsThere == Spec => []IndexedIsSearchable
<1>1. SoleInv => IndexedIsSearchable
  BY OneIsSole DEF SoleInv, Searchable, Deleting, IndexedIsSearchable
<1> QED
  BY <1>1, SoleWorker, PTL
=============================================================================
