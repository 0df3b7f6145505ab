# Verification of the agentic RAG platform

TLA+ models of the parts of the platform whose correctness depends on order, failure
and shared state: the agent graph that answers a chat turn, the turns of a session and
their history, the life of a document from file to searchable passages to deletion, the
semantic cache between the two, admission, sessions and access. TLC checks the models on
small instances; TLAPS proves the main safety properties for every size of instance.

    tlc -config Access.cfg MCAccess                # a run (the modules are in section 3)
    tlapm AccessProofs.tla                         # the proofs of a module

## 1. Inventory

| Component (source) | State | Operations | Hard behaviour |
|---|---|---|---|
| Agent graph (`app/graph`) | one LangGraph thread per chat session, every key checkpointed in Postgres | 15 nodes, 6 routing functions, retry loops | keys of an earlier turn that a later one does not reset; loops bounded by counters; a node that raises |
| Chat API (`app/api/chat.py`) | sessions, messages, ratings, SSE queue | `/chat`, `/chat/stream`, history, feedback, deletion | 504 while the graph thread goes on; disconnects; two turns of one session; restarts |
| Knowledge gaps (`app/services/knowledge_gaps.py`) | none: reads messages and ratings | report | pairs answers with questions by time only |
| Admission (`app/core/ratelimit.py`) | Redis counters with expiry | acquire, release, per-minute count | increment and compare interleave; expiry below live requests; leaks after a crash |
| Semantic cache (`app/retrieval/semantic_cache.py`, `app/services/cache.py`) | Qdrant entries keyed by the asker's scope, tag sets in Redis | lookup, store, invalidate by document or collection, purge | store and invalidate interleave; tags written after the entry |
| Ingestion queue, worker, indexer (`worker/main.py`, `app/queue.py`, `app/ingestion/jobs.py`, `indexer.py`) | queue and dead letters in Redis, job rows and chunks in Postgres, points in Qdrant | pop, track, index, retry, dead-letter, requeue | crash between two stores; two workers; deletion during indexing |
| Parsers and chunkers (`app/ingestion/pipeline.py`, `docling_parser.py`, `parsers/`, `normalize.py`, `chunker.py`, `chunking.py`) | none: functions of the file | file to elements to chunks | windows, overlaps, short tails, row ranges, captions; state carried from element to element |
| Figures and page images (`object_store.py`, `pages.py`, `pages_index.py`) | crops and renders in MinIO, page vectors in Qdrant | put, clear, search | three stores without a transaction; best-effort page pass |
| Document service (`app/services/documents.py`, `app/api/documents.py`) | document rows, files | upload, re-ingest, delete, list, fetch | several effects without a common transaction |
| Retrieval, metadata lookup, context assembly, citations | none | pure functions over the index's answers | access filter; budgets |
| Router, LLM client | none | classification, generation, grading | every call may fail and degrades to a default |
| Access control (`app/core/rbac.py`, `app/api/admin.py`, `collections.py`, `media.py`, `search.py`) | users, departments, collections, grants | the scope of a request, the admin's changes, what is shown | scope read in several statements while admins commit; cached and stored passages outlive a right |
| Authentication (`app/core/security.py`, `deps.py`, `redis.py`, `app/api/auth.py`) | token denylist, session epochs | login, refresh, logout, revoke | check and revoke interleave; Redis reads that fail open |
| Evaluation (`app/eval`) | evaluation rows | deterministic check, LLM scores | reads a payload that a turn left |
| Observability, SPA, GPU services, migrations, deployment | reports, views | - | best effort, no state the rest reads |

Interactions. A chat request takes an admission slot, authenticates, reads the user's
scope, stores its question, seeds the graph and runs it on a thread; the graph reads the
semantic cache and the index and writes the cache; the handler stores the answer, which
ratings, the history and the report read later. An upload writes Postgres and the file
store and then pushes to Redis; a worker pops, parses and chunks the file, and writes
Postgres, Qdrant and MinIO. Deletion and re-ingest touch the same rows, points and cache
entries while workers and turns run. Admin requests change accounts, grants and the
session epoch under all of them.

What makes each part correct: a turn ends, replies once, shows only what the asker may
read and stores only accepted answers; history and memory agree; a cache entry never
crosses a scope; a document is never left behind in a transient status, an indexed one is
searchable, a deleted one stays gone, a failing one is tried a bounded number of times and
then visible to an operator; no text is lost on the way from file to passage; limits hold
and what leaks is given back; a revoked session or token obtains nothing.

## 2. Modules

| Module | Models | Extends |
|---|---|---|
| `AgentGraph` | graph nodes, routing, the caller's seeding, checkpointed state, cache lookup and store | - |
| `ChatTurns` | the handlers of `/chat` and `/chat/stream`, graph threads, executor, event queue, history | - (instantiates `Semaphore`) |
| `KnowledgeGaps` | ratings of answers and the report, composed with the turns | `ChatTurns` |
| `Semaphore` | abstract specification of admission limits | - |
| `Admission` | the Redis calls of `rate_limit`, shown to implement `Semaphore` | - |
| `DocumentLifecycle` | document handlers, queue, dead letters, workers, indexer | - |
| `SemanticCache` | store, tags, targeted eviction, expiry and sweep; the handlers that evict | - |
| `Access` | rows of accounts and grants, admin requests, statement-wise scopes, what is shown | - |
| `Sessions` | login, refresh, logout, the checks of a call, the admin requests that end sessions | - |
| `Parser` | choice of parser, Docling and other parsers, removal of repeated lines | - |
| `Chunker` | both chunkers, as a state machine over the elements | `Parser` |
| `PageImages` | the stores of one document through ingestion, failure, re-ingestion, deletion | `Chunker` |
| `Passages` | search, fusion and context assembly over those stores | `PageImages` |
| `MC...` | constants and symmetries of the runs | the module named |
| `PassagesInvariants` | what the proofs about `Passages` speak of | `Passages` |
| `AgentGraphProofs`, `DocumentLifecycleProofs`, `SemanticCacheProofs`, `AccessProofs`, `AdmissionProofs`, `SessionsProofs`, `KnowledgeGapsProofs` (with those of `ChatTurns`), `PassagesProofs` | invariants and proofs | the module named |

Operators whose comment begins with "Mutated" are plausible bugs of the definition that
follows them; no specification uses them.

### AgentGraph

One variable per key of `GraphState`, one action per node. An action contains the
node's update and the routing function evaluated after it, because LangGraph commits
them in one superstep; `iterations` is incremented by every node as `_bump` does.
`Seed` resets exactly the keys of `initial` in `chat.py`; `ContinueSession` keeps every
other key (the checkpointer does), `NewSession` starts from an empty thread. The scope
of a turn is any set of collections, so it may grow or shrink from turn to turn.

Data is abstracted as follows. A chunk is the collection it belongs to, since the
properties are about access. A search text is the set of questions it is made of. An
answer is one of: none, the reply to a blank message, the safe refusal, a text. A cache
entry has the scope it is keyed by, the collections of its sources, its citations and
its answer; which entry is similar enough to a question, and whether it is too old, is
nondeterministic. LLM verdicts, intents and search results are nondeterministic, with
the defaults of failed calls among the choices. `answer_turn` and `about` are history
variables that record who wrote `answer` and what `chunks` were searched for.

`QdrantRaises` is the exception that neither the cache lookup nor the search catches:
the turn stops, the thread keeps what earlier supersteps committed, and the next turn
continues from there. `OnlyAllowedDocuments` is the evaluation's deterministic check of
the payload that `eval_queue` pushes.

The sessions of the model follow each other; they share the cache. Concurrent turns on
one thread (possible after a 504) are in `ChatTurns`.

### ChatTurns and KnowledgeGaps

The turns of one session, each named by its request. A handler is split where it awaits:
slot and authentication, LLM probe, ownership, commit of the question, the wait for the
graph, commit of the answer. A graph run loads the session's checkpoint, appends the
question, and saves its whole state at the end; it is a thread, so a 504 or a closed
connection does not stop it. `/chat` uses the event loop's executor (`ExecutorThreads`), a
stream a thread of its own that fills the queue `event_gen` empties. A stream's slot is
given back when the path function returns, before the graph starts, as FastAPI's dependency
does here. A row is stamped with the begin of the transaction that writes it
(`server_default now()`), which is why `clock` and `began` exist: a question's stamp is older
than its commit. A restart loses handlers, threads and queues, keeps rows and checkpoint.
`crossed` and `overlapped` are history variables that say whose requests, or graph runs,
were open together.

`KnowledgeGaps` adds `message_feedback` in its two steps (read, then update or insert, with
the unique constraint) and the report as a function of rows, ratings and window: pairing,
classification, grouping by topic. Nothing a turn does reads a rating, so ratings wait until
the turns have ended; that keeps the product of the two small and loses no report.

### Semaphore and Admission

`Admission` has one action per Redis call of `rate_limit`, and the answer of `INCR` is kept
in the request until it is compared. A key expires `InflightTTL` ticks after its last
`EXPIRE`; a request lives at most `MaxHold` ticks (90 s against 300 s in the settings, an
assumption of the module). `Abandon` ends a request at any call without its releases: a dead
process, a Redis error or a cancellation, which `rate_limit` does not compensate.
`Semaphore` promises at most `Limit` holders of a key until the counter is lost under
somebody; the refinement maps its holders to the requests between their acquisition and
their release. `ChatTurns` takes and gives slots by `Semaphore`'s own actions.

### DocumentLifecycle

Postgres, Qdrant, Redis and the file store share no transaction, so a handler is one
action per effect that another process can see. `docs`, `jobs` and `pg` are committed
Postgres state; what a worker's open transaction holds is in its record (`dirty` is the
set of chunks its uncommitted DELETE locks). `qdrant` and `pg` hold batches: one run of
the indexer writes one batch, under new chunk ids, to both stores.

The order of effects is the code's: `delete_document` removes vectors, files and row;
`index_document` commits PROCESSING, reads the file, deletes old chunks (uncommitted)
and old vectors, commits through `job_stage` when a figure or the indexing stage is
reported and the job row still exists, upserts the points and commits the chunks last.
Any step inside the `try` block may raise (`IndexFails`). A job goes to the queue again
or to the dead-letter list in a step after the one that updates its row.

Faults are counted: `WorkerDies` (a killed process, or an error that escapes
`_handle_job`), `TrackingFails` (the job goes on untracked), `RequestDies` (an API
process or one of its calls fails between two effects). Cache eviction by these
handlers belongs to `SemanticCache` and is left out here.

### SemanticCache

Entries live in Qdrant and the tag sets that find them again in Redis. A store is two
actions (`UpsertEntry`, `TagEntry`), the second of which may fail and is only logged; an
eviction is three (`FindTagged`, `DeleteEntries`, `DropTag`), and any handler may end
between two of them (`HandlerFails`). A turn is reduced to what it read (`SearchChunks`,
`LookupRows`) and to the store at its end. Handlers keep the code's order: deletion
removes the vectors, evicts, then deletes the row; re-ingest commits, evicts, then
queues; a permission change evicts, then commits. The worker is reduced to what a search
sees: the index is empty from the clearing of the old chunks to the upsert of the new.

An entry is the set of (document, generation) pairs it was derived from. The `expired`
flag stands for its age; the ages of entries do not interact. One worker indexes a
document at a time here (`DocumentLifecycle` has several). Scopes, questions and
similarity are in `AgentGraph`. `atRisk` is a history variable: the entries whose turn
was running when an eviction read the tags of one of its keys, that read something while
an eviction had it in hand or a deletion was under way or done, or whose tags were never
written.

### Access

The committed rows are variables; each admin request commits one change to them. A request
loads its user once and then reads its scope in one statement (admin) or three (own
department, grants to the user, grants to the department), one action each, since each
statement sees what is committed by then. What follows is the handler: search, chat with its
cache, the history with its re-checked citations, lists and fetches of collections,
documents, pages and figures. A document stands for its passages and retrieval finds all the
scope admits, which is the worst case for showing too much. `could` (what the user could
have read at some instant of the request, with the role and department it loaded) and
`stood` (the grants that have stood since) are history variables that the admin's commits
maintain. A permission change evicts before it commits, in two actions; here an eviction
never misses an entry, how it can is `SemanticCache`.

### Sessions

One account. A handler is split at its awaits on Redis and Postgres: denylist, row, epoch,
then the guarded effect. Reads of Redis that raise let the token pass, writes that raise end
the request; both use up `MaxFaults`. An admin request loads the row, chooses the epoch's
time, sets the key and commits, in that order. Instants are distinct, as `iat` has a
sub-second part. A token has a last second, in which its denylist key may already be gone
because its ttl is rounded down. `crossed` marks a pair whose request was in flight when an
admin chose the epoch, `slipped` one whose check Redis did not answer.

### Parser, Chunker, PageImages, Passages

One document, from file to context. A file is what its library reads from it: items with
kind, page, title and line lengths; `IsFile` says what a library can hand over (items of the
kinds it tells apart, on pages that do not go back, fewer than `MaxLines` lines an item and
`MaxLine` characters a line, bounds that number the characters and cut nothing). Text is a
sequence of places, one for each character of the file, so that cutting, overlapping and
joining act on it as Python's slices do and "nothing is lost" is a statement about sets of
places. It has no whitespace but the separators the code inserts, so stripping matters for
empty texts only. `Parser` and the windows of `Chunker` are functions (the buffers that the
code fills in a loop are recursive ones, `PackAll`, `SplitAll`); the loop over the elements, whose state decides
section, caption and hint of later chunks, is a state machine. `PageImages` adds MinIO,
`rag_chunks` and `docs_pages` with the steps of the indexer and the page pass, each of
which may fail; the page pass is best effort. `Passages` searches while these steps go on:
any ranking of at most `TopN` chunks and `TopPages` pages. The packing loop of `assemble`
takes one candidate a step, the chunk of a rank before its page (equal ranks tie in
`rrf_merge` and the sort is stable), because the image of a page is read from MinIO when its
turn comes, and an ingestion may clear it, or MinIO not answer, between two of them.

## 3. Runs

| Run (configuration, module) | Bounds | Shows |
|---|---|---|
| `AgentGraph.cfg` | 2 questions (one a follow-up), 2 collections, cap 10, one retry of each kind, grader on, Qdrant may fail, 2 turns | types; the iteration cap as a backstop; scope of cache entries and citations; one reply per turn; the evaluation's flag falls only on replays; every turn ends |
| `AgentGraphDefaults.cfg`, `AgentGraph` | 1 collection, the default cap 25 and retries 2 and 1, grader off, 3 turns | retry counters alone bound a turn; a stale reply has one cause; only accepted answers are stored |
| `AgentGraphSearch.cfg`, `AgentGraph` | as above with the grader on, 2 turns | **violated**: finding 1 |
| `ChatTurns.cfg`, `MCKnowledgeGaps` | 2 chats and 1 stream on one session, 2 slots, 1 executor thread, 1 restart, 2 ratings of the stream's answer that disagree, one answer that declines, all questions of one topic | stored answers are the turn's own; history and memory disagree for stated reasons only; overlaps need a leftover run; the report's pairing and completeness; no acknowledged rating is lost; every request ends |
| `Admission.cfg`, `MCAdmission` | 3 requests of one user, user limit 2, global limit 1, 1 request a minute at a time, expiry 2 ticks, hold 1, 1 fault | limits hold; nothing leaks without a fault; what a fault leaks expires; the counters are semaphores |
| `DocumentLifecycle.cfg` | 1 document, 1 worker, 2 requests, 3 job rows, 2 attempts, one fault of each side | types; retry budget; agreement of the two stores; deleted documents stay gone |
| `DocumentLifecycleReplicas.cfg`, `DocumentLifecycle` | 1 document, 2 workers, 2 requests, 2 job rows, no faults | nothing stranded; progress rows are real; every ingest settles |
| `SemanticCache.cfg`, `MCSemanticCache` | 2 documents of one collection, 1 turn at a time, 2 requests, 1 entry, 1 re-ingest | only an entry whose store crossed an eviction, or lost its tags, outlives a deletion; an eviction removes nothing of another key |
| `Access.cfg`, `MCAccess` | 2 users, 1 department, 2 collections with a document each, grants on one of them, 1 request at a time, 3 changes | nothing shown that was never readable; standing grants are served |
| `Sessions.cfg`, `MCSessions` | 3 client requests, 2 admin requests, 1 failing Redis call, 1 token that ages | revocation ends sessions; revoked tokens obtain nothing |
| `Passages.cfg`, `MCPassages` | the files of `MCSources` (every type and backend, up to five items), 2 ingestions, small window, row and budget settings | no text lost; sections, captions and pages; budgets; images resolve |
| `PassagesDeleted.cfg`, `MCPassages` | the same | **violated**: finding 2 |

Why the bounds are enough. *AgentGraph*: two turns are what every interaction through the
thread needs (one leaves a key, one meets it); three turns let a leftover of the first pass
through a cache hit of the second. Two collections make scopes incomparable. The cap of 10 is
below what the retry loops can reach, so the cap is what ends those turns; in the default
settings the counters are. *ChatTurns*: three turns are one that leaves a run behind, one
that meets it and one between them in time; both endpoints are there because only a stream
leaves before its run and stores after an error; with two slots and one executor thread
both a refused request and a run that times out in the executor's queue occur. *Admission*:
three requests at limits of 2 and 1 reach both rejections and the release after a
rejection; every counter belongs to a key of its own, so a second user adds no
interaction except through the global one, where a request of the same user does the
same. *DocumentLifecycle*: documents do not interact except through the order of the queue, so
one document with several jobs is the interesting instance; the proofs cover any number.
Three job rows allow an upload, a re-ingest and a row created for an untracked retry. There
are enough batches for every run of the indexer that the other bounds allow.
*SemanticCache*: two requests give evictions that overlap, two documents of one collection
keys that share some entries and not others; turns only meet through entries, and one turn
already interleaves with everything an eviction does; the proofs cover any number.
*Access*: requests do not read each other's state except through the cache and the stored
answers, which persist from one request to the next, so one at a time over two users is
enough; three changes are a grant, its revocation and a move of the user or a new
collection; grants are to users and to the department, and the collection without grants is
reached through the department. *Sessions*: three client requests are a login, a refresh
and a use of the result; two admin requests are two that overlap. *Passages*: lengths straddle
every threshold (a tail that is merged and one that is not, a window that needs several
cuts, a table below and above the row threshold, a window that begins with a line shorter than an
overlap, a table's block above the budget, which `MCPassages` assumes to hold a window of text,
as in the code's defaults). `Searching` stops when the one search a run makes has been
assembled. Two ingestions are one and the one that replaces it.

Requests, documents and users that nothing distinguishes are declared symmetric, in runs
that check invariants, action properties and a refinement without fairness only.
`CHECK_DEADLOCK FALSE`: users, clients and admins may stop.

Type invariants of `ChatTurns`, `Sessions`, `Access`, `SemanticCache` and `Admission` are
stated in the modules and proved there; the runs check the ones listed with them.

Fairness. *AgentGraph*: a started turn is driven by a thread that nothing pauses: weak
fairness of `GraphStep`; users owe nothing. *ChatTurns*: weak fairness of each handler's own
steps (the event loop runs what can go on) and of each graph run, which ends because
`AgentGraph` does; a time-out, a disconnect, a deletion, a refusal and a restart owe
nothing. *DocumentLifecycle*: a worker's loop and a handler that has begun keep running: weak
fairness of every worker's steps, strong fairness of every request's, because a deletion
waits for row locks that workers take and release and Postgres grants them in order.
Crashes, captioning steps and new requests have none. *Admission*'s clock and let-in requests
are fair in the specification; no property of its run needs it.

Refinement. `SlotsAreSemaphores` states that `Admission` implements `Semaphore` for the
global key and every user's: a step of `rate_limit` is a `Take`, a `Put`, a `Die`, a `Lose` or
changes nothing there. `ChatTurns` is built on the same module, so what is checked of turns
rests on what is checked of the counters (limit of one key, no loss).  The refinement is
also proved (section 5).

## 4. Findings

1. `SearchedAsAsked` (`nodes.py:144`): "A self-contained question is searched as asked"
   fails when an earlier turn of the session rewrote its query: the key survives in the
   checkpoint and replaces the new question in the search. Known in `docs/AUDIT.md`
   section 11 as per-turn state poisoning and open at this commit.
2. `NoOrphanedVectors` (`documents.py:110`): the service promises "No orphaned vectors", and
   a deletion leaves the document's page vectors, renders and crops behind, where the visual
   search still finds them.

Seen while modelling, and the reason why a property has an exception:

- Session state: a refusal makes later turns of the session replay it
  (`StaleReplyOnlyAfterRefusal` is the exact extent); a turn cut short by a leftover flag, or
  a blank message, returns the citations of the earlier turn, so `CitedWithinScope` is about
  answers the turn itself produced; an answer served from the cache without markers is shown
  with all of its sources as citations (`nodes.py:107` against `citations.py:5`).
- Evaluation: `only_allowed_documents` (`judge.py:57`) compares the citations with the
  thread's chunks, which a cache hit does not write, so hits are flagged.
- Turns: a stream gives its slot back before its graph runs; a stream whose graph raised
  stores the answer of an earlier turn (`StoredAnswerIsOwn`).
- Report: answers of turns that crossed another one's, and those whose question is older
  than the window, are dropped with their ratings (`GapsAreListed`).
- Cache: a re-ingest evicts before the worker replaces the chunks, so an answer from the
  old ones can be cached afterwards without any race (`documents.py:98`); a store that
  crosses a deletion's eviction stays servable (`OnlyRacersOutliveDeletion`).
- Ingestion: `BLPOP` takes the payload before the job is handled, so a worker's crash strands
  the document (`docs/production.md:115` says otherwise; `NoDocumentStranded` is checked without
  crashes); a deletion while a worker is inside the indexer leaves `rag_chunks` vectors
  (`DeletedStaysGone` is the extent); two workers can leave two generations of chunks,
  which is why `NoDuplicates` and `IndexedIsSearchable` are about one worker.
- Search: `docs/production.md:110` promises an answer when Qdrant is down, and the cache
  lookup and the search let the exception through.
- Access: grants on single documents are stored and read by nothing (`can_access_document` has
  no caller), so `StandingGrantsServed` is about grants on collections.
- Chunks: a window's page is that of an element of it or after it, not always where it begins
  (`chunker.py:233`); equal section titles merge their windows; the tables of a DOCX file
  parsed by the legacy backend all get the last section; `_denoise` counts Docling's text
  elements as if they were pages.

## 5. Proofs

All theorems are for arbitrary constants, under the named assumptions of the modules
(`SettingsAssumption`, `QuestionsAssumption`, `LifecycleAssumption`, `CacheAssumption`,
`AccessAssumption`, `AdmissionAssumption`, `SessionsAssumption`, `ChatTurnsAssumption`,
`KnowledgeGapsAssumption`, `ParserAssumption`, `ChunkerAssumption`, `PageImagesAssumption`,
`PassagesAssumption`): naturals, Booleans, distinct special values, at least one indexing attempt, a collection for
every document, a chat or a stream but not both, a hold below the expiry, positive budgets,
an overlap shorter than its window, files that a library can produce (`IsFile`).
Workers (`DocumentLifecycle`) and requests (`Admission`, `Sessions`, with its admins) are
finite sets where they are counted. Each invariant was checked by TLC on its component's run
before it was proved, but for `PackInv`, `FileInv` and `OrderInv`, which quantify over
functions and sequences.

`AgentGraphProofs`:

- `TypeCorrect`: `TypeOK` with `QueryInv` (a running turn that is past the guard has a
  question to search for), without which `rewrite` could store a blank query.
- `TurnBoundedByRetries`: from `RetriesInv`, which gives for every node the largest
  `iterations` with which it can be about to run, as a function of the two counters.
- `TurnBoundedByCap`: from `CapInv`, the same with the cap: a node reached over an edge
  that tests the cap runs below it, the others a fixed number of nodes later.
- `CacheStaysWithinScope`, `CitationsStayWithinScope`: from `ScopeInv` (chunks of a
  running turn past retrieval lie in its scope, and so do the citations drawn from
  them), `FreshInv` (where the answer was written in this turn) and `CitedInv`.
- `OneReply`, `StaleRepliesExplained`, `CacheHoldsAcceptedAnswers`: from `ReplyInv`,
  `StaleInv` and `AcceptedInv`, which say for each node what has happened to the reply,
  the flags and the answer by the time the turn gets there.
- `GeneratedAnswersNotFlagged`: from `ScopeInv` and `EvalInv`: besides a hit and a refusal
  only `cache_writer` leads to the evaluation, with the citations of its own draft.

`DocumentLifecycleProofs`:

- `TypeCorrect`: `TypeOK` with `HolderInv`: a busy worker or request holds a document,
  and a worker that has upserted holds a batch.
- `NothingStranded`: `NoDocumentStranded` is inductive relative to the types once it is
  split by actor. The lemmas say what a push and a pop do to the documents of a list
  (`PushHolds`, `PopHolds`) and that the step of one worker or request leaves what the
  others contribute (`WorkerMoved`, `RequestMoved`).
- `GoneForGood`: the action property, from `GoneInv` (a deleted document has no chunks
  left in Postgres) and the type invariant.
- `BudgetKept`: from `BudgetInv`: the attempts of a payload stay below the budget on every
  list and in every worker's hands, and a worker that will push again, or give up, does it
  for the attempt at which the code decides so. `PushTries` and `PopTries` carry it through
  the lists.
- `ProgressHonest`: inductive relative to the types once split by actor, like
  `NothingStranded`: a row that leaves one of its keepers reaches the next one in the same
  step (`PushHoldsJob`, `PopHoldsJob`, `RequestTracks`, `WorkerTracks`).
- `SoleWorker`, `OneGeneration`, `IndexedIsThere`: from `SoleInv`, which says for every point of
  the worker's run what it has cleared, wiped and written, that no document it is in is
  `INDEXED`, and that only a deletion takes points from under it. The two properties alone
  are not inductive: the commit of a batch is right because the points were wiped before and
  nobody else writes any.

`SemanticCacheProofs`:

- `TypeCorrect`: `TypeOK` with `OwnerInv`: a running turn alone owns the entry it will
  store, and a busy request has a key.
- `OnlyRacers`: `OnlyRacersOutliveDeletion` speaks of deleted documents only, so it is
  carried back through the eviction. `TaggedInv`: what is tagged, or found, was stored by a turn
  that has ended and has the key. `CoverInv`: an entry not at risk is tagged with all its
  keys. Hence what `FindTagged` does not find is at risk (`TagsFindAll`), which `EvictInv`
  keeps until the tag set is dropped and `DeletedInv` from there to the row's deletion.
  Each action has a lemma; `StillSeen` and `FadeSafe` serve those that move no eviction on.
- `EvictsExactly`: the action property, from `TaggedInv`.

`AccessProofs`. `AccessInv` is inductive as a whole; the lemmas before it say what the four
kinds of step (a commit, a login of a request, a statement, an end) do to the requests.

- `TypeCorrect`.
- `NothingUnreadableShown`: from `CouldInv` (a request in flight has recorded all it can read
  now, its scope lies in that record, and only a user who is no admin reads grants) and
  `CacheInv` (an entry's documents lie in the scope it is keyed by). `could` only grows, so
  every later commit keeps what a statement has put into the scope.
- `StandingGrantsHonoured`: from `Stands`: by the time a statement has run, the collections of
  the standing rows it reads are in the scope; an admin's one statement finds the collection
  of the document that was asked for, as collections are never deleted.

`AdmissionProofs`. `KeyInv` speaks of one counter; a call of `rate_limit` enters a counter,
renews its expiry, leaves it, resets it, dies, or has nothing to do with it, and one lemma for
each of the six serves all calls.

- `AdmissionInvariant`, `AdmissionTypes`: `CountInv` (until it is lost, a counter counts
  everybody in it, and exactly them without faults), `WinInv` (who holds a place or has been
  answered within the limit are no more than the limit: the strengthening that makes
  `WithinLimits` inductive, since the comparison comes after the increment), `ExpiryInv` (a
  counter without expiry counts only requests about to give it one) and `LifeInv` (an expiry
  outlives the requests that renewed it).
- `LimitsHold`, `SlotsComeBack`, `LeakedSlotsExpire`: from it.
- `ExpirySparesTheRunning`: the action property, from `LifeInv`.
- `AdmissionImplementsSemaphores`: the refinement for the global key and every user's. Each
  call is a `Take`, a `Put`, a `Die` or a `Lose` of one key and leaves the holders of the others;
  `WinInv` gives `Take` its free place.

`SessionsProofs`. `SessionsInv` is inductive as a whole.

- `RevokedObtainNothing`: from `DenyInv`: a revoked token stays on the denylist to its last
  second, so a request that came with one is past the denylist only by a slip.
- `RevocationEnds`: from `CrossInv` (while an admin is ending sessions no pair or request is
  unmarked that is not older than the stamp) and `SoundInv` (an unmarked pair that the epoch
  still accepts was opened after the last end, with the current password; so is what a
  refresh that has passed its checks will issue).
- `SessionsTypes`: the bounds of clock and password, by counting pairs, stamps and resets.

`KnowledgeGapsProofs`. `TurnsInv` relates handler, graph run, stream, checkpoint, rows and
instants of every turn. A lemma for each kind of step says what it leaves alone; most steps
touch two or three of the parts.

- `AnswersAreOwn`: from `NamedInv` (who is named as the writer of an answer has finished) and
  `EventInv` (what a stream has read and will read tells it its own run's answer).
- `HistoriesAgree`, `OverlapsHaveLeftovers`: from `SerialInv` (of turns that overlapped no other,
  checkpoint and every loaded state hold exactly the finished ones), `PhaseInv`, `CrossedInv`
  and `StoreInv`.
- `PairsAreTrue`, `NoGapIsMissed`: `AskedInv`, `QuestionInv`, `AloneInv` and `PairedInv` say that
  nothing is stamped between question and answer of a turn that crossed no other; the pairing
  of the report is then a fact about one state (`OwnQuestion`).
- `RatedTurnsAreTurns`: the steps of the module with ratings are those of `ChatTurns` or leave
  its variables, so what is proved of turns holds of rated ones.
- `RatingsStand`: the stored rating is the last acknowledged one, from the unique constraint.
- `TurnsTypes`.

`PassagesProofs`, for every file and every setting (its definitions are in
`PassagesInvariants`):

- `MediaInvariant`, `ImagesResolve`: `StagesInv` is the protocol that makes `MediaResolves`
  inductive: nothing is listed while the crops are cleared, the crops of the parsed file are
  stored before its chunks are listed, and `paged` is up only once the points were renewed.
  These two need nothing of what the parser and the chunker compute.
- `FileInvariant`: `FileInv` is `DocInv` (every readable item of the file is in an element,
  every element is of items under its title, and on the Docling path an element is one item),
  `LoopInv` (at every step of the loop the elements passed are in the chunks or in the run, the
  chunks are windows of runs of elements or show a table or a figure, the hint is the element
  before) and `SizeKnown` (a window in the index is no longer than `LargestWindow`).
- `FileIsKept`: at the end of the loop the run is empty, so `LoopInv` says `NothingLost`. Its
  lemmas say for every parser that each item is read, for both chunkers that the windows of a
  text have all its places, and that the ranges of a table's rows tile it.
- `OrderInvariant`, `SectionsAreKept`: `OrderInv` adds that elements and chunks are in the order
  of the file (`DocOrdered`; `Batch`: the chunks emitted are of the elements passed; `Chained`: the
  first place of a window is at most all of the next). The titles, pages and hints of
  `SectionsKept` follow from `FileInv`, the order of the windows from `OrderInv`: a tail copied
  into the next window is behind the start of its own, because an overlap is shorter than a
  window.
- `PackingFits`: one step of the packing loop keeps `Packed`: the recorded tokens are those of
  the blocks, within the budget, and there is a block. It rests on `CutFitsBudget` (cutting to
  the budget and estimating again stays within it) and on `TotalOfAppend`.
- `ContextWithinBudgets`: `ContextFits` under the hypothesis `BudgetHoldsWindow`, a condition on
  the settings only: the budget of an answer holds the longest window (with the defaults 721 of
  3000 tokens). Without it the code does cut windows of text. What was a hypothesis about the
  index, that its windows fit, now follows from `FileInv`; `LargestWindow` is what the chunkers
  can emit at most.

Induction. The library's induction theorems are out of the prover's reach, as they take an
operator; induction over the naturals is done from `LeastElement` (a set of naturals that is not
empty has a least one), whose instance for a set is `Climb`. A recursive function (`PackAll`,
`SplitAll`, `InOneText`, `TotalOf`, the folds behind `FlattenSeq`) is known by its equation, which
`FoldExists` shows to have a solution; invariants are then carried along the sequence.

Model-checked only. `TurnTerminates`, `EveryIngestSettles`, `EveryRequestEnds`: liveness under
fairness, which this prover does not do. Every other property of a passing run is a theorem.

## 6. Not modelled

OCR, embedding, reranking and language models, prompts and JSON repair; scores of retrieval
and of the evaluation; the parsing of metadata questions; the libraries that read files;
hashing and JWT encoding; tracing, metrics, audit log and health; the offline evaluation
harness, red-team and seed scripts; migrations and deployment; the views of the single-page
app; the GPU services. They are numeric, stateless, best effort or text. `check_request_rate`
is in `Admission`; its window is the key of the minute. The eval queue is a push and a pop
that nothing waits for; that the worker serves it after the ingest queue (`worker/main.py:139`)
can delay evaluations without bound and is accepted by the code.

## 7. Plan

1. Composition: `DocumentLifecycle` and `SemanticCache` share the handlers' order of
   effects and the worker's; one module over both, with the worker refined, and the proof that
   it implements each.
2. `ChatTurns` takes its slots by `Semaphore`'s actions; a module that puts `Admission` in their
   place would carry `AdmissionImplementsSemaphores` over to turns.
