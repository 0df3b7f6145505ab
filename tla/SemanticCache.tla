---------------------------- MODULE SemanticCache ----------------------------
(***************************************************************************)
(* The semantic cache and its eviction (app/retrieval/semantic_cache.py,   *)
(* app/services/cache.py), with the handlers that evict: deletion and      *)
(* re-ingest of documents (app/services/documents.py) and permission       *)
(* changes (app/api/admin.py).                                             *)
(*                                                                         *)
(* Entries live in Qdrant, the tags that find them again in Redis, and     *)
(* nothing makes the two change together.  Chat turns store while handlers *)
(* evict, so a store is two actions (entry, tags) and an eviction three    *)
(* (read the tag set, delete the entries, drop the tag set).               *)
(*                                                                         *)
(* An entry is the set of documents, with the generation of their chunks,  *)
(* that its answer was derived from.  Questions, answers and the scope     *)
(* that is part of the key (see AgentGraph) decide who is served and are   *)
(* left out: here an entry is servable or not.                             *)
(***************************************************************************)
EXTENDS Naturals, FiniteSets

CONSTANTS
    Docs, Collections,
    CollOf,                 \* the collection of each document
    Turns,                  \* chat turns running at a time
    Handlers,               \* API requests that evict
    EntryIds,               \* ids of cache entries: bounds the stores
    None,                   \* no entry, no key
    MaxGeneration           \* bound on the re-ingests of a document

ASSUME CacheAssumption ==
    /\ CollOf \in [Docs -> Collections]
    /\ Docs \cap Collections = {}
    /\ None \notin EntryIds \cup Docs \cup Collections
    /\ MaxGeneration \in Nat \ {0}

VARIABLES
    row,                    \* documents in Postgres: "live" or "deleted"
    index,                  \* generation of the chunks a search finds; 0: none
    generation,             \* the last generation written for each document
    pending,                \* documents with a re-ingest in the queue
    indexing,               \* documents a worker is indexing
    entries,                \* cache entries in Qdrant
    tags,                   \* Redis sets cache:doc:<id> and cache:coll:<id>
    turn,                   \* what each chat turn has read, and where it is
    handler,                \* what each evicting request is doing
    atRisk                  \* history: entries whose store an eviction crossed, or
                            \* whose tags were never written

documents == <<row, index, generation, pending, indexing>>
vars == <<documents, entries, tags, turn, handler, atRisk>>

Keys == Docs \cup Collections
\* What an answer was derived from.  Generation 0: the row alone (metadata).
Sources == [doc: Docs, gen: 0..MaxGeneration]
EntryAt == {"unused", "stored", "gone"}
HandlerAt == {"idle", "evict", "found", "wiped", "evicted"}
Kinds == {"delete", "reindex", "permission"}

TypeOK ==
    /\ row \in [Docs -> {"live", "deleted"}]
    /\ index \in [Docs -> 0..MaxGeneration]
    /\ generation \in [Docs -> 0..MaxGeneration]
    /\ pending \in SUBSET Docs
    /\ indexing \in SUBSET Docs
    /\ entries \in [EntryIds -> [at: EntryAt, sources: SUBSET Sources, expired: BOOLEAN]]
    /\ tags \in [Keys -> SUBSET EntryIds]
    /\ turn \in [Turns -> [at: {"idle", "retrieved", "upserted"},
                           entry: EntryIds \cup {None}, sources: SUBSET Sources]]
    /\ handler \in [Handlers -> [at: HandlerAt, kind: Kinds \cup {None},
                                 key: Keys \cup {None}, ids: SUBSET EntryIds]]
    /\ atRisk \in SUBSET EntryIds

Unused == [at |-> "unused", sources |-> {}, expired |-> FALSE]
Gone == [at |-> "gone", sources |-> {}, expired |-> FALSE]
IdleTurn == [at |-> "idle", entry |-> None, sources |-> {}]
IdleHandler == [at |-> "idle", kind |-> None, key |-> None, ids |-> {}]

\* Documents that have been uploaded and indexed, and an empty cache.
Init ==
    /\ row = [d \in Docs |-> "live"]
    /\ index = [d \in Docs |-> 1] /\ generation = [d \in Docs |-> 1]
    /\ pending = {} /\ indexing = {}
    /\ entries = [e \in EntryIds |-> Unused]
    /\ tags = [k \in Keys |-> {}]
    /\ turn = [t \in Turns |-> IdleTurn]
    /\ handler = [h \in Handlers |-> IdleHandler]
    /\ atRisk = {}

\* The keys an entry is tagged with: its documents and their collections.
KeysOf(sources) == {s.doc : s \in sources} \cup {CollOf[s.doc] : s \in sources}

Running(t) == turn[t].at # "idle"
\* An eviction has read the tags of k and has not finished with them.
Evicting(k) == \E h \in Handlers : handler[h].key = k /\ handler[h].at \in {"found", "wiped"}
Deleting(d) == \E h \in Handlers : handler[h].key = d /\ handler[h].kind = "delete"

-----------------------------------------------------------------------------
(* A chat turn, from what it read to what it stores.                       *)

FreeIds == {e \in EntryIds : entries[e].at = "unused" /\ \A t \in Turns : turn[t].entry # e}

\* A turn reads chunks from the index, or rows in a metadata lookup; an answer will
\* be derived from some of them.  The id of its entry is drawn here.
Retrieve(t, sources) == \E e \in FreeIds :
    /\ ~Running(t) /\ sources # {}
    /\ turn' = [turn EXCEPT ![t] = [at |-> "retrieved", entry |-> e, sources |-> sources]]
    /\ atRisk' = IF \/ \E k \in KeysOf(sources) : Evicting(k)
                    \/ \E s \in sources : Deleting(s.doc) \/ row[s.doc] = "deleted"
                 THEN atRisk \cup {e} ELSE atRisk
    /\ UNCHANGED <<documents, entries, tags, handler>>

\* Retriever.search sees what is in the index, orphaned vectors included.
SearchChunks(t) ==
    \E S \in SUBSET {d \in Docs : index[d] > 0} :
        Retrieve(t, {[doc |-> d, gen |-> index[d]] : d \in S})

\* lookup_documents reads the rows.
LookupRows(t) ==
    \E S \in SUBSET {d \in Docs : row[d] = "live"} :
        Retrieve(t, {[doc |-> d, gen |-> 0] : d \in S})

\* The answer is not accepted, or the first half of the store fails.
NotStored(t) ==
    /\ turn[t].at = "retrieved"
    /\ turn' = [turn EXCEPT ![t] = IdleTurn]
    /\ atRisk' = atRisk \ {turn[t].entry}
    /\ UNCHANGED <<documents, entries, tags, handler>>

\* SemanticCache.store: the entry becomes servable ...
UpsertEntry(t) ==
    /\ turn[t].at = "retrieved"
    /\ entries' = [entries EXCEPT ![turn[t].entry] =
            [at |-> "stored", sources |-> turn[t].sources, expired |-> FALSE]]
    /\ turn' = [turn EXCEPT ![t].at = "upserted"]
    /\ UNCHANGED <<documents, tags, handler, atRisk>>

\* Mutated TagEntry: the document tags are forgotten.
TagCollections(t) ==
    /\ turn[t].at = "upserted"
    /\ tags' = [k \in Keys |-> IF k \in KeysOf(turn[t].sources) \cap Collections
                              THEN tags[k] \cup {turn[t].entry} ELSE tags[k]]
    /\ turn' = [turn EXCEPT ![t] = IdleTurn]
    /\ UNCHANGED <<documents, entries, handler, atRisk>>

\* ... and is tagged in one Redis transaction.
TagEntry(t) ==
    /\ turn[t].at = "upserted"
    /\ tags' = [k \in Keys |->
            IF k \in KeysOf(turn[t].sources) THEN tags[k] \cup {turn[t].entry} ELSE tags[k]]
    /\ turn' = [turn EXCEPT ![t] = IdleTurn]
    /\ UNCHANGED <<documents, entries, handler, atRisk>>

\* Redis fails, which cache_writer only logs, or the process dies.
TaggingFails(t) ==
    /\ turn[t].at = "upserted"
    /\ turn' = [turn EXCEPT ![t] = IdleTurn]
    /\ atRisk' = atRisk \cup {turn[t].entry}
    /\ UNCHANGED <<documents, entries, tags, handler>>

\* The TTL of an entry passes.
Expire(e) ==
    /\ entries[e].at = "stored" /\ ~entries[e].expired
    /\ entries' = [entries EXCEPT ![e] =
            [at |-> "stored", sources |-> entries[e].sources, expired |-> TRUE]]
    /\ UNCHANGED <<documents, tags, turn, handler, atRisk>>

\* lookup deletes an expired entry it walks past; the tags keep its id.
LookupEvicts(e) ==
    /\ entries[e].at = "stored" /\ entries[e].expired
    /\ entries' = [entries EXCEPT ![e] = Gone]
    /\ UNCHANGED <<documents, tags, turn, handler, atRisk>>

\* purge_expired: the worker's sweep.
PurgeExpired ==
    /\ \E e \in EntryIds : entries[e].at = "stored" /\ entries[e].expired
    /\ entries' = [e \in EntryIds |->
            IF entries[e].at = "stored" /\ entries[e].expired THEN Gone ELSE entries[e]]
    /\ UNCHANGED <<documents, tags, turn, handler, atRisk>>

-----------------------------------------------------------------------------
(* Handlers.                                                               *)

\* delete_document starts with the vectors.
StartDelete(h, d) ==
    /\ handler[h].at = "idle" /\ row[d] = "live"
    /\ index' = [index EXCEPT ![d] = 0]
    /\ handler' = [handler EXCEPT ![h] =
            [at |-> "evict", kind |-> "delete", key |-> d, ids |-> {}]]
    /\ UNCHANGED <<row, generation, pending, indexing, entries, tags, turn, atRisk>>

\* reindex_document has committed PENDING.
StartReindex(h, d) ==
    /\ handler[h].at = "idle" /\ row[d] = "live"
    /\ handler' = [handler EXCEPT ![h] =
            [at |-> "evict", kind |-> "reindex", key |-> d, ids |-> {}]]
    /\ UNCHANGED <<documents, entries, tags, turn, atRisk>>

\* edit_permission and revoke_permission evict before they commit.
StartPermission(h, k) ==
    /\ handler[h].at = "idle"
    /\ handler' = [handler EXCEPT ![h] =
            [at |-> "evict", kind |-> "permission", key |-> k, ids |-> {}]]
    /\ UNCHANGED <<documents, entries, tags, turn, atRisk>>

\* Mutated FindTagged: the entries of the whole collection are taken.
FindInCollection(h) ==
    LET k == handler[h].key
        found == tags[IF k \in Docs THEN CollOf[k] ELSE k]
    IN
    /\ handler[h].at = "evict"
    /\ handler' = [handler EXCEPT ![h].ids = found,
                                  ![h].at = IF found = {} THEN "evicted" ELSE "found"]
    /\ atRisk' = atRisk \cup
            {turn[t].entry : t \in {u \in Turns : Running(u) /\ k \in KeysOf(turn[u].sources)}}
    /\ UNCHANGED <<documents, entries, tags, turn>>

\* _evict: SMEMBERS; an empty set ends the eviction.
FindTagged(h) ==
    LET k == handler[h].key IN
    /\ handler[h].at = "evict"
    /\ handler' = [handler EXCEPT ![h].ids = tags[k],
                                  ![h].at = IF tags[k] = {} THEN "evicted" ELSE "found"]
    /\ atRisk' = atRisk \cup
            {turn[t].entry : t \in {u \in Turns : Running(u) /\ k \in KeysOf(turn[u].sources)}}
    /\ UNCHANGED <<documents, entries, tags, turn>>

DeleteEntries(h) ==
    /\ handler[h].at = "found"
    /\ entries' = [e \in EntryIds |->
            IF e \in handler[h].ids THEN Gone ELSE entries[e]]
    /\ handler' = [handler EXCEPT ![h].at = "wiped"]
    /\ UNCHANGED <<documents, tags, turn, atRisk>>

DropTag(h) ==
    /\ handler[h].at = "wiped"
    /\ tags' = [tags EXCEPT ![handler[h].key] = {}]
    /\ handler' = [handler EXCEPT ![h].at = "evicted"]
    /\ UNCHANGED <<documents, entries, turn, atRisk>>

\* The rest of the handler: the row goes, the payload is queued, or the permission
\* is committed.
Finish(h) ==
    LET d == handler[h].key IN
    /\ handler[h].at = "evicted"
    /\ row' = IF handler[h].kind = "delete" THEN [row EXCEPT ![d] = "deleted"] ELSE row
    /\ pending' = IF handler[h].kind = "reindex" THEN pending \cup {d} ELSE pending
    /\ handler' = [handler EXCEPT ![h] = IdleHandler]
    /\ UNCHANGED <<index, generation, indexing, entries, tags, turn, atRisk>>

\* A Qdrant or Redis call raises, or the process dies: nothing later happens.
HandlerFails(h) ==
    /\ handler[h].at # "idle"
    /\ handler' = [handler EXCEPT ![h] = IdleHandler]
    /\ UNCHANGED <<documents, entries, tags, turn, atRisk>>

-----------------------------------------------------------------------------
(* The worker, as the cache sees it (see DocumentLifecycle).               *)

\* index_document deletes the old chunks ...
BeginIndexing(d) ==
    /\ d \in pending /\ d \notin indexing /\ row[d] = "live" /\ generation[d] < MaxGeneration
    /\ pending' = pending \ {d} /\ indexing' = indexing \cup {d}
    /\ index' = [index EXCEPT ![d] = 0]
    /\ UNCHANGED <<row, generation, entries, tags, turn, handler, atRisk>>

\* ... and upserts the new ones, even when the document has just been deleted.
FinishIndexing(d) ==
    /\ d \in indexing
    /\ indexing' = indexing \ {d}
    /\ generation' = [generation EXCEPT ![d] = @ + 1]
    /\ index' = [index EXCEPT ![d] = generation'[d]]
    /\ UNCHANGED <<row, pending, entries, tags, turn, handler, atRisk>>

\* A failed run is retried or ends in the dead-letter list.
FailIndexing(d) ==
    /\ d \in indexing
    /\ indexing' = indexing \ {d}
    /\ pending' \in {pending, pending \cup {d}}
    /\ UNCHANGED <<row, index, generation, entries, tags, turn, handler, atRisk>>

-----------------------------------------------------------------------------
TurnStep(t) ==
    \/ SearchChunks(t) \/ LookupRows(t) \/ NotStored(t) \/ UpsertEntry(t) \/ TagEntry(t)
    \/ TaggingFails(t)

HandlerStep(h) ==
    \/ \E d \in Docs : StartDelete(h, d) \/ StartReindex(h, d)
    \/ \E k \in Keys : StartPermission(h, k)
    \/ FindTagged(h) \/ DeleteEntries(h) \/ DropTag(h) \/ Finish(h) \/ HandlerFails(h)

EntryStep == PurgeExpired \/ \E e \in EntryIds : Expire(e) \/ LookupEvicts(e)

WorkerStep == \E d \in Docs : BeginIndexing(d) \/ FinishIndexing(d) \/ FailIndexing(d)

Next ==
    \/ \E t \in Turns : TurnStep(t)
    \/ \E h \in Handlers : HandlerStep(h)
    \/ EntryStep
    \/ WorkerStep

Spec == Init /\ [][Next]_vars

-----------------------------------------------------------------------------
(* Properties.                                                             *)

Servable(e) == entries[e].at = "stored" /\ ~entries[e].expired

\* An entry outlives the deletion of one of its documents only if its store crossed
\* an eviction or a deletion of one of its keys, or its tags were lost: every other
\* entry is found through its tags and evicted, whatever evictions, failed handlers,
\* re-ingests and permission changes came before.
OnlyRacersOutliveDeletion ==
    \A e \in EntryIds : Servable(e) /\ (\E s \in entries[e].sources : row[s.doc] = "deleted")
        => e \in atRisk

\* "Evict exactly the affected entries" (semantic_cache.py): an entry within its TTL
\* is only ever removed by the eviction of one of its own keys.
EvictsOnlyAffected ==
    [][\A e \in EntryIds : Servable(e) /\ entries'[e].at = "gone" =>
            \E h \in Handlers : handler[h].at = "found" /\
                handler[h].key \in KeysOf(entries[e].sources)]_vars
=============================================================================
