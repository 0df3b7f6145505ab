------------------------- MODULE SemanticCacheProofs -------------------------
(***************************************************************************)
(* Proofs about SemanticCache, for every number of documents, collections, *)
(* turns, evicting requests and entries.                                   *)
(***************************************************************************)
EXTENDS SemanticCache, TLAPS

\* A running turn owns the entry it will store, and nobody else's; a busy handler
\* has a key, a document when it deletes or re-ingests; a generation can still be
\* written for what is being indexed.
OwnerInv ==
    /\ \A t \in Turns : Running(t) => turn[t].entry \in EntryIds
    /\ \A t \in Turns : turn[t].at = "idle" => turn[t].entry = None
    /\ \A t, u \in Turns : turn[t].entry = turn[u].entry /\ Running(t) => t = u
    /\ \A t \in Turns : turn[t].at = "upserted" /\ entries[turn[t].entry].at = "stored" =>
          entries[turn[t].entry].sources = turn[t].sources
    /\ \A h \in Handlers : handler[h].at # "idle" =>
          /\ handler[h].key \in Keys
          /\ handler[h].kind \in {"delete", "reindex"} => handler[h].key \in Docs
    /\ \A h \in Handlers : handler[h].at = "idle" => handler[h].key = None
    /\ \A d \in indexing : generation[d] < MaxGeneration

TypeInv == TypeOK /\ OwnerInv

Owned(e) == \E t \in Turns : turn[t].entry = e

\* The entry has been stored, by a turn that has ended, and belongs to the key.
Tagged(e, k) ==
    /\ entries[e].at # "unused"
    /\ ~Owned(e)
    /\ entries[e].at = "stored" => k \in KeysOf(entries[e].sources)

\* This is so of everything tagged, and of what an eviction has found, so nothing
\* touches the entry of a turn that has not stored it yet.
TaggedInv ==
    /\ \A t \in Turns : turn[t].at = "retrieved" => entries[turn[t].entry].at = "unused"
    /\ \A t \in Turns : turn[t].at = "upserted" => entries[turn[t].entry].at # "unused"
    /\ \A k \in Keys : \A e \in tags[k] : Tagged(e, k)
    /\ \A h \in Handlers : handler[h].at = "found" =>
          \A e \in handler[h].ids : Tagged(e, handler[h].key)

\* Unless it is at risk, an entry whose store is complete can be found by its tags.
CoverInv ==
    \A e \in EntryIds : entries[e].at = "stored" /\ ~Owned(e) /\ e \notin atRisk =>
        \A k \in KeysOf(entries[e].sources) : e \in tags[k]

\* The sources of an entry that is stored or about to be.
Uses(e, k) ==
    \/ entries[e].at = "stored" /\ k \in KeysOf(entries[e].sources)
    \/ \E t \in Turns : turn[t].entry = e /\ k \in KeysOf(turn[t].sources)

\* An eviction has seen every entry that uses its key, except those at risk, and
\* what it has seen is gone once it has deleted.
EvictInv ==
    \A h \in Handlers :
        /\ handler[h].at = "found" => \A e \in EntryIds :
              Uses(e, handler[h].key) => e \in atRisk \cup handler[h].ids
        /\ handler[h].at = "wiped" => \A e \in EntryIds :
              Uses(e, handler[h].key) => e \in atRisk

\* Nothing but entries at risk uses a document whose deletion has evicted, or that
\* is deleted.
DeletedInv ==
    /\ \A h \in Handlers : handler[h].at = "evicted" /\ handler[h].kind = "delete" =>
          \A e \in EntryIds : Uses(e, handler[h].key) => e \in atRisk
    /\ \A d \in Docs : row[d] = "deleted" =>
          \A e \in EntryIds : Uses(e, d) => e \in atRisk

CacheInv == TypeInv /\ TaggedInv /\ CoverInv /\ EvictInv /\ DeletedInv

-----------------------------------------------------------------------------
(* Types.                                                                  *)

TurnRecord ==
    [at: {"idle", "retrieved", "upserted"}, entry: EntryIds \cup {None}, sources: SUBSET Sources]
HandlerRecord ==
    [at: HandlerAt, kind: Kinds \cup {None}, key: Keys \cup {None}, ids: SUBSET EntryIds]
EntryRecord == [at: EntryAt, sources: SUBSET Sources, expired: BOOLEAN]

\* The keys of sources are keys, and the collection of a document is not a document.
LEMMA KeysOfType ==
    ASSUME NEW S \in SUBSET Sources
    PROVE  KeysOf(S) \subseteq Keys
BY CacheAssumption DEF KeysOf, Sources, Keys

\* What a turn can read are sources.
LEMMA ReadSources ==
    ASSUME TypeOK, NEW S \in SUBSET Docs
    PROVE  /\ {[doc |-> d, gen |-> index[d]] : d \in S} \in SUBSET Sources
           /\ {[doc |-> d, gen |-> 0] : d \in S} \in SUBSET Sources
<1>1. 0 \in 0..MaxGeneration
  BY CacheAssumption
<1> QED
  BY <1>1 DEF TypeOK, Sources

\* The steps of a turn keep the types.
LEMMA TurnType ==
    ASSUME TypeInv, NEW t \in Turns, TurnStep(t)
    PROVE  TypeInv'
<1> USE CacheAssumption DEF TypeInv, TypeOK, TurnRecord
<1>1. ASSUME NEW S \in SUBSET Sources, Retrieve(t, S) PROVE TypeInv'
  <2>1. PICK e \in FreeIds :
          /\ ~Running(t)
          /\ turn' = [turn EXCEPT ![t] = [at |-> "retrieved", entry |-> e, sources |-> S]]
          /\ atRisk' \in {atRisk, atRisk \cup {e}}
          /\ UNCHANGED <<documents, entries, tags, handler>>
    BY <1>1 DEF Retrieve
  <2>2. e \in EntryIds /\ entries[e].at = "unused" /\ \A u \in Turns : turn[u].entry # e
    BY DEF FreeIds
  <2>3. TypeOK'
    BY <2>1, <2>2 DEF documents
  <2>4. OwnerInv'
    BY <2>1, <2>2 DEF OwnerInv, Running, documents
  <2> QED
    BY <2>3, <2>4
<1>2. CASE SearchChunks(t)
  BY <1>1, <1>2, ReadSources DEF SearchChunks
<1>3. CASE LookupRows(t)
  BY <1>1, <1>3, ReadSources DEF LookupRows
<1>4. CASE NotStored(t)
  <2>1. TypeOK'
    BY <1>4 DEF NotStored, IdleTurn, documents
  <2>2. OwnerInv'
    BY <1>4 DEF NotStored, IdleTurn, OwnerInv, Running, documents
  <2> QED
    BY <2>1, <2>2
<1>5. CASE UpsertEntry(t)
  <2>1. turn[t].entry \in EntryIds
    BY <1>5 DEF UpsertEntry, OwnerInv, Running
  <2>2. TypeOK'
    BY <1>5, <2>1 DEF UpsertEntry, EntryAt, documents
  <2>3. OwnerInv'
    BY <1>5, <2>1 DEF UpsertEntry, OwnerInv, Running, documents
  <2> QED
    BY <2>2, <2>3
<1>6. CASE TagEntry(t)
  <2>1. turn[t].entry \in EntryIds
    BY <1>6 DEF TagEntry, OwnerInv, Running
  <2>2. TypeOK'
    BY <1>6, <2>1 DEF TagEntry, IdleTurn, documents
  <2>3. OwnerInv'
    BY <1>6 DEF TagEntry, IdleTurn, OwnerInv, Running, documents
  <2> QED
    BY <2>2, <2>3
<1>7. CASE TaggingFails(t)
  <2>1. turn[t].entry \in EntryIds
    BY <1>7 DEF TaggingFails, OwnerInv, Running
  <2>2. TypeOK'
    BY <1>7, <2>1 DEF TaggingFails, IdleTurn, documents
  <2>3. OwnerInv'
    BY <1>7 DEF TaggingFails, IdleTurn, OwnerInv, Running, documents
  <2> QED
    BY <2>2, <2>3
<1> QED
  BY <1>2, <1>3, <1>4, <1>5, <1>6, <1>7 DEF TurnStep

\* What the eviction's first read changes in its handler, and that it leaves the others.
LEMMA FindFields ==
    ASSUME handler \in [Handlers -> HandlerRecord], NEW h \in Handlers, FindTagged(h)
    PROVE  /\ \E a \in {"evicted", "found"} :
                /\ a = "evicted" => tags[handler[h].key] = {}
                /\ handler'[h] = [at |-> a, kind |-> handler[h].kind, key |-> handler[h].key,
                                  ids |-> tags[handler[h].key]]
           /\ \A g \in Handlers : g # h => handler'[g] = handler[g]
           /\ DOMAIN handler' = Handlers
           /\ \E x : handler' = [g \in Handlers |-> IF g = h THEN x ELSE handler[g]]
<1> DEFINE k == handler[h].key
           A == IF tags[k] = {} THEN "evicted" ELSE "found"
           new == [handler[h] EXCEPT !.ids = tags[k], !.at = A]
<1>1. handler[h] \in HandlerRecord
  OBVIOUS
<1>2. new = [at |-> A, kind |-> handler[h].kind, key |-> k, ids |-> tags[k]]
  <2> DEFINE r == [handler[h] EXCEPT !.ids = tags[k]]
  <2>1. DOMAIN handler[h] = {"at", "kind", "key", "ids"}
    BY <1>1 DEF HandlerRecord
  <2>2. new = [r EXCEPT !.at = A]
    OBVIOUS
  <2>3. /\ DOMAIN r = DOMAIN handler[h]
        /\ r.ids = tags[k] /\ r.kind = handler[h].kind /\ r.key = k
    BY <2>1
  <2> HIDE DEF A, k, r, new
  <2>4. /\ DOMAIN new = {"at", "kind", "key", "ids"}
        /\ new.at = A /\ new.ids = tags[k] /\ new.kind = handler[h].kind /\ new.key = k
    BY <2>1, <2>2, <2>3
  <2>5. new = [f \in DOMAIN new |-> new[f]]
    BY <2>2
  <2> QED
    BY <2>4, <2>5
<1>3. handler' = [handler EXCEPT ![h] = new]
  BY DEF FindTagged
<1> HIDE DEF new
<1>4. handler'[h] = new /\ \A g \in Handlers : g # h => handler'[g] = handler[g]
  BY <1>3
<1>5. handler' = [g \in Handlers |-> IF g = h THEN new ELSE handler[g]]
  BY <1>3
<1> HIDE DEF A
<1>6. A \in {"evicted", "found"} /\ (A = "evicted" => tags[k] = {})
  BY DEF A
<1> QED
  BY <1>2, <1>4, <1>5, <1>6

\* So do the steps of a handler.
LEMMA HandlerType ==
    ASSUME TypeInv, NEW h \in Handlers, HandlerStep(h)
    PROVE  TypeInv'
<1> USE CacheAssumption DEF TypeInv, TypeOK
<1>1. ASSUME NEW d \in Docs, StartDelete(h, d) PROVE TypeInv'
  BY <1>1 DEF StartDelete, OwnerInv, Running, HandlerAt, Kinds, Keys
<1>2. ASSUME NEW d \in Docs, StartReindex(h, d) PROVE TypeInv'
  BY <1>2 DEF StartReindex, OwnerInv, Running, HandlerAt, Kinds, Keys, documents
<1>3. ASSUME NEW k \in Keys, StartPermission(h, k) PROVE TypeInv'
  BY <1>3 DEF StartPermission, OwnerInv, Running, HandlerAt, Kinds, documents
<1>4. CASE FindTagged(h)
  <2> DEFINE k == handler[h].key
             taken == {turn[t].entry : t \in {u \in Turns : Running(u) /\ k \in KeysOf(turn[u].sources)}}
  <2>1. k \in Keys /\ tags[k] \in SUBSET EntryIds
    BY <1>4 DEF FindTagged, OwnerInv
  <2>2. taken \subseteq EntryIds
    <3>1. \A t \in Turns : Running(t) => turn[t].entry \in EntryIds
      BY DEF OwnerInv
    <3> QED
      BY <3>1
  <2>3. handler \in [Handlers -> HandlerRecord]
    BY DEF HandlerRecord
  <2>4. PICK a \in {"evicted", "found"} :
          /\ handler'[h] = [at |-> a, kind |-> handler[h].kind, key |-> k, ids |-> tags[k]]
          /\ \A g \in Handlers : g # h => handler'[g] = handler[g]
          /\ \E x : handler' = [g \in Handlers |-> IF g = h THEN x ELSE handler[g]]
    BY <1>4, <2>3, FindFields
  <2>5. atRisk' = atRisk \cup taken /\ UNCHANGED <<documents, entries, tags, turn>>
    BY <1>4 DEF FindTagged
  <2>6. handler' \in [Handlers -> HandlerRecord]
    <3>1. handler'[h] \in HandlerRecord
      BY <2>1, <2>3, <2>4 DEF HandlerAt, HandlerRecord
    <3> QED
      BY <2>3, <2>4, <3>1
  <2>7. TypeOK'
    BY <2>1, <2>2, <2>5, <2>6 DEF documents, HandlerRecord
  <2>8. OwnerInv'
    <3>1. /\ handler[h].at # "idle" /\ handler'[h].at # "idle"
          /\ handler'[h].key = handler[h].key /\ handler'[h].kind = handler[h].kind
      BY <1>4, <2>4 DEF FindTagged
    <3>2. /\ \A g \in Handlers : handler'[g].at # "idle" =>
               /\ handler'[g].key \in Keys
               /\ handler'[g].kind \in {"delete", "reindex"} => handler'[g].key \in Docs
          /\ \A g \in Handlers : handler'[g].at = "idle" => handler'[g].key = None
      BY <2>4, <3>1 DEF OwnerInv
    <3>3. UNCHANGED <<entries, turn, indexing, generation>>
      BY <2>5 DEF documents
    <3> QED
      BY <3>2, <3>3 DEF OwnerInv, Running
  <2> QED
    BY <2>7, <2>8
<1>5. CASE DeleteEntries(h)
  <2>1. entries' \in [EntryIds -> EntryRecord]
    BY <1>5 DEF DeleteEntries, Gone, EntryAt, EntryRecord
  <2>2. handler' \in [Handlers -> HandlerRecord]
    <3>1. handler \in [Handlers -> HandlerRecord] /\ handler' = [handler EXCEPT ![h].at = "wiped"]
      BY <1>5 DEF DeleteEntries, HandlerRecord
    <3>2. \A r \in HandlerRecord : [r EXCEPT !.at = "wiped"] \in HandlerRecord
      BY DEF HandlerAt, HandlerRecord
    <3> QED
      BY <3>1, <3>2
  <2>3. TypeOK'
    BY <1>5, <2>1, <2>2 DEF DeleteEntries, EntryRecord, HandlerRecord, documents
  <2>4. \A e \in EntryIds : entries'[e] = Gone \/ entries'[e] = entries[e]
    BY <1>5 DEF DeleteEntries
  <2>5. \A g \in Handlers : handler'[g].key = handler[g].key /\ handler'[g].kind = handler[g].kind
                            /\ (handler'[g].at = "idle" <=> handler[g].at = "idle")
    BY <1>5 DEF DeleteEntries
  <2>6. OwnerInv'
    BY <1>5, <2>4, <2>5 DEF DeleteEntries, Gone, OwnerInv, Running, documents
  <2> QED
    BY <2>3, <2>6
<1>6. CASE DropTag(h)
  BY <1>6 DEF DropTag, OwnerInv, Running, HandlerAt, documents
<1>7. CASE Finish(h)
  BY <1>7 DEF Finish, OwnerInv, Running, IdleHandler, HandlerAt
<1>8. CASE HandlerFails(h)
  BY <1>8 DEF HandlerFails, OwnerInv, Running, IdleHandler, HandlerAt, documents
<1> QED
  BY <1>1, <1>2, <1>3, <1>4, <1>5, <1>6, <1>7, <1>8 DEF HandlerStep

\* So do expiry and the sweeps.
LEMMA EntryType ==
    ASSUME TypeInv, EntryStep
    PROVE  TypeInv'
<1> USE CacheAssumption DEF TypeInv, TypeOK
<1> DEFINE Faded == \A e \in EntryIds : entries'[e].at = "stored" =>
                       entries[e].at = "stored" /\ entries'[e].sources = entries[e].sources
<1>1. /\ entries' \in [EntryIds -> EntryRecord]
      /\ Faded
      /\ UNCHANGED <<documents, tags, turn, handler, atRisk>>
  <2>1. CASE PurgeExpired
    <3>1. entries' \in [EntryIds -> EntryRecord]
      BY <2>1 DEF PurgeExpired, Gone, EntryAt, EntryRecord
    <3>2. Faded
      BY <2>1 DEF PurgeExpired, Gone
    <3> QED
      BY <2>1, <3>1, <3>2 DEF PurgeExpired
  <2>2. ASSUME NEW e \in EntryIds, Expire(e)
        PROVE  entries' \in [EntryIds -> EntryRecord] /\ Faded
               /\ UNCHANGED <<documents, tags, turn, handler, atRisk>>
    <3>1. entries' \in [EntryIds -> EntryRecord]
      BY <2>2 DEF Expire, EntryAt, EntryRecord
    <3>2. Faded
      BY <2>2 DEF Expire
    <3> QED
      BY <2>2, <3>1, <3>2 DEF Expire
  <2>3. ASSUME NEW e \in EntryIds, LookupEvicts(e)
        PROVE  entries' \in [EntryIds -> EntryRecord] /\ Faded
               /\ UNCHANGED <<documents, tags, turn, handler, atRisk>>
    <3>1. entries' \in [EntryIds -> EntryRecord]
      BY <2>3 DEF LookupEvicts, Gone, EntryAt, EntryRecord
    <3>2. Faded
      BY <2>3 DEF LookupEvicts, Gone
    <3> QED
      BY <2>3, <3>1, <3>2 DEF LookupEvicts
  <2> QED
    BY <2>1, <2>2, <2>3 DEF EntryStep
<1>2. TypeOK'
  BY <1>1 DEF EntryRecord, documents
<1>3. OwnerInv'
  BY <1>1 DEF OwnerInv, Running, documents
<1> QED
  BY <1>2, <1>3

\* So does the worker.
LEMMA WorkerType ==
    ASSUME TypeInv, WorkerStep
    PROVE  TypeInv'
<1> USE CacheAssumption DEF TypeInv, TypeOK
<1>1. PICK d \in Docs : BeginIndexing(d) \/ FinishIndexing(d) \/ FailIndexing(d)
  BY DEF WorkerStep
<1>2. CASE BeginIndexing(d)
  BY <1>2 DEF BeginIndexing, OwnerInv, Running
<1>3. CASE FinishIndexing(d)
  <2>1. generation[d] + 1 \in 0..MaxGeneration
    BY <1>3 DEF FinishIndexing, OwnerInv
  <2>2. generation' \in [Docs -> 0..MaxGeneration] /\ index' \in [Docs -> 0..MaxGeneration]
    BY <1>3, <2>1 DEF FinishIndexing
  <2>3. \A c \in indexing' : generation'[c] = generation[c]
    BY <1>3 DEF FinishIndexing
  <2> QED
    BY <1>3, <2>2, <2>3 DEF FinishIndexing, OwnerInv, Running
<1>4. CASE FailIndexing(d)
  BY <1>4 DEF FailIndexing, OwnerInv, Running
<1> QED
  BY <1>1, <1>2, <1>3, <1>4

\* An empty cache and indexed documents have the right types.
LEMMA InitType ==
    ASSUME Init
    PROVE  TypeInv
<1> USE CacheAssumption DEF Init
<1>1. TypeOK
  BY DEF TypeOK, Unused, IdleTurn, IdleHandler, EntryAt, HandlerAt, Keys
<1>2. OwnerInv
  BY DEF OwnerInv, Running, IdleTurn, IdleHandler
<1> QED
  BY <1>1, <1>2 DEF TypeInv

\* Every step of the system keeps the types.
LEMMA NextType ==
    ASSUME TypeInv, [Next]_vars
    PROVE  TypeInv'
<1>1. CASE UNCHANGED vars
  BY <1>1 DEF vars, documents, TypeInv, TypeOK, OwnerInv, Running
<1> QED
  BY <1>1, TurnType, HandlerType, EntryType, WorkerType DEF Next

\* The rows, the index, the cache entries, their tags and what turns and handlers
\* hold keep their types, however many of each there are.
THEOREM TypeCorrect == Spec => []TypeOK
<1>1. TypeInv => TypeOK
  BY DEF TypeInv
<1> QED
  BY <1>1, InitType, NextType, PTL DEF Spec

-----------------------------------------------------------------------------
(* Entries, tags and evictions.                                            *)

\* A document among the keys of sources is the document of one of them.
LEMMA DocOfKeys ==
    ASSUME NEW S \in SUBSET Sources, NEW d \in Docs, d \in KeysOf(S)
    PROVE  \E s \in S : s.doc = d
BY CacheAssumption DEF KeysOf, Sources

\* Evictions and deletions stay covered by a step that gives no entry a new key,
\* takes no user of a key off the list, and moves no handler past its eviction.
LEMMA StillSeen ==
    ASSUME CacheInv, TypeInv', row' = row,
           \A e \in EntryIds, k \in Keys : Uses(e, k)' => Uses(e, k) /\ (e \in atRisk => e \in atRisk'),
           \A g \in Handlers : handler'[g] = handler[g] \/ handler'[g].at \in {"idle", "evict"}
    PROVE  EvictInv' /\ DeletedInv'
<1>1. \A g \in Handlers : handler'[g].at # "idle" => handler'[g].key \in Keys
  BY DEF TypeInv, OwnerInv
<1>2. EvictInv'
  <2> SUFFICES ASSUME NEW g \in Handlers
               PROVE  /\ handler'[g].at = "found" => \A e \in EntryIds :
                            Uses(e, handler[g].key)' => e \in atRisk' \cup handler'[g].ids
                      /\ handler'[g].at = "wiped" => \A e \in EntryIds :
                            Uses(e, handler[g].key)' => e \in atRisk'
    BY DEF EvictInv
  <2> QED
    BY <1>1 DEF CacheInv, EvictInv
<1>3. DeletedInv'
  BY <1>1 DEF CacheInv, DeletedInv, Keys
<1> QED
  BY <1>2, <1>3

\* A retrieval takes a fresh entry, and one at risk if an eviction or a deletion of
\* what it read is under way.
LEMMA RetrieveSafe ==
    ASSUME CacheInv, TypeInv', NEW t \in Turns, NEW S \in SUBSET Sources, Retrieve(t, S)
    PROVE  CacheInv'
<1> USE CacheAssumption
<1>1. PICK e \in FreeIds :
        /\ ~Running(t)
        /\ turn' = [turn EXCEPT ![t] = [at |-> "retrieved", entry |-> e, sources |-> S]]
        /\ atRisk' = IF \/ \E k \in KeysOf(S) : Evicting(k)
                        \/ \E s \in S : Deleting(s.doc) \/ row[s.doc] = "deleted"
                     THEN atRisk \cup {e} ELSE atRisk
        /\ UNCHANGED <<documents, entries, tags, handler>>
  BY DEF Retrieve
<1>2. e \in EntryIds /\ entries[e].at = "unused" /\ \A u \in Turns : turn[u].entry # e
  BY DEF FreeIds
<1>3. /\ turn'[t] = [at |-> "retrieved", entry |-> e, sources |-> S]
      /\ \A u \in Turns : u # t => turn'[u] = turn[u]
      /\ turn[t].entry = None /\ None \notin EntryIds
      /\ tags \in [Keys -> SUBSET EntryIds]
      /\ \A h \in Handlers : handler[h].ids \subseteq EntryIds
  BY <1>1 DEF CacheInv, TypeInv, TypeOK, OwnerInv, Running
<1>4. UNCHANGED <<row, entries, tags, handler>> /\ atRisk \subseteq atRisk'
  BY <1>1 DEF documents
<1>5. \A f \in EntryIds : f # e => (Owned(f)' <=> Owned(f))
  BY <1>3 DEF Owned
<1>6. TaggedInv'
  BY <1>2, <1>3, <1>4, <1>5 DEF CacheInv, TaggedInv, Tagged
<1>7. CoverInv'
  BY <1>2, <1>4, <1>5 DEF CacheInv, CoverInv
<1>8. \A f \in EntryIds, k \in Keys : Uses(f, k)' => Uses(f, k) \/ (f = e /\ k \in KeysOf(S))
  BY <1>3, <1>4 DEF Uses
<1>9. EvictInv'
  <2>1. ASSUME NEW h \in Handlers, NEW f \in EntryIds, handler[h].at \in {"found", "wiped"},
               Uses(f, handler[h].key)', ~ Uses(f, handler[h].key)
        PROVE  f \in atRisk'
    <3>1. handler[h].key \in Keys
      BY <2>1 DEF CacheInv, TypeInv, OwnerInv
    <3>2. f = e /\ handler[h].key \in KeysOf(S)
      BY <1>4, <1>8, <2>1, <3>1
    <3> QED
      BY <1>1, <2>1, <3>2 DEF Evicting
  <2> QED
    BY <1>4, <2>1 DEF CacheInv, EvictInv
<1>10. DeletedInv'
  <2>1. ASSUME NEW h \in Handlers, NEW f \in EntryIds, handler[h].at = "evicted",
               handler[h].kind = "delete", Uses(f, handler[h].key)', ~ Uses(f, handler[h].key)
        PROVE  f \in atRisk'
    <3>1. handler[h].key \in Docs
      BY <2>1 DEF CacheInv, TypeInv, OwnerInv
    <3>2. f = e /\ handler[h].key \in KeysOf(S)
      BY <1>4, <1>8, <2>1, <3>1 DEF Keys
    <3>3. PICK s \in S : s.doc = handler[h].key
      BY <3>1, <3>2, DocOfKeys
    <3>4. Deleting(s.doc)
      BY <2>1, <3>3 DEF Deleting
    <3> QED
      BY <1>1, <3>2, <3>4
  <2>2. ASSUME NEW d \in Docs, NEW f \in EntryIds, row[d] = "deleted",
               Uses(f, d)', ~ Uses(f, d)
        PROVE  f \in atRisk'
    <3>1. f = e /\ d \in KeysOf(S)
      BY <1>8, <2>2 DEF Keys
    <3>2. PICK s \in S : s.doc = d
      BY <3>1, DocOfKeys
    <3> QED
      BY <1>1, <2>2, <3>1, <3>2
  <2> QED
    BY <1>4, <2>1, <2>2 DEF CacheInv, DeletedInv
<1> QED
  BY <1>6, <1>7, <1>9, <1>10 DEF CacheInv

\* An abandoned entry was never stored, so taking it off the list is harmless.
LEMMA NotStoredSafe ==
    ASSUME CacheInv, TypeInv', NEW t \in Turns, NotStored(t)
    PROVE  CacheInv'
<1> USE CacheAssumption
<1> DEFINE e == turn[t].entry
<1>1. /\ e \in EntryIds /\ entries[e].at = "unused"
      /\ \A u \in Turns : u # t => turn[u].entry # e
  BY DEF NotStored, CacheInv, TypeInv, OwnerInv, TaggedInv, Running
<1>2. /\ turn'[t] = IdleTurn /\ \A u \in Turns : u # t => turn'[u] = turn[u]
      /\ atRisk' = atRisk \ {e}
      /\ UNCHANGED <<row, entries, tags, handler>>
  BY DEF NotStored, documents, CacheInv, TypeInv, TypeOK
<1>3. /\ tags \in [Keys -> SUBSET EntryIds]
      /\ \A h \in Handlers : handler[h].ids \subseteq EntryIds
  BY DEF CacheInv, TypeInv, TypeOK
<1> HIDE DEF e
<1>4. \A f \in EntryIds : Owned(f)' => Owned(f)
  BY <1>2 DEF Owned, IdleTurn
<1>5. \A f \in EntryIds : f # e => (Owned(f)' <=> Owned(f))
  BY <1>2 DEF Owned, IdleTurn, e
<1>6. TaggedInv'
  BY <1>1, <1>2, <1>3, <1>4 DEF CacheInv, TaggedInv, Tagged, IdleTurn
<1>7. CoverInv'
  BY <1>1, <1>2, <1>5 DEF CacheInv, CoverInv
<1>8. \A f \in EntryIds, k \in Keys : Uses(f, k)' => Uses(f, k) /\ f # e
  BY <1>1, <1>2 DEF Uses, IdleTurn
<1>9. EvictInv' /\ DeletedInv'
  BY <1>2, <1>8, StillSeen
<1> QED
  BY <1>6, <1>7, <1>9 DEF CacheInv

\* The first half of a store: the entry still belongs to its turn.
LEMMA UpsertSafe ==
    ASSUME CacheInv, TypeInv', NEW t \in Turns, UpsertEntry(t)
    PROVE  CacheInv'
<1> USE CacheAssumption
<1> DEFINE e == turn[t].entry
<1>1. e \in EntryIds /\ \A u \in Turns : u # t => turn[u].entry # e
  BY DEF UpsertEntry, CacheInv, TypeInv, OwnerInv, Running
<1>2. /\ entries'[e].at = "stored" /\ entries'[e].sources = turn[t].sources
      /\ \A f \in EntryIds : f # e => entries'[f] = entries[f]
      /\ turn'[t].at = "upserted"
      /\ \A u \in Turns : turn'[u].entry = turn[u].entry /\ turn'[u].sources = turn[u].sources
      /\ \A u \in Turns : u # t => turn'[u] = turn[u]
      /\ UNCHANGED <<row, tags, handler, atRisk>>
  BY <1>1 DEF UpsertEntry, documents, CacheInv, TypeInv, TypeOK
<1>3. /\ tags \in [Keys -> SUBSET EntryIds]
      /\ \A h \in Handlers : handler[h].ids \subseteq EntryIds
      /\ \A u \in Turns : turn[u].at # "idle" => turn[u].entry \in EntryIds
  BY DEF CacheInv, TypeInv, TypeOK, OwnerInv, Running
<1>4. \A f \in EntryIds : Owned(f)' <=> Owned(f)
  BY <1>2 DEF Owned
<1>5. Owned(e)
  BY DEF Owned
<1> HIDE DEF e
<1>6. TaggedInv'
  <2>1. \A f \in EntryIds, k \in Keys : Tagged(f, k) => Tagged(f, k)'
    BY <1>2, <1>4, <1>5 DEF Tagged
  <2>2. \A h \in Handlers : handler[h].at = "found" => handler[h].key \in Keys
    BY DEF CacheInv, TypeInv, OwnerInv
  <2>3. \A k \in Keys : \A f \in tags'[k] : Tagged(f, k)'
    BY <1>2, <1>3, <2>1 DEF CacheInv, TaggedInv
  <2>4. \A h \in Handlers : handler'[h].at = "found" =>
           \A f \in handler'[h].ids : Tagged(f, handler[h].key)'
    BY <1>2, <1>3, <2>1, <2>2 DEF CacheInv, TaggedInv
  <2>5. \A u \in Turns : turn'[u].at = "retrieved" => entries'[turn'[u].entry].at = "unused"
    BY <1>1, <1>2, <1>3 DEF CacheInv, TaggedInv
  <2>6. \A u \in Turns : turn'[u].at = "upserted" => entries'[turn'[u].entry].at # "unused"
    BY <1>1, <1>2, <1>3 DEF CacheInv, TaggedInv, e
  <2> QED
    BY <2>3, <2>4, <2>5, <2>6 DEF TaggedInv
<1>7. CoverInv'
  BY <1>2, <1>4, <1>5 DEF CacheInv, CoverInv
<1>8. \A f \in EntryIds, k \in Keys : Uses(f, k)' => Uses(f, k)
  BY <1>2 DEF Uses, e
<1>9. EvictInv' /\ DeletedInv'
  BY <1>2, <1>8, StillSeen
<1> QED
  BY <1>6, <1>7, <1>9 DEF CacheInv

\* A store ends: either the entry is tagged with all its keys or it is at risk.
LEMMA StoreEnds ==
    ASSUME CacheInv, TypeInv', NEW t \in Turns, TagEntry(t) \/ TaggingFails(t)
    PROVE  CacheInv'
<1> USE CacheAssumption
<1> DEFINE e == turn[t].entry
<1>1. /\ e \in EntryIds /\ entries[e].at # "unused"
      /\ entries[e].at = "stored" => entries[e].sources = turn[t].sources
      /\ \A u \in Turns : u # t => turn[u].entry # e
  BY DEF TagEntry, TaggingFails, CacheInv, TypeInv, OwnerInv, TaggedInv, Running
<1>2. /\ turn'[t] = IdleTurn /\ \A u \in Turns : u # t => turn'[u] = turn[u]
      /\ atRisk \subseteq atRisk'
      /\ UNCHANGED <<row, entries, handler>>
  BY DEF TagEntry, TaggingFails, documents, CacheInv, TypeInv, TypeOK
<1>3. /\ tags \in [Keys -> SUBSET EntryIds]
      /\ \A h \in Handlers : handler[h].ids \subseteq EntryIds
      /\ \A h \in Handlers : handler[h].at = "found" => handler[h].key \in Keys
  BY DEF CacheInv, TypeInv, TypeOK, OwnerInv
<1>4. \A k \in Keys : /\ tags[k] \subseteq tags'[k]
                      /\ tags'[k] \subseteq tags[k] \cup {e}
                      /\ e \in tags'[k] => e \in tags[k] \/ k \in KeysOf(turn[t].sources)
                      /\ k \in KeysOf(turn[t].sources) => e \in tags'[k] \cup atRisk'
  BY DEF TagEntry, TaggingFails
<1>5. turn[t].sources \in SUBSET Sources
  BY DEF CacheInv, TypeInv, TypeOK
<1> HIDE DEF e
<1>6. \A f \in EntryIds : Owned(f)' <=> (Owned(f) /\ f # e)
  BY <1>1, <1>2 DEF Owned, IdleTurn, e
<1>7. \A f \in EntryIds, k \in Keys : Tagged(f, k) => Tagged(f, k)'
  BY <1>2, <1>6 DEF Tagged
<1>8. \A f \in EntryIds, k \in Keys : f = e /\ k \in KeysOf(turn[t].sources) => Tagged(f, k)'
  BY <1>1, <1>2, <1>6 DEF Tagged
<1>9. TaggedInv'
  <2>1. \A k \in Keys : \A f \in tags'[k] : Tagged(f, k)'
    BY <1>1, <1>3, <1>4, <1>7, <1>8 DEF CacheInv, TaggedInv
  <2>2. \A h \in Handlers : handler'[h].at = "found" =>
           \A f \in handler'[h].ids : Tagged(f, handler[h].key)'
    BY <1>2, <1>3, <1>7 DEF CacheInv, TaggedInv
  <2>3. \A u \in Turns : /\ turn'[u].at = "retrieved" => entries'[turn'[u].entry].at = "unused"
                         /\ turn'[u].at = "upserted" => entries'[turn'[u].entry].at # "unused"
    BY <1>2 DEF CacheInv, TaggedInv, IdleTurn
  <2> QED
    BY <2>1, <2>2, <2>3 DEF TaggedInv
<1>10. CoverInv'
  <2> SUFFICES ASSUME NEW f \in EntryIds, entries'[f].at = "stored", ~ Owned(f)', f \notin atRisk',
                      NEW k \in KeysOf(entries'[f].sources)
               PROVE  f \in tags'[k]
    BY DEF CoverInv
  <2>1. entries[f].sources \in SUBSET Sources
    BY DEF CacheInv, TypeInv, TypeOK
  <2>2. k \in Keys
    BY <1>2, <2>1, KeysOfType
  <2>3. CASE f = e
    BY <1>1, <1>2, <1>4, <2>2, <2>3
  <2>4. CASE f # e
    BY <1>2, <1>4, <1>6, <2>2, <2>4 DEF CacheInv, CoverInv
  <2> QED
    BY <2>3, <2>4
<1>11. \A f \in EntryIds, k \in Keys : Uses(f, k)' => Uses(f, k)
  BY <1>2 DEF Uses, IdleTurn
<1>12. EvictInv' /\ DeletedInv'
  BY <1>2, <1>11, StillSeen
<1> QED
  BY <1>9, <1>10, <1>12 DEF CacheInv

\* A step that only lets entries fade, and moves no handler past its eviction.
LEMMA FadeSafe ==
    ASSUME CacheInv, TypeInv', UNCHANGED <<row, tags, turn, atRisk>>,
           \A f \in EntryIds :
              \/ entries'[f].at = entries[f].at /\ entries'[f].sources = entries[f].sources
              \/ entries[f].at # "unused" /\ entries'[f].at = "gone",
           \A g \in Handlers : handler'[g] = handler[g] \/ handler'[g].at \in {"idle", "evict"}
    PROVE  CacheInv'
<1>1. /\ tags \in [Keys -> SUBSET EntryIds]
      /\ \A h \in Handlers : handler[h].ids \subseteq EntryIds
      /\ \A h \in Handlers : handler[h].at = "found" => handler[h].key \in Keys
      /\ \A u \in Turns : turn[u].at # "idle" => turn[u].entry \in EntryIds
  BY DEF CacheInv, TypeInv, TypeOK, OwnerInv, Running
<1>2. \A f \in EntryIds : Owned(f)' <=> Owned(f)
  BY DEF Owned
<1>3. \A f \in EntryIds, k \in Keys : Tagged(f, k) => Tagged(f, k)'
  BY <1>2 DEF Tagged
<1>4. TaggedInv'
  <2>1. \A k \in Keys : \A f \in tags'[k] : Tagged(f, k)'
    BY <1>1, <1>3 DEF CacheInv, TaggedInv
  <2>2. ASSUME NEW h \in Handlers, handler'[h].at = "found", NEW f \in handler'[h].ids
        PROVE  Tagged(f, handler[h].key)'
    BY <1>1, <1>3, <2>2 DEF CacheInv, TaggedInv
  <2>3. \A u \in Turns : /\ turn'[u].at = "retrieved" => entries'[turn'[u].entry].at = "unused"
                         /\ turn'[u].at = "upserted" => entries'[turn'[u].entry].at # "unused"
    BY <1>1 DEF CacheInv, TaggedInv
  <2> QED
    BY <2>1, <2>2, <2>3 DEF TaggedInv
<1>5. CoverInv'
  BY <1>2 DEF CacheInv, CoverInv
<1>6. \A f \in EntryIds, k \in Keys : Uses(f, k)' => Uses(f, k)
  BY DEF Uses
<1>7. EvictInv' /\ DeletedInv'
  BY <1>6, StillSeen
<1> QED
  BY <1>4, <1>5, <1>7 DEF CacheInv

\* Expiry, lookups and the sweep.
LEMMA EntrySafe ==
    ASSUME CacheInv, TypeInv', EntryStep
    PROVE  CacheInv'
<1> USE DEF CacheInv, TypeInv, TypeOK
<1>1. CASE PurgeExpired
  BY <1>1, FadeSafe DEF PurgeExpired, Gone, documents
<1>2. ASSUME NEW e \in EntryIds, Expire(e) PROVE CacheInv'
  <2>1. \A f \in EntryIds : entries'[f].at = entries[f].at /\ entries'[f].sources = entries[f].sources
    BY <1>2 DEF Expire
  <2>2. UNCHANGED <<row, tags, turn, atRisk, handler>>
    BY <1>2 DEF Expire, documents
  <2> QED
    BY <2>1, <2>2, FadeSafe
<1>3. ASSUME NEW e \in EntryIds, LookupEvicts(e) PROVE CacheInv'
  BY <1>3, FadeSafe DEF LookupEvicts, Gone, documents
<1> QED
  BY <1>1, <1>2, <1>3 DEF EntryStep

\* What an eviction reads: every entry that uses the key is tagged with it, is at
\* risk, or is in the hands of a running turn.
LEMMA TagsFindAll ==
    ASSUME CacheInv, NEW e \in EntryIds, NEW k \in Keys, Uses(e, k)
    PROVE  \/ e \in tags[k] \cup atRisk
           \/ \E t \in Turns : Running(t) /\ k \in KeysOf(turn[t].sources) /\ turn[t].entry = e
<1>1. \A t \in Turns : turn[t].entry = e => Running(t)
  BY CacheAssumption DEF CacheInv, TypeInv, OwnerInv, Running
<1>2. CASE \E t \in Turns : turn[t].entry = e /\ k \in KeysOf(turn[t].sources)
  BY <1>1, <1>2
<1>3. CASE entries[e].at = "stored" /\ k \in KeysOf(entries[e].sources)
  <2>1. CASE ~ Owned(e)
    BY <1>3, <2>1 DEF CacheInv, CoverInv
  <2>2. ASSUME NEW t \in Turns, turn[t].entry = e
        PROVE  Running(t) /\ k \in KeysOf(turn[t].sources)
    <3>1. Running(t) /\ turn[t].at \in {"idle", "retrieved", "upserted"}
      BY <1>1, <2>2 DEF CacheInv, TypeInv, TypeOK
    <3>2. turn[t].at = "upserted"
      BY <1>3, <2>2, <3>1 DEF CacheInv, TaggedInv, Running
    <3> QED
      BY <1>3, <2>2, <3>1, <3>2 DEF CacheInv, TypeInv, OwnerInv
  <2> QED
    BY <2>1, <2>2 DEF Owned
<1> QED
  BY <1>2, <1>3 DEF Uses

\* Reading the tag set covers every user of the key.
LEMMA FindSafe ==
    ASSUME CacheInv, TypeInv', NEW h \in Handlers, FindTagged(h)
    PROVE  CacheInv'
<1> USE CacheAssumption
<1> DEFINE k == handler[h].key
           taken == {turn[t].entry : t \in {u \in Turns : Running(u) /\ k \in KeysOf(turn[u].sources)}}
<1>1. k \in Keys /\ tags[k] \subseteq EntryIds
  BY DEF FindTagged, CacheInv, TypeInv, TypeOK, OwnerInv
<1>2. handler \in [Handlers -> HandlerRecord]
  BY DEF CacheInv, TypeInv, TypeOK, HandlerRecord
<1>3. PICK a \in {"evicted", "found"} :
        /\ a = "evicted" => tags[k] = {}
        /\ handler'[h] = [at |-> a, kind |-> handler[h].kind, key |-> k, ids |-> tags[k]]
        /\ \A g \in Handlers : g # h => handler'[g] = handler[g]
  BY <1>2, FindFields
<1>4. atRisk' = atRisk \cup taken /\ UNCHANGED <<row, entries, tags, turn>>
  BY DEF FindTagged, documents
<1>5. \A e \in EntryIds : Uses(e, k) => e \in tags[k] \cup atRisk'
  BY <1>1, <1>4, TagsFindAll
<1>6. \A e \in EntryIds, j \in Keys : Uses(e, j)' <=> Uses(e, j)
  BY <1>4 DEF Uses
<1>7. atRisk \subseteq atRisk'
  BY <1>4
<1>8. \A g \in Handlers : g # h /\ handler[g].at # "idle" => handler[g].key \in Keys
  BY DEF CacheInv, TypeInv, OwnerInv
<1> HIDE DEF k, taken
<1>9. TaggedInv'
  BY <1>1, <1>3, <1>4 DEF CacheInv, TaggedInv, Tagged, Owned
<1>10. CoverInv'
  BY <1>4, <1>7 DEF CacheInv, CoverInv, Owned
<1>11. EvictInv'
  <2> SUFFICES ASSUME NEW g \in Handlers, NEW e \in EntryIds, Uses(e, handler[g].key)'
               PROVE  /\ handler'[g].at = "found" => e \in atRisk' \cup handler'[g].ids
                      /\ handler'[g].at = "wiped" => e \in atRisk'
    BY DEF EvictInv
  <2>1. CASE g = h
    <3>1. handler'[g].at = a /\ handler'[g].key = k /\ handler'[g].ids = tags[k]
      BY <1>3, <2>1
    <3>2. Uses(e, k)
      BY <1>1, <1>6, <3>1
    <3> QED
      BY <1>3, <1>5, <3>1, <3>2
  <2>2. CASE g # h
    BY <1>3, <1>6, <1>7, <1>8, <2>2 DEF CacheInv, EvictInv
  <2> QED
    BY <2>1, <2>2
<1>12. DeletedInv'
  <2>1. ASSUME NEW g \in Handlers, NEW e \in EntryIds, Uses(e, handler[g].key)',
               handler'[g].at = "evicted", handler'[g].kind = "delete"
        PROVE  e \in atRisk'
    <3>1. CASE g = h
      <4>1. handler'[g].at = a /\ handler'[g].key = k
        BY <1>3, <3>1
      <4>2. Uses(e, k)
        BY <1>1, <1>6, <2>1, <4>1
      <4> QED
        BY <1>3, <1>5, <2>1, <4>1, <4>2
    <3>2. CASE g # h
      BY <1>3, <1>6, <1>7, <1>8, <2>1, <3>2 DEF CacheInv, DeletedInv
    <3> QED
      BY <3>1, <3>2
  <2>2. \A d \in Docs : row'[d] = "deleted" => \A e \in EntryIds : Uses(e, d)' => e \in atRisk'
    BY <1>4, <1>6, <1>7 DEF CacheInv, DeletedInv, Keys
  <2> QED
    BY <2>1, <2>2 DEF DeletedInv
<1> QED
  BY <1>9, <1>10, <1>11, <1>12 DEF CacheInv

\* Deleting what was found leaves only entries at risk with the key.
LEMMA DeleteSafe ==
    ASSUME CacheInv, TypeInv', NEW h \in Handlers, DeleteEntries(h)
    PROVE  CacheInv'
<1> USE CacheAssumption
<1>1. /\ \A e \in handler[h].ids : Tagged(e, handler[h].key)
      /\ handler[h].at = "found" /\ handler[h].key \in Keys
  BY DEF DeleteEntries, CacheInv, TaggedInv, TypeInv, OwnerInv
<1>2. /\ \A e \in EntryIds : IF e \in handler[h].ids THEN entries'[e] = Gone ELSE entries'[e] = entries[e]
      /\ UNCHANGED <<row, tags, turn, atRisk>>
  BY DEF DeleteEntries, documents
<1>3. /\ handler'[h].at = "wiped" /\ handler'[h].key = handler[h].key
      /\ \A g \in Handlers : g # h => handler'[g] = handler[g]
  BY DEF DeleteEntries, CacheInv, TypeInv, TypeOK
<1>4. /\ tags \in [Keys -> SUBSET EntryIds]
      /\ \A g \in Handlers : handler[g].ids \subseteq EntryIds
      /\ \A g \in Handlers : handler[g].at # "idle" => handler[g].key \in Keys
      /\ \A u \in Turns : turn[u].at # "idle" => turn[u].entry \in EntryIds
  BY DEF CacheInv, TypeInv, TypeOK, OwnerInv, Running
<1>5. \A f \in EntryIds : Owned(f)' <=> Owned(f)
  BY <1>2 DEF Owned
<1>6. \A f \in EntryIds, k \in Keys : Tagged(f, k) => Tagged(f, k)'
  BY <1>2, <1>5 DEF Tagged, Gone
<1>7. TaggedInv'
  <2>1. \A k \in Keys : \A f \in tags'[k] : Tagged(f, k)'
    BY <1>2, <1>4, <1>6 DEF CacheInv, TaggedInv
  <2>2. ASSUME NEW g \in Handlers, handler'[g].at = "found", NEW f \in handler'[g].ids
        PROVE  Tagged(f, handler[g].key)'
    BY <1>3, <1>4, <1>6, <2>2 DEF CacheInv, TaggedInv
  <2>3. \A u \in Turns : turn[u].at # "idle" => turn[u].entry \notin handler[h].ids
    BY <1>1 DEF Tagged, Owned
  <2>4. \A u \in Turns : /\ turn'[u].at = "retrieved" => entries'[turn'[u].entry].at = "unused"
                         /\ turn'[u].at = "upserted" => entries'[turn'[u].entry].at # "unused"
    BY <1>2, <1>4, <2>3 DEF CacheInv, TaggedInv
  <2> QED
    BY <2>1, <2>2, <2>4 DEF TaggedInv
<1>8. CoverInv'
  BY <1>2, <1>5 DEF CacheInv, CoverInv, Gone
<1>9. \A f \in EntryIds, k \in Keys : Uses(f, k)' => Uses(f, k)
  BY <1>2 DEF Uses, Gone
<1>10. \A f \in EntryIds : f \in handler[h].ids => \A k \in Keys : ~ Uses(f, k)'
  BY <1>1, <1>2 DEF Uses, Gone, Tagged, Owned
<1>11. EvictInv'
  <2> SUFFICES ASSUME NEW g \in Handlers, NEW e \in EntryIds, Uses(e, handler[g].key)'
               PROVE  /\ handler'[g].at = "found" => e \in atRisk' \cup handler'[g].ids
                      /\ handler'[g].at = "wiped" => e \in atRisk'
    BY DEF EvictInv
  <2>1. CASE g = h
    <3>1. Uses(e, handler[h].key) /\ e \notin handler[h].ids
      BY <1>1, <1>3, <1>9, <1>10, <2>1
    <3> QED
      BY <1>1, <1>2, <1>3, <2>1, <3>1 DEF CacheInv, EvictInv
  <2>2. CASE g # h
    BY <1>2, <1>3, <1>4, <1>9, <2>2 DEF CacheInv, EvictInv
  <2> QED
    BY <2>1, <2>2
<1>12. DeletedInv'
  <2>1. ASSUME NEW g \in Handlers, NEW e \in EntryIds, Uses(e, handler[g].key)',
               handler'[g].at = "evicted", handler'[g].kind = "delete"
        PROVE  e \in atRisk'
    BY <1>2, <1>3, <1>4, <1>9, <2>1 DEF CacheInv, DeletedInv
  <2>2. \A d \in Docs : row'[d] = "deleted" => \A e \in EntryIds : Uses(e, d)' => e \in atRisk'
    BY <1>2, <1>9 DEF CacheInv, DeletedInv, Keys
  <2> QED
    BY <2>1, <2>2 DEF DeletedInv
<1> QED
  BY <1>7, <1>8, <1>11, <1>12 DEF CacheInv

\* Dropping the tag set loses nobody: what still has the key is at risk.
LEMMA DropSafe ==
    ASSUME CacheInv, TypeInv', NEW h \in Handlers, DropTag(h)
    PROVE  CacheInv'
<1> USE CacheAssumption
<1>1. /\ handler[h].at = "wiped" /\ handler[h].key \in Keys
      /\ \A e \in EntryIds : Uses(e, handler[h].key) => e \in atRisk
  BY DEF DropTag, CacheInv, EvictInv, TypeInv, OwnerInv
<1>2. /\ \A k \in Keys : tags'[k] = IF k = handler[h].key THEN {} ELSE tags[k]
      /\ handler'[h].at = "evicted" /\ handler'[h].key = handler[h].key
      /\ \A g \in Handlers : g # h => handler'[g] = handler[g]
      /\ UNCHANGED <<row, entries, turn, atRisk>>
  BY DEF DropTag, documents, CacheInv, TypeInv, TypeOK
<1>3. \A g \in Handlers : handler[g].at # "idle" => handler[g].key \in Keys
  BY DEF CacheInv, TypeInv, OwnerInv
<1>4. \A e \in EntryIds, k \in Keys : Uses(e, k)' <=> Uses(e, k)
  BY <1>2 DEF Uses
<1>5. TaggedInv'
  BY <1>2 DEF CacheInv, TaggedInv, Tagged, Owned
<1>6. CoverInv'
  <2> SUFFICES ASSUME NEW e \in EntryIds, entries'[e].at = "stored", ~ Owned(e)', e \notin atRisk',
                      NEW k \in KeysOf(entries'[e].sources)
               PROVE  e \in tags'[k]
    BY DEF CoverInv
  <2>1. k \in Keys /\ k \in KeysOf(entries[e].sources)
    <3>1. entries[e].sources \in SUBSET Sources
      BY DEF CacheInv, TypeInv, TypeOK
    <3> QED
      BY <1>2, <3>1, KeysOfType
  <2>2. e \in tags[k]
    BY <1>2, <2>1 DEF CacheInv, CoverInv, Owned
  <2>3. k # handler[h].key
    BY <1>1, <1>2, <2>1 DEF Uses
  <2> QED
    BY <1>2, <2>1, <2>2, <2>3
<1>7. EvictInv'
  <2> SUFFICES ASSUME NEW g \in Handlers, NEW e \in EntryIds, Uses(e, handler[g].key)'
               PROVE  /\ handler'[g].at = "found" => e \in atRisk' \cup handler'[g].ids
                      /\ handler'[g].at = "wiped" => e \in atRisk'
    BY DEF EvictInv
  <2> QED
    BY <1>2, <1>3, <1>4 DEF CacheInv, EvictInv
<1>8. DeletedInv'
  <2>1. ASSUME NEW g \in Handlers, NEW e \in EntryIds, Uses(e, handler[g].key)',
               handler'[g].at = "evicted", handler'[g].kind = "delete"
        PROVE  e \in atRisk'
    <3>1. CASE g = h
      BY <1>1, <1>2, <1>4, <2>1, <3>1
    <3>2. CASE g # h
      BY <1>2, <1>3, <1>4, <2>1, <3>2 DEF CacheInv, DeletedInv
    <3> QED
      BY <3>1, <3>2
  <2>2. \A d \in Docs : row'[d] = "deleted" => \A e \in EntryIds : Uses(e, d)' => e \in atRisk'
    BY <1>2, <1>4 DEF CacheInv, DeletedInv, Keys
  <2> QED
    BY <2>1, <2>2 DEF DeletedInv
<1> QED
  BY <1>5, <1>6, <1>7, <1>8 DEF CacheInv

\* A deletion ends with a row that only entries at risk use.
LEMMA FinishSafe ==
    ASSUME CacheInv, TypeInv', NEW h \in Handlers, Finish(h)
    PROVE  CacheInv'
<1> USE CacheAssumption
<1>1. /\ handler'[h] = IdleHandler
      /\ \A g \in Handlers : g # h => handler'[g] = handler[g]
      /\ UNCHANGED <<entries, tags, turn, atRisk>>
  BY DEF Finish, CacheInv, TypeInv, TypeOK
<1>2. \A d \in Docs : row'[d] = "deleted" =>
         row[d] = "deleted" \/ (handler[h].key = d /\ handler[h].kind = "delete")
  BY DEF Finish, CacheInv, TypeInv, TypeOK
<1>3. /\ handler[h].at = "evicted"
      /\ \A g \in Handlers : handler[g].at # "idle" => handler[g].key \in Keys
  BY DEF Finish, CacheInv, TypeInv, OwnerInv
<1>4. \A e \in EntryIds, k \in Keys : Uses(e, k)' <=> Uses(e, k)
  BY <1>1 DEF Uses
<1>5. TaggedInv'
  BY <1>1 DEF CacheInv, TaggedInv, Tagged, Owned, IdleHandler
<1>6. CoverInv'
  BY <1>1 DEF CacheInv, CoverInv, Owned
<1>7. EvictInv'
  <2> SUFFICES ASSUME NEW g \in Handlers, NEW e \in EntryIds, Uses(e, handler[g].key)'
               PROVE  /\ handler'[g].at = "found" => e \in atRisk' \cup handler'[g].ids
                      /\ handler'[g].at = "wiped" => e \in atRisk'
    BY DEF EvictInv
  <2> QED
    BY <1>1, <1>3, <1>4 DEF CacheInv, EvictInv, IdleHandler
<1>8. DeletedInv'
  <2>1. ASSUME NEW g \in Handlers, NEW e \in EntryIds, Uses(e, handler[g].key)',
               handler'[g].at = "evicted", handler'[g].kind = "delete"
        PROVE  e \in atRisk'
    BY <1>1, <1>3, <1>4, <2>1 DEF CacheInv, DeletedInv, IdleHandler
  <2>2. \A d \in Docs : row'[d] = "deleted" => \A e \in EntryIds : Uses(e, d)' => e \in atRisk'
    BY <1>1, <1>2, <1>3, <1>4 DEF CacheInv, DeletedInv, Keys
  <2> QED
    BY <2>1, <2>2 DEF DeletedInv
<1> QED
  BY <1>5, <1>6, <1>7, <1>8 DEF CacheInv

\* Every step of the system keeps the invariant.
LEMMA NextSafe ==
    ASSUME CacheInv, [Next]_vars
    PROVE  CacheInv'
<1>1. TypeInv'
  BY NextType DEF CacheInv
<1>2. ASSUME NEW t \in Turns, TurnStep(t) PROVE CacheInv'
  <2>1. CASE SearchChunks(t) \/ LookupRows(t)
    <3>1. TypeOK
      BY DEF CacheInv, TypeInv
    <3>2. PICK S \in SUBSET Sources : Retrieve(t, S)
      BY <2>1, <3>1, ReadSources DEF SearchChunks, LookupRows
    <3> QED
      BY <1>1, <3>2, RetrieveSafe
  <2> QED
    BY <1>1, <1>2, <2>1, NotStoredSafe, UpsertSafe, StoreEnds DEF TurnStep
<1>3. ASSUME NEW h \in Handlers, HandlerStep(h) PROVE CacheInv'
  <2>1. CASE \/ \E d \in Docs : StartDelete(h, d) \/ StartReindex(h, d)
             \/ \E k \in Keys : StartPermission(h, k)
             \/ HandlerFails(h)
    <3>1. /\ UNCHANGED <<row, tags, turn, atRisk, entries>>
          /\ \A g \in Handlers : handler'[g] = handler[g] \/ handler'[g].at \in {"idle", "evict"}
      BY <2>1 DEF StartDelete, StartReindex, StartPermission, HandlerFails, IdleHandler, documents,
                  CacheInv, TypeInv, TypeOK
    <3> QED
      BY <1>1, <3>1, FadeSafe
  <2> QED
    BY <1>1, <1>3, <2>1, FindSafe, DeleteSafe, DropSafe, FinishSafe DEF HandlerStep
<1>4. CASE WorkerStep \/ UNCHANGED vars
  <2>1. UNCHANGED <<row, tags, turn, atRisk, entries, handler>>
    BY <1>4 DEF WorkerStep, BeginIndexing, FinishIndexing, FailIndexing, vars, documents
  <2> QED
    BY <1>1, <2>1, FadeSafe
<1> QED
  BY <1>1, <1>2, <1>3, <1>4, EntrySafe DEF Next

\* An empty cache satisfies it.
LEMMA InitSafe ==
    ASSUME Init
    PROVE  CacheInv
<1> USE CacheAssumption DEF Init
<1>1. TypeInv
  BY InitType
<1>2. TaggedInv
  BY DEF TaggedInv, IdleTurn, IdleHandler
<1>3. CoverInv
  BY DEF CoverInv, Unused
<1>4. EvictInv /\ DeletedInv
  BY DEF EvictInv, DeletedInv, IdleHandler
<1> QED
  BY <1>1, <1>2, <1>3, <1>4 DEF CacheInv

\* For any number of documents, turns, requests and entries: a cached answer
\* outlives the deletion of one of its documents only if its store crossed an
\* eviction or deletion of one of its keys, or its tags were never written.
THEOREM OnlyRacers == Spec => []OnlyRacersOutliveDeletion
<1>1. ASSUME CacheInv PROVE OnlyRacersOutliveDeletion
  <2> SUFFICES ASSUME NEW e \in EntryIds, Servable(e),
                      NEW s \in entries[e].sources, row[s.doc] = "deleted"
               PROVE  e \in atRisk
    BY DEF OnlyRacersOutliveDeletion
  <2>1. s \in Sources
    BY <1>1 DEF CacheInv, TypeInv, TypeOK
  <2>2. s.doc \in Docs /\ s.doc \in KeysOf(entries[e].sources)
    BY <2>1 DEF Sources, KeysOf
  <2>3. Uses(e, s.doc)
    BY <2>2 DEF Uses, Servable
  <2> QED
    BY <1>1, <2>2, <2>3 DEF CacheInv, DeletedInv
<1> QED
  BY <1>1, InitSafe, NextSafe, PTL DEF Spec

\* For any number of them, an answer within its TTL is removed only by the eviction
\* of one of its own keys.
THEOREM EvictsExactly == Spec => EvictsOnlyAffected
<1> DEFINE Affected == \A e \in EntryIds : Servable(e) /\ entries'[e].at = "gone" =>
                          \E h \in Handlers : handler[h].at = "found" /\
                              handler[h].key \in KeysOf(entries[e].sources)
<1>1. ASSUME CacheInv, [Next]_vars PROVE [Affected]_vars
  <2> SUFFICES ASSUME Next, NEW e \in EntryIds, Servable(e), entries'[e].at = "gone"
               PROVE  \E h \in Handlers : handler[h].at = "found" /\
                          handler[h].key \in KeysOf(entries[e].sources)
    BY <1>1
  <2>1. entries[e].at = "stored" /\ ~ entries[e].expired
    BY DEF Servable
  <2>2. ASSUME NEW h \in Handlers, DeleteEntries(h)
        PROVE  handler[h].at = "found" /\ handler[h].key \in KeysOf(entries[e].sources)
    <3>1. handler[h].at = "found" /\ e \in handler[h].ids
      BY <2>1, <2>2 DEF DeleteEntries
    <3> QED
      BY <1>1, <2>1, <3>1 DEF CacheInv, TaggedInv, Tagged
  <2>3. ASSUME NEW t \in Turns, TurnStep(t) PROVE FALSE
    <3>1. entries' = entries \/ UpsertEntry(t)
      BY <2>3 DEF TurnStep, SearchChunks, LookupRows, Retrieve, NotStored, TagEntry, TaggingFails
    <3> QED
      BY <1>1, <2>1, <3>1 DEF UpsertEntry, CacheInv, TypeInv, TypeOK
  <2>4. CASE EntryStep
    BY <1>1, <2>1, <2>4 DEF EntryStep, PurgeExpired, Expire, LookupEvicts, Gone,
                            CacheInv, TypeInv, TypeOK
  <2>5. CASE WorkerStep
    BY <2>1, <2>5 DEF WorkerStep, BeginIndexing, FinishIndexing, FailIndexing
  <2>6. ASSUME NEW h \in Handlers, HandlerStep(h) PROVE entries' = entries \/ DeleteEntries(h)
    BY <2>6 DEF HandlerStep, StartDelete, StartReindex, StartPermission, FindTagged, DropTag,
                Finish, HandlerFails
  <2> QED
    BY <2>1, <2>2, <2>3, <2>4, <2>5, <2>6 DEF Next
<1> QED
  BY <1>1, InitSafe, NextSafe, PTL DEF Spec, EvictsOnlyAffected

=============================================================================
