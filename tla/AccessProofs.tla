---------------------------- MODULE AccessProofs ----------------------------
(***************************************************************************)
(* Proofs about Access, for every set of users, departments, collections   *)
(* and documents, any number of concurrent requests and of admin changes.  *)
(*                                                                         *)
(* The argument of OnlyReadableShown: a request's scope is put together    *)
(* from rows that were each readable to it when it read them, and a cache  *)
(* entry holds nothing outside the scope it is keyed by.  That of          *)
(* StandingGrantsServed: a grant that stands when its statement runs puts  *)
(* its collection into the scope.                                          *)
(***************************************************************************)
EXTENDS Access, TLAPS

-----------------------------------------------------------------------------
(* The strengthening.                                                      *)

\* What a request in flight could read by now, and what it has in its scope.  Only a
\* user who is no admin gets to the statements that read grants.
CouldInv == \A r \in Readers : InFlight(r) =>
    /\ Readable(reader[r].user, reader[r].admin, reader[r].dept, collections, permissions)
           \subseteq reader[r].could
    /\ reader[r].scope \cup InScope(reader[r].scope) \subseteq reader[r].could
    /\ reader[r].at \in {"direct", "shared"} => ~reader[r].admin

\* An entry's documents lie in the scope it was stored under.
CacheInv == \A e \in cache : e.docs \subseteq InScope(e.scope)

ShownInv == CouldInv /\ CacheInv /\ OnlyReadableShown

\* The grants that have stood since the first statement, and the statements that have
\* read them.  The document asked for is in a collection with a row: an admin's one
\* statement finds it.
Stands(q) ==
    /\ q.at # "idle" => \A row \in q.stood : row.to \in {q.user, q.dept}
    /\ q.kind = "document" => q.on \in Docs /\ CollOf[q.on] \in Existing
    /\ q.at = "missed" => q.kind = "chat"
    /\ q.at = "scoped" /\ q.admin /\ q.kind = "document" => CollOf[q.on] \in q.scope
    /\ ~q.admin /\ q.at \in {"shared", "scoped"}
           => \A row \in q.stood : row.to = q.user /\ row.on \in Collections
                                      => row.on \in q.scope
    /\ ~q.admin /\ q.at = "scoped"
           => \A row \in q.stood : row.to = q.dept /\ row.on \in Collections
                                      => row.on \in q.scope

StoodInv ==
    /\ \A r \in Readers : InFlight(r) =>
           reader[r].stood \subseteq permissions /\ Stands(reader[r])
    /\ StandingGrantsServed

-----------------------------------------------------------------------------
(* What the steps do to the requests.                                      *)

\* Every set of accounts and collections to begin with is well typed.
LEMMA InitTypes == Init => TypeOK
<1> SUFFICES ASSUME Init PROVE TypeOK
    OBVIOUS
<1>1. /\ departments \subseteq Departments /\ DOMAIN account \subseteq Users
      /\ \A u \in DOMAIN account :
             account[u] \in [admin : BOOLEAN, dept : departments \cup {None}]
    BY DEF Init
<1>2. /\ DOMAIN collections \subseteq Collections
      /\ \A c \in DOMAIN collections : collections[c] \in departments \cup {None}
    BY DEF Init
<1>3. /\ permissions \subseteq Rows /\ revoking \subseteq permissions
      /\ changes \in 0..MaxChanges
      /\ cache \subseteq [scope : SUBSET Collections, docs : SUBSET Docs]
      /\ cited \in [Users -> SUBSET Docs]
    BY AccessAssumption DEF Init
<1>4. Idle \in Requests
    BY DEF Idle, Requests
<1>5. reader \in [Readers -> Requests]
    BY <1>4 DEF Init
<1> QED
    BY <1>1, <1>2, <1>3, <1>5 DEF TypeOK

\* A committed change leaves the requests where they are and adds to what they could read.
LEMMA WidenedFields ==
    ASSUME NEW q \in Requests, NEW colls, NEW rows
    PROVE  LET w == Widened(q, colls, rows) IN
           /\ w.at = q.at /\ w.user = q.user /\ w.kind = q.kind /\ w.on = q.on
           /\ w.admin = q.admin /\ w.dept = q.dept /\ w.scope = q.scope
           /\ w.could = q.could \cup Readable(q.user, q.admin, q.dept, colls, rows)
           /\ w.stood = q.stood \cap rows
           /\ DOMAIN colls \subseteq Collections => w \in Requests
<1> DEFINE more == Readable(q.user, q.admin, q.dept, colls, rows)
           w == [q EXCEPT !.could = @ \cup more, !.stood = @ \cap rows]
<1>1. Widened(q, colls, rows) = w
    BY DEF Widened
<1>2. DOMAIN colls \subseteq Collections => more \subseteq Things
    BY DEF Readable, OwnedBy, GrantedTo, InScope, Things
<1> HIDE DEF more
<1>3. /\ w.at = q.at /\ w.user = q.user /\ w.kind = q.kind /\ w.on = q.on
      /\ w.admin = q.admin /\ w.dept = q.dept /\ w.scope = q.scope
      /\ w.could = q.could \cup more /\ w.stood = q.stood \cap rows
    BY DEF Requests
<1>4. more \subseteq Things => w \in Requests
    BY DEF Requests
<1> QED
    BY <1>1, <1>2, <1>3, <1>4 DEF more

\* A commit widens the requests in flight and leaves the others.
LEMMA ChangeReader ==
    ASSUME TypeOK, Change, NEW r \in Readers
    PROVE  /\ reader[r] \in Requests
           /\ ~InFlight(r) => reader'[r] = reader[r]
           /\ InFlight(r) => reader'[r] = Widened(reader[r], collections', permissions')
BY DEF Change, TypeOK

\* Widening keeps the types.
LEMMA ChangeTypes ==
    ASSUME TypeOK, Change, DOMAIN collections' \subseteq Collections
    PROVE  reader' \in [Readers -> Requests] /\ changes' \in 0..MaxChanges
<1>1. changes' \in 0..MaxChanges
    BY AccessAssumption DEF Change, TypeOK
<1>2. ASSUME NEW r \in Readers
      PROVE  reader'[r] \in Requests
    BY <1>2, ChangeReader, WidenedFields
<1> DEFINE next(r) == IF InFlight(r) THEN Widened(reader[r], collections', permissions')
                      ELSE reader[r]
<1>3. reader' = [r \in Readers |-> next(r)]
    BY DEF Change
<1>4. \A r \in Readers : next(r) \in Requests
    BY <1>2, <1>3
<1> HIDE DEF next
<1> QED
    BY <1>1, <1>3, <1>4

\* Show ends a request; the others stay as they are.
LEMMA ShowReader ==
    ASSUME TypeOK, NEW r \in Readers, NEW docs, Show(r, docs)
    PROVE  /\ \A q \in Readers \ {r} : reader'[q] = reader[q]
           /\ reader'[r].at = "done" /\ reader'[r].shown = docs
           /\ reader'[r].could = reader[r].could /\ reader'[r].stood = reader[r].stood
           /\ reader'[r].kind = reader[r].kind /\ reader'[r].on = reader[r].on
           /\ docs \subseteq Things => reader' \in [Readers -> Requests]
<1>1. reader[r] \in Requests
    BY DEF TypeOK
<1>2. \A q \in Readers \ {r} : reader'[q] = reader[q]
    BY DEF Show, TypeOK
<1> DEFINE shown == [Idle EXCEPT !.at = "done", !.kind = reader[r].kind, !.on = reader[r].on,
                        !.shown = docs, !.could = reader[r].could, !.stood = reader[r].stood]
<1>3. reader'[r] = shown
    BY DEF Show, TypeOK
<1>4. /\ shown.at = "done" /\ shown.shown = docs /\ shown.could = reader[r].could
      /\ shown.stood = reader[r].stood /\ shown.kind = reader[r].kind
      /\ shown.on = reader[r].on
    BY DEF Idle
<1>5. docs \subseteq Things => shown \in Requests
    BY <1>1 DEF Idle, Requests
<1>6. docs \subseteq Things => reader' \in [Readers -> Requests]
    BY <1>5 DEF Show, TypeOK
<1> QED
    BY <1>2, <1>3, <1>4, <1>6

\* A statement moves a request on and adds to its scope.
LEMMA StatementReader ==
    ASSUME TypeOK, NEW r \in Readers, NEW at, NEW scope,
           reader' = [reader EXCEPT ![r].at = at, ![r].scope = scope]
    PROVE  /\ \A q \in Readers \ {r} : reader'[q] = reader[q]
           /\ reader'[r].at = at /\ reader'[r].scope = scope
           /\ reader'[r].user = reader[r].user /\ reader'[r].kind = reader[r].kind
           /\ reader'[r].on = reader[r].on /\ reader'[r].admin = reader[r].admin
           /\ reader'[r].dept = reader[r].dept /\ reader'[r].could = reader[r].could
           /\ reader'[r].stood = reader[r].stood
           /\ /\ at \in {"direct", "shared", "scoped", "missed"}
              /\ scope \subseteq Collections
              => reader' \in [Readers -> Requests]
<1>1. reader \in [Readers -> Requests] /\ reader[r] \in Requests
    BY DEF TypeOK
<1> DEFINE q0 == [reader[r] EXCEPT !.at = at, !.scope = scope]
<1>2. reader' = [reader EXCEPT ![r] = q0]
    BY <1>1 DEF Requests
<1>3. /\ q0.at = at /\ q0.scope = scope /\ q0.user = reader[r].user
      /\ q0.kind = reader[r].kind /\ q0.on = reader[r].on /\ q0.admin = reader[r].admin
      /\ q0.dept = reader[r].dept /\ q0.could = reader[r].could
      /\ q0.stood = reader[r].stood
    BY <1>1 DEF Requests
<1>4. /\ at \in {"direct", "shared", "scoped", "missed"} /\ scope \subseteq Collections
      => q0 \in Requests
    BY <1>1 DEF Requests
<1> HIDE DEF q0
<1> QED
    BY <1>1, <1>2, <1>3, <1>4

\* A request begins with its user's role and department and an empty scope, and records
\* what is readable and which grants stand at that moment.
LEMMA AuthenticateReader ==
    ASSUME TypeOK, NEW r \in Readers, NEW u \in Users, NEW kind \in Kinds,
           NEW on \in Things \cup {None}, Authenticate(r, u, kind, on)
    PROVE  /\ \A q \in Readers \ {r} : reader'[q] = reader[q]
           /\ reader'[r].at = "own" /\ reader'[r].user = u /\ reader'[r].kind = kind
           /\ reader'[r].on = on /\ reader'[r].scope = {}
           /\ reader'[r].could = Readable(u, reader'[r].admin, reader'[r].dept,
                                          collections, permissions)
           /\ reader'[r].stood \subseteq permissions
           /\ \A row \in reader'[r].stood : row.to \in {u, reader'[r].dept}
           /\ kind = "document" => on \in InScope(Existing)
           /\ reader' \in [Readers -> Requests]
<1> DEFINE me == account[u]
           found == IF kind = "history" THEN cited[u] ELSE {}
           could == Readable(u, me.admin, me.dept, collections, permissions)
           stood == {row \in permissions : kind = "document" /\ row.to \in {u, me.dept}}
           q0 == [Idle EXCEPT !.at = "own", !.user = u, !.kind = kind, !.on = on,
                              !.admin = me.admin, !.dept = me.dept, !.found = found,
                              !.could = could, !.stood = stood]
<1>1. reader' = [reader EXCEPT ![r] = q0]
    BY DEF Authenticate
<1>2. me.admin \in BOOLEAN /\ me.dept \in Departments \cup {None}
    BY DEF Authenticate, TypeOK
<1>3. found \subseteq Docs /\ could \subseteq Things /\ stood \subseteq Rows
    BY DEF TypeOK, Readable, OwnedBy, GrantedTo, InScope, Things
<1>4. /\ stood \subseteq permissions /\ \A row \in stood : row.to \in {u, me.dept}
      /\ could = Readable(u, me.admin, me.dept, collections, permissions)
    OBVIOUS
<1>5. kind = "document" => on \in InScope(Existing)
    BY DEF Authenticate
<1> HIDE DEF me, found, could, stood
<1>6. /\ q0.at = "own" /\ q0.user = u /\ q0.kind = kind /\ q0.on = on
      /\ q0.admin = me.admin /\ q0.dept = me.dept /\ q0.scope = {} /\ q0.could = could
      /\ q0.stood = stood
    BY DEF Idle
<1>7. q0 \in Requests
    BY <1>2, <1>3 DEF Idle, Requests
<1> HIDE DEF q0
<1>8. /\ \A q \in Readers \ {r} : reader'[q] = reader[q]
      /\ reader'[r] = q0 /\ reader' \in [Readers -> Requests]
    BY <1>1, <1>7 DEF TypeOK
<1> QED
    BY <1>4, <1>5, <1>6, <1>8

\* The three ways a statement is read, and the miss of the cache.
LEMMA Statements ==
    ASSUME TypeOK, NEW r \in Readers, ReadOwn(r) \/ ReadGrants(r) \/ MissCache(r)
    PROVE  \E at \in {"direct", "shared", "scoped", "missed"}, scope \in SUBSET Collections :
             /\ reader' = [reader EXCEPT ![r].at = at, ![r].scope = scope]
             /\ \/ /\ reader[r].at = "own" /\ reader[r].admin
                   /\ at = "scoped" /\ scope = Existing
                \/ /\ reader[r].at = "own" /\ ~reader[r].admin
                   /\ at = "direct" /\ scope = OwnedBy(reader[r].dept, collections)
                \/ /\ reader[r].at = "direct" /\ at = "shared"
                   /\ scope = reader[r].scope \cup GrantedTo(reader[r].user, permissions)
                \/ /\ reader[r].at = "shared" /\ at = "scoped"
                   /\ scope = reader[r].scope \cup GrantedTo(reader[r].dept, permissions)
                \/ /\ reader[r].at = "scoped" /\ reader[r].kind = "chat"
                   /\ at = "missed" /\ scope = reader[r].scope
<1>1. /\ reader \in [Readers -> Requests] /\ reader[r] \in Requests
      /\ reader[r].scope \subseteq Collections /\ Existing \subseteq Collections
    BY DEF TypeOK, Requests, Existing
<1>2. CASE ReadOwn(r) /\ reader[r].admin
    <2>1. reader' = [reader EXCEPT ![r].at = "scoped", ![r].scope = Existing]
        BY <1>2 DEF ReadOwn
    <2> QED
        BY <1>1, <1>2, <2>1 DEF ReadOwn
<1>3. CASE ReadOwn(r) /\ ~reader[r].admin
    <2>1. reader' = [reader EXCEPT ![r].at = "direct",
                                   ![r].scope = OwnedBy(reader[r].dept, collections)]
        BY <1>3 DEF ReadOwn
    <2>2. OwnedBy(reader[r].dept, collections) \subseteq Collections
        BY DEF OwnedBy, TypeOK
    <2> QED
        BY <1>3, <2>1, <2>2 DEF ReadOwn
<1>4. CASE ReadGrants(r)
    <2> DEFINE next(p) == reader[r].scope \cup GrantedTo(p, permissions)
    <2>1. \A p : next(p) \subseteq Collections
        BY <1>1 DEF GrantedTo
    <2>2. \/ /\ reader[r].at = "direct"
             /\ reader' = [reader EXCEPT ![r].at = "shared", ![r].scope = next(reader[r].user)]
          \/ /\ reader[r].at = "shared"
             /\ reader' = [reader EXCEPT ![r].at = "scoped", ![r].scope = next(reader[r].dept)]
        BY <1>1, <1>4 DEF ReadGrants
    <2> QED
        BY <2>1, <2>2
<1>5. CASE MissCache(r)
    <2>1. reader' = [reader EXCEPT ![r].at = "missed"]
        BY <1>5 DEF MissCache
    <2>2. [reader[r] EXCEPT !.at = "missed"]
              = [reader[r] EXCEPT !.at = "missed", !.scope = reader[r].scope]
        BY <1>1 DEF Requests
    <2>3. reader' = [reader EXCEPT ![r].at = "missed", ![r].scope = reader[r].scope]
        BY <1>1, <2>1, <2>2
    <2> QED
        BY <1>1, <1>5, <2>3 DEF MissCache
<1> QED
    BY <1>2, <1>3, <1>4, <1>5

\* What the last step of a request shows, caches and stores.
Showing(r) ==
    \/ ShowScope(r) \/ ShowList(r) \/ ShowCollections(r) \/ ShowDocument(r)
    \/ ShowMedia(r) \/ ShowHistory(r) \/ AnswerFromCache(r) \/ AnswerFromSearch(r)

\* Whatever a request ends with lies in its scope: the lists and fetches cut down to it, a
\* cache entry by the scope it is keyed by, the search by its filter.
LEMMA Shows ==
    ASSUME TypeOK, CacheInv, NEW r \in Readers, Showing(r)
    PROVE  \E docs \in SUBSET Things :
             /\ Show(r, docs)
             /\ docs \subseteq reader[r].scope \cup InScope(reader[r].scope)
             /\ InFlight(r) /\ reader[r].at \in {"scoped", "missed"}
             /\ \/ reader[r].kind # "document" \/ reader[r].at = "missed"
                \/ docs = {reader[r].on} \cap InScope(reader[r].scope)
             /\ UNCHANGED <<departments, account, collections, permissions, revoking, changes>>
<1> DEFINE scope == reader[r].scope
<1>1. scope \subseteq Collections /\ InScope(scope) \subseteq Docs
    BY DEF TypeOK, Requests, InScope
<1>2. ASSUME NEW docs, Show(r, docs), docs \subseteq scope \cup InScope(scope),
             reader[r].at \in {"scoped", "missed"},
             \/ reader[r].kind # "document" \/ reader[r].at = "missed"
             \/ docs = {reader[r].on} \cap InScope(scope),
             UNCHANGED <<departments, account, collections, permissions, revoking, changes>>
      PROVE  \E d \in SUBSET Things :
             /\ Show(r, d)
             /\ d \subseteq reader[r].scope \cup InScope(reader[r].scope)
             /\ InFlight(r) /\ reader[r].at \in {"scoped", "missed"}
             /\ \/ reader[r].kind # "document" \/ reader[r].at = "missed"
                \/ d = {reader[r].on} \cap InScope(reader[r].scope)
             /\ UNCHANGED <<departments, account, collections, permissions, revoking, changes>>
    <2>1. docs \in SUBSET Things
        BY <1>1, <1>2 DEF Things
    <2>2. InFlight(r)
        BY <1>2 DEF InFlight
    <2> QED
        BY <1>2, <2>1, <2>2
<1>3. CASE ShowScope(r)
    BY <1>2, <1>3 DEF ShowScope, InScope
<1>4. CASE ShowList(r)
    <2> DEFINE allowed == IF reader[r].on = None THEN scope ELSE scope \cap {reader[r].on}
    <2>1. Show(r, InScope(allowed) \cap InScope(Existing))
        BY <1>4 DEF ShowList
    <2>2. InScope(allowed) \subseteq InScope(scope)
        BY DEF InScope
    <2> QED
        BY <1>2, <1>4, <2>1, <2>2 DEF ShowList
<1>5. CASE ShowCollections(r)
    BY <1>2, <1>5 DEF ShowCollections
<1>6. CASE ShowDocument(r)
    BY <1>2, <1>6 DEF ShowDocument
<1>7. CASE ShowMedia(r)
    BY <1>2, <1>7 DEF ShowMedia
<1>8. CASE ShowHistory(r)
    BY <1>2, <1>8 DEF ShowHistory, VisibleCitations
<1>9. CASE AnswerFromCache(r)
    <2>1. PICK e \in Servable(r) : Show(r, e.docs)
        BY <1>9 DEF AnswerFromCache, Answer
    <2>2. e.docs \subseteq InScope(scope)
        BY <2>1 DEF Servable, CacheInv
    <2> QED
        BY <1>2, <1>9, <2>1, <2>2 DEF AnswerFromCache
<1>10. CASE AnswerFromSearch(r)
    BY <1>2, <1>10 DEF AnswerFromSearch, Answer, InScope
<1> QED
    BY <1>3, <1>4, <1>5, <1>6, <1>7, <1>8, <1>9, <1>10 DEF Showing

\* Next by what its steps do to the requests: commit a change, evict, or advance one.
Commits ==
    /\ Change
    /\ DOMAIN collections' \subseteq Collections /\ Existing \subseteq DOMAIN collections'
    /\ UNCHANGED <<cache, cited>>

\* The admin's actions are commits that keep every collection, and evictions.
LEMMA Committing ==
    ASSUME TypeOK, AdminActs
    PROVE  Commits \/ \E row \in Rows : EvictForPermission(row)
<1>1. Existing \subseteq Collections
    BY DEF TypeOK, Existing
<1>2. ASSUME NEW dept \in Departments, CreateDepartment(dept)
      PROVE  Commits
    BY <1>1, <1>2 DEF CreateDepartment, Commits, Existing
<1>3. ASSUME NEW u \in Users, NEW admin \in BOOLEAN, NEW dept \in Departments \cup {None},
             CreateUser(u, admin, dept) \/ UpdateUser(u, admin, dept)
      PROVE  Commits
    BY <1>1, <1>3 DEF CreateUser, UpdateUser, Commits, Existing
<1>4. ASSUME NEW c \in Collections, NEW dept \in Departments \cup {None},
             CreateCollection(c, dept)
      PROVE  Commits
    BY <1>1, <1>4 DEF CreateCollection, Commits, Existing
<1>5. ASSUME NEW row \in Rows, GrantPermission(row) \/ CommitPermission(row)
      PROVE  Commits
    BY <1>1, <1>5 DEF GrantPermission, CommitPermission, Commits, Existing
<1> QED
    BY <1>2, <1>3, <1>4, <1>5 DEF AdminActs

\* The kinds of step the proofs distinguish.
LEMMA StepKinds ==
    ASSUME Next
    PROVE  \/ AdminActs
           \/ \E r \in Readers, u \in Users, kind \in Kinds, on \in Things \cup {None} :
                  Authenticate(r, u, kind, on)
           \/ \E r \in Readers : ReadOwn(r) \/ ReadGrants(r) \/ MissCache(r)
           \/ \E r \in Readers : Showing(r)
BY DEF Next, Showing

-----------------------------------------------------------------------------
(* Types.                                                                  *)

\* One step for each admin action.
LEMMA AdminTypes ==
    ASSUME TypeOK, AdminActs
    PROVE  TypeOK'
<1>1. CASE \E dept \in Departments : CreateDepartment(dept)
    <2>1. PICK dept \in Departments : CreateDepartment(dept)
        BY <1>1
    <2>2. reader' \in [Readers -> Requests] /\ changes' \in 0..MaxChanges
        BY <2>1, ChangeTypes DEF CreateDepartment, TypeOK
    <2> QED
        BY <2>1, <2>2 DEF TypeOK, CreateDepartment
<1>2. CASE \E u \in Users, admin \in BOOLEAN, dept \in Departments \cup {None} :
               CreateUser(u, admin, dept)
    <2>1. PICK u \in Users, admin \in BOOLEAN, dept \in Departments \cup {None} :
              CreateUser(u, admin, dept)
        BY <1>2
    <2>2. reader' \in [Readers -> Requests] /\ changes' \in 0..MaxChanges
        BY <2>1, ChangeTypes DEF CreateUser, TypeOK
    <2>3. /\ DOMAIN account' \subseteq Users
          /\ \A v \in DOMAIN account' :
                 account'[v] \in [admin : BOOLEAN, dept : departments \cup {None}]
        BY <2>1 DEF CreateUser, TypeOK
    <2> QED
        BY <2>1, <2>2, <2>3 DEF TypeOK, CreateUser
<1>3. CASE \E u \in Users, admin \in BOOLEAN, dept \in Departments \cup {None} :
               UpdateUser(u, admin, dept)
    <2>1. PICK u \in Users, admin \in BOOLEAN, dept \in Departments \cup {None} :
              UpdateUser(u, admin, dept)
        BY <1>3
    <2>2. reader' \in [Readers -> Requests] /\ changes' \in 0..MaxChanges
        BY <2>1, ChangeTypes DEF UpdateUser, TypeOK
    <2>3. account[u].dept \in departments \cup {None}
        BY <2>1 DEF UpdateUser, TypeOK
    <2>4. /\ DOMAIN account' \subseteq Users
          /\ \A v \in DOMAIN account' :
                 account'[v] \in [admin : BOOLEAN, dept : departments \cup {None}]
        BY <2>1, <2>3 DEF UpdateUser, TypeOK
    <2> QED
        BY <2>1, <2>2, <2>4 DEF TypeOK, UpdateUser
<1>4. CASE \E c \in Collections, dept \in Departments \cup {None} : CreateCollection(c, dept)
    <2>1. PICK c \in Collections, dept \in Departments \cup {None} : CreateCollection(c, dept)
        BY <1>4
    <2>2. /\ DOMAIN collections' \subseteq Collections
          /\ \A e \in DOMAIN collections' : collections'[e] \in departments \cup {None}
        BY <2>1 DEF CreateCollection, TypeOK, Existing
    <2>3. reader' \in [Readers -> Requests] /\ changes' \in 0..MaxChanges
        BY <2>1, <2>2, ChangeTypes DEF CreateCollection
    <2> QED
        BY <2>1, <2>2, <2>3 DEF TypeOK, CreateCollection
<1>5. CASE \E row \in Rows : GrantPermission(row)
    <2>1. PICK row \in Rows : GrantPermission(row)
        BY <1>5
    <2>2. reader' \in [Readers -> Requests] /\ changes' \in 0..MaxChanges
        BY <2>1, ChangeTypes DEF GrantPermission, TypeOK
    <2> QED
        BY <2>1, <2>2 DEF TypeOK, GrantPermission
<1>6. CASE \E row \in Rows : EvictForPermission(row)
    BY <1>6 DEF TypeOK, EvictForPermission
<1>7. CASE \E row \in Rows : CommitPermission(row)
    <2>1. PICK row \in Rows : CommitPermission(row)
        BY <1>7
    <2>2. reader' \in [Readers -> Requests] /\ changes' \in 0..MaxChanges
        BY <2>1, ChangeTypes DEF CommitPermission, TypeOK
    <2> QED
        BY <2>1, <2>2 DEF TypeOK, CommitPermission
<1> QED
    BY <1>1, <1>2, <1>3, <1>4, <1>5, <1>6, <1>7 DEF AdminActs

\* Every step keeps the types.
LEMMA TypeStep ==
    ASSUME TypeOK, CacheInv, [Next]_vars
    PROVE  TypeOK'
<1>1. CASE UNCHANGED vars
    BY <1>1 DEF vars, TypeOK
<1>2. CASE AdminActs
    BY <1>2, AdminTypes
<1>3. ASSUME NEW r \in Readers, NEW u \in Users, NEW kind \in Kinds,
             NEW on \in Things \cup {None}, Authenticate(r, u, kind, on)
      PROVE  TypeOK'
    <2>1. reader' \in [Readers -> Requests]
        BY <1>3, AuthenticateReader
    <2> QED
        BY <1>3, <2>1 DEF Authenticate, TypeOK
<1>4. ASSUME NEW r \in Readers, ReadOwn(r) \/ ReadGrants(r) \/ MissCache(r)
      PROVE  TypeOK'
    <2>1. PICK at \in {"direct", "shared", "scoped", "missed"}, scope \in SUBSET Collections :
              reader' = [reader EXCEPT ![r].at = at, ![r].scope = scope]
        BY <1>4, Statements
    <2>2. reader' \in [Readers -> Requests]
        BY <2>1, StatementReader
    <2> QED
        BY <1>4, <2>2 DEF ReadOwn, ReadGrants, MissCache, TypeOK
<1>5. ASSUME NEW r \in Readers, Showing(r)
      PROVE  TypeOK'
    <2>1. PICK docs \in SUBSET Things :
              /\ Show(r, docs)
              /\ UNCHANGED <<departments, account, collections, permissions, revoking, changes>>
        BY <1>5, Shows
    <2>2. reader' \in [Readers -> Requests]
        BY <2>1, ShowReader
    <2>3. cache' \subseteq [scope : SUBSET Collections, docs : SUBSET Docs]
        <3>1. CASE cache' = cache
            BY <3>1 DEF TypeOK
        <3>2. CASE AnswerFromSearch(r)
            BY <3>2 DEF AnswerFromSearch, TypeOK, Requests, InScope
        <3> QED
            BY <1>5, <3>1, <3>2 DEF Showing, ShowScope, ShowList, ShowCollections, ShowDocument,
                                    ShowMedia, ShowHistory, AnswerFromCache
    <2>4. cited' \in [Users -> SUBSET Docs]
        <3>1. CASE cited' = cited
            BY <3>1 DEF TypeOK
        <3>2. CASE AnswerFromCache(r)
            BY <3>2 DEF AnswerFromCache, Answer, Servable, TypeOK
        <3>3. CASE AnswerFromSearch(r)
            BY <3>3 DEF AnswerFromSearch, Answer, InScope, TypeOK
        <3> QED
            BY <1>5, <3>1, <3>2, <3>3 DEF Showing, ShowScope, ShowList, ShowCollections,
                                          ShowDocument, ShowMedia, ShowHistory
    <2> QED
        BY <2>1, <2>2, <2>3, <2>4 DEF TypeOK
<1> QED
    BY <1>1, <1>2, <1>3, <1>4, <1>5, StepKinds

-----------------------------------------------------------------------------
(* Nothing shown that was not readable.                                    *)

\* Only the answer of a search adds an entry, with documents of the scope it is keyed by.
LEMMA CacheStep ==
    ASSUME TypeOK, CacheInv, [Next]_vars
    PROVE  CacheInv'
<1>1. CASE cache' \subseteq cache
    BY <1>1 DEF CacheInv, InScope
<1>2. ASSUME NEW r \in Readers, AnswerFromSearch(r)
      PROVE  CacheInv'
    BY <1>2 DEF AnswerFromSearch, CacheInv, InScope
<1>3. CASE AdminActs
    <2>1. CASE Commits
        BY <1>1, <2>1 DEF Commits
    <2>2. ASSUME NEW row \in Rows, EvictForPermission(row)
          PROVE  CacheInv'
        BY <1>1, <2>2 DEF EvictForPermission
    <2> QED
        BY <1>3, <2>1, <2>2, Committing
<1>4. CASE Next /\ ~AdminActs /\ ~\E r \in Readers : AnswerFromSearch(r)
    <2>1. cache' = cache
        BY <1>4 DEF Next, Authenticate, ReadOwn, ReadGrants, MissCache, ShowScope, ShowList,
                    ShowCollections, ShowDocument, ShowMedia, ShowHistory, AnswerFromCache
    <2> QED
        BY <1>1, <2>1
<1> QED
    BY <1>1, <1>2, <1>3, <1>4 DEF vars

\* For one request at a time: a commit only adds to what it could read, a statement adds to
\* the scope what is readable now, the end shows a part of the scope.
LEMMA ShownStep ==
    ASSUME TypeOK, ShownInv, [Next]_vars
    PROVE  ShownInv'
<1> DEFINE could(q) == InFlight(q) =>
               /\ Readable(reader[q].user, reader[q].admin, reader[q].dept,
                           collections, permissions) \subseteq reader[q].could
               /\ reader[q].scope \cup InScope(reader[q].scope) \subseteq reader[q].could
               /\ reader[q].at \in {"direct", "shared"} => ~reader[q].admin
           shown(q) == reader[q].at = "done" => reader[q].shown \subseteq reader[q].could
<1> SUFFICES ASSUME NEW q \in Readers
             PROVE  could(q)' /\ shown(q)'
    BY CacheStep DEF ShownInv, CouldInv, OnlyReadableShown
<1>0. could(q) /\ shown(q) /\ CacheInv
    BY DEF ShownInv, CouldInv, OnlyReadableShown
<1>1. CASE reader'[q] = reader[q] /\ UNCHANGED <<collections, permissions>>
    BY <1>0, <1>1 DEF InFlight, Readable, InScope, OwnedBy, GrantedTo
<1>2. CASE Commits
    <2>1. CASE ~InFlight(q)
        BY <1>0, <1>2, <2>1, ChangeReader DEF Commits, InFlight
    <2>2. CASE InFlight(q)
        <3> DEFINE w == Widened(reader[q], collections', permissions')
        <3>1. reader'[q] = w
            BY <1>2, <2>2, ChangeReader DEF Commits
        <3>2. /\ w.at = reader[q].at /\ w.user = reader[q].user /\ w.admin = reader[q].admin
              /\ w.dept = reader[q].dept /\ w.scope = reader[q].scope
              /\ w.could = reader[q].could \cup
                     Readable(reader[q].user, reader[q].admin, reader[q].dept,
                              collections', permissions')
            BY WidenedFields DEF TypeOK
        <3> HIDE DEF w
        <3>3. could(q)'
            BY <1>0, <2>2, <3>1, <3>2 DEF InScope, Readable, OwnedBy, GrantedTo
        <3>4. reader'[q].at # "done"
            BY <2>2, <3>1, <3>2 DEF InFlight
        <3> QED
            BY <3>3, <3>4
    <2> QED
        BY <2>1, <2>2
<1>3. ASSUME NEW row \in Rows, EvictForPermission(row)
      PROVE  could(q)' /\ shown(q)'
    BY <1>1, <1>3 DEF EvictForPermission
<1>4. ASSUME NEW r \in Readers, NEW u \in Users, NEW kind \in Kinds,
             NEW on \in Things \cup {None}, Authenticate(r, u, kind, on)
      PROVE  could(q)' /\ shown(q)'
    <2>1. UNCHANGED <<collections, permissions>>
        BY <1>4 DEF Authenticate
    <2>2. CASE q = r
        BY <1>4, <2>1, <2>2, AuthenticateReader DEF InScope, Readable, OwnedBy, GrantedTo
    <2> QED
        BY <1>1, <1>4, <2>1, <2>2, AuthenticateReader
<1>5. ASSUME NEW r \in Readers, ReadOwn(r) \/ ReadGrants(r) \/ MissCache(r)
      PROVE  could(q)' /\ shown(q)'
    <2>1. UNCHANGED <<collections, permissions>>
        BY <1>5 DEF ReadOwn, ReadGrants, MissCache
    <2>2. PICK at \in {"direct", "shared", "scoped", "missed"}, scope \in SUBSET Collections :
             /\ reader' = [reader EXCEPT ![r].at = at, ![r].scope = scope]
             /\ \/ /\ reader[r].at = "own" /\ reader[r].admin
                   /\ at = "scoped" /\ scope = Existing
                \/ /\ reader[r].at = "own" /\ ~reader[r].admin
                   /\ at = "direct" /\ scope = OwnedBy(reader[r].dept, collections)
                \/ /\ reader[r].at = "direct" /\ at = "shared"
                   /\ scope = reader[r].scope \cup GrantedTo(reader[r].user, permissions)
                \/ /\ reader[r].at = "shared" /\ at = "scoped"
                   /\ scope = reader[r].scope \cup GrantedTo(reader[r].dept, permissions)
                \/ /\ reader[r].at = "scoped" /\ reader[r].kind = "chat"
                   /\ at = "missed" /\ scope = reader[r].scope
        BY <1>5, Statements
    <2>3. CASE q # r
        <3>1. reader'[q] = reader[q]
            BY <2>2, <2>3, StatementReader
        <3> QED
            BY <1>1, <2>1, <3>1
    <2>4. CASE q = r
        <3>1. InFlight(r)
            BY <2>2 DEF InFlight
        <3>2. scope \cup InScope(scope) \subseteq reader[r].could
            BY <1>0, <2>2, <2>4, <3>1 DEF InScope, Readable, OwnedBy, GrantedTo, Existing
        <3>3. /\ reader'[r].at = at /\ reader'[r].scope = scope
              /\ reader'[r].user = reader[r].user /\ reader'[r].admin = reader[r].admin
              /\ reader'[r].dept = reader[r].dept /\ reader'[r].could = reader[r].could
            BY <2>2, StatementReader
        <3>4. Readable(reader[r].user, reader[r].admin, reader[r].dept,
                       collections, permissions) \subseteq reader[r].could
            BY <1>0, <2>4, <3>1
        <3>5. Readable(reader[r].user, reader[r].admin, reader[r].dept,
                       collections, permissions)' \subseteq reader'[r].could
            BY <2>1, <3>3, <3>4 DEF Readable, OwnedBy, GrantedTo, InScope
        <3>6. (reader[r].scope \cup InScope(reader[r].scope))' \subseteq reader'[r].could
            BY <3>2, <3>3 DEF InScope
        <3>7. could(q)'
            BY <1>0, <2>2, <2>4, <3>1, <3>3, <3>5, <3>6
        <3>8. shown(q)'
            BY <2>4, <3>3
        <3> QED
            BY <3>7, <3>8
    <2> QED
        BY <2>3, <2>4
<1>6. ASSUME NEW r \in Readers, Showing(r)
      PROVE  could(q)' /\ shown(q)'
    <2>1. PICK docs \in SUBSET Things :
             /\ Show(r, docs)
             /\ docs \subseteq reader[r].scope \cup InScope(reader[r].scope)
             /\ InFlight(r)
             /\ UNCHANGED <<departments, account, collections, permissions, revoking, changes>>
        BY <1>0, <1>6, Shows
    <2>2. CASE q # r
        BY <1>1, <2>1, <2>2, ShowReader
    <2>3. CASE q = r
        <3>1. reader'[r].at = "done" /\ reader'[r].shown = docs
              /\ reader'[r].could = reader[r].could
            BY <2>1, ShowReader
        <3> QED
            BY <1>0, <2>1, <2>3, <3>1 DEF InFlight
    <2> QED
        BY <2>2, <2>3
<1>7. CASE UNCHANGED vars
    BY <1>1, <1>7 DEF vars
<1> QED
    BY <1>2, <1>3, <1>4, <1>5, <1>6, <1>7, StepKinds, Committing

-----------------------------------------------------------------------------
(* Grants that stand are served.                                           *)

\* For one request at a time: a grant that still stands when its statement runs is read by
\* it, and no later step takes a collection out of the scope.
LEMMA StoodStep ==
    ASSUME TypeOK, ShownInv, StoodInv, [Next]_vars
    PROVE  StoodInv'
<1> DEFINE stands(q) == InFlight(q) => reader[q].stood \subseteq permissions /\ Stands(reader[q])
           served(q) == reader[q].at = "done" /\ reader[q].kind = "document"
                            => \A row \in reader[q].stood :
                                 row.on = CollOf[reader[q].on]
                                     => reader[q].on \in reader[q].shown
<1> SUFFICES ASSUME NEW q \in Readers
             PROVE  stands(q)' /\ served(q)'
    BY DEF StoodInv, StandingGrantsServed
<1>0. stands(q) /\ served(q) /\ CacheInv
    BY DEF StoodInv, StandingGrantsServed, ShownInv
<1>1. CASE reader'[q] = reader[q] /\ UNCHANGED <<collections, permissions>>
    BY <1>0, <1>1 DEF InFlight, Stands, Existing
<1>2. CASE Commits
    <2>1. CASE ~InFlight(q)
        BY <1>0, <1>2, <2>1, ChangeReader DEF Commits, InFlight
    <2>2. CASE InFlight(q)
        <3> DEFINE w == Widened(reader[q], collections', permissions')
        <3>1. reader'[q] = w
            BY <1>2, <2>2, ChangeReader DEF Commits
        <3>2. /\ w.at = reader[q].at /\ w.user = reader[q].user /\ w.kind = reader[q].kind
              /\ w.on = reader[q].on /\ w.admin = reader[q].admin /\ w.dept = reader[q].dept
              /\ w.scope = reader[q].scope
              /\ w.stood = reader[q].stood \cap permissions'
            BY WidenedFields DEF TypeOK
        <3> HIDE DEF w
        <3>3. stands(q)'
            BY <1>0, <1>2, <2>2, <3>1, <3>2 DEF Stands, Existing, Commits
        <3>4. reader'[q].at # "done"
            BY <2>2, <3>1, <3>2 DEF InFlight
        <3> QED
            BY <3>3, <3>4
    <2> QED
        BY <2>1, <2>2
<1>3. ASSUME NEW row \in Rows, EvictForPermission(row)
      PROVE  stands(q)' /\ served(q)'
    BY <1>1, <1>3 DEF EvictForPermission
<1>4. ASSUME NEW r \in Readers, NEW u \in Users, NEW kind \in Kinds,
             NEW on \in Things \cup {None}, Authenticate(r, u, kind, on)
      PROVE  stands(q)' /\ served(q)'
    <2>1. UNCHANGED <<collections, permissions>>
        BY <1>4 DEF Authenticate
    <2>2. CASE q = r
        <3>1. /\ reader'[r].at = "own" /\ reader'[r].user = u /\ reader'[r].kind = kind
              /\ reader'[r].on = on /\ reader'[r].stood \subseteq permissions
              /\ \A row \in reader'[r].stood : row.to \in {u, reader'[r].dept}
              /\ kind = "document" => on \in InScope(Existing)
            BY <1>4, AuthenticateReader
        <3> QED
            BY <2>1, <2>2, <3>1 DEF Stands, InScope, Existing
    <2> QED
        BY <1>1, <1>4, <2>1, <2>2, AuthenticateReader
<1>5. ASSUME NEW r \in Readers, ReadOwn(r) \/ ReadGrants(r) \/ MissCache(r)
      PROVE  stands(q)' /\ served(q)'
    <2>1. UNCHANGED <<collections, permissions>>
        BY <1>5 DEF ReadOwn, ReadGrants, MissCache
    <2>2. PICK at \in {"direct", "shared", "scoped", "missed"}, scope \in SUBSET Collections :
             /\ reader' = [reader EXCEPT ![r].at = at, ![r].scope = scope]
             /\ \/ /\ reader[r].at = "own" /\ reader[r].admin
                   /\ at = "scoped" /\ scope = Existing
                \/ /\ reader[r].at = "own" /\ ~reader[r].admin
                   /\ at = "direct" /\ scope = OwnedBy(reader[r].dept, collections)
                \/ /\ reader[r].at = "direct" /\ at = "shared"
                   /\ scope = reader[r].scope \cup GrantedTo(reader[r].user, permissions)
                \/ /\ reader[r].at = "shared" /\ at = "scoped"
                   /\ scope = reader[r].scope \cup GrantedTo(reader[r].dept, permissions)
                \/ /\ reader[r].at = "scoped" /\ reader[r].kind = "chat"
                   /\ at = "missed" /\ scope = reader[r].scope
        BY <1>5, Statements
    <2>3. CASE q # r
        <3>1. reader'[q] = reader[q]
            BY <2>2, <2>3, StatementReader
        <3> QED
            BY <1>1, <2>1, <3>1
    <2>4. CASE q = r
        <3>1. /\ reader'[r].at = at /\ reader'[r].scope = scope
              /\ reader'[r].user = reader[r].user /\ reader'[r].kind = reader[r].kind
              /\ reader'[r].on = reader[r].on /\ reader'[r].admin = reader[r].admin
              /\ reader'[r].dept = reader[r].dept /\ reader'[r].stood = reader[r].stood
            BY <2>2, StatementReader
        <3>2. /\ InFlight(r) /\ Stands(reader[r]) /\ reader[r].stood \subseteq permissions
              /\ reader[r].at \in {"direct", "shared"} => ~reader[r].admin
            BY <1>0, <2>2, <2>4 DEF InFlight, ShownInv, CouldInv
        <3>3. \A p, row : row \in permissions /\ row.to = p /\ row.on \in Collections
                              => row.on \in GrantedTo(p, permissions)
            <4> SUFFICES ASSUME NEW row \in permissions, row.on \in Collections
                         PROVE  row.on \in GrantedTo(row.to, permissions)
                OBVIOUS
            <4>1. row = [to |-> row.to, on |-> row.on]
                BY DEF TypeOK, Rows
            <4> QED
                BY <4>1 DEF GrantedTo
        <3>4. Stands(reader'[r])
            <4> DEFINE n == reader'[r]
            <4>1. /\ \A row \in n.stood : row.to \in {n.user, n.dept}
                  /\ n.kind = "document" => n.on \in Docs /\ CollOf[n.on] \in Existing
                  /\ n.at = "missed" => n.kind = "chat"
                BY <2>2, <3>1, <3>2 DEF Stands
            <4>2. n.at = "scoped" /\ n.admin /\ n.kind = "document"
                      => CollOf[n.on] \in n.scope
                BY <2>2, <3>1, <3>2, <4>1
            <4>3. ASSUME ~n.admin, n.at \in {"shared", "scoped"}, NEW row \in n.stood,
                         row.to = n.user, row.on \in Collections
                  PROVE  row.on \in n.scope
                <5>1. row \in permissions
                    BY <3>1, <3>2
                <5>2. CASE reader[r].at = "direct"
                    BY <2>2, <3>1, <3>3, <4>3, <5>1, <5>2
                <5>3. CASE reader[r].at = "shared"
                    BY <2>2, <3>1, <3>2, <4>3, <5>3 DEF Stands
                <5> QED
                    BY <2>2, <3>1, <4>3, <5>2, <5>3
            <4>4. ASSUME ~n.admin, n.at = "scoped", NEW row \in n.stood,
                         row.to = n.dept, row.on \in Collections
                  PROVE  row.on \in n.scope
                BY <2>2, <3>1, <3>2, <3>3, <4>4
            <4> QED
                BY <4>1, <4>2, <4>3, <4>4 DEF Stands
        <3>5. Stands(reader[r])'
            BY <2>1, <3>4 DEF Stands, Existing
        <3> QED
            BY <2>1, <2>4, <3>1, <3>2, <3>5
    <2> QED
        BY <2>3, <2>4
<1>6. ASSUME NEW r \in Readers, Showing(r)
      PROVE  stands(q)' /\ served(q)'
    <2>1. PICK docs \in SUBSET Things :
             /\ Show(r, docs)
             /\ docs \subseteq reader[r].scope \cup InScope(reader[r].scope)
             /\ InFlight(r) /\ reader[r].at \in {"scoped", "missed"}
             /\ \/ reader[r].kind # "document" \/ reader[r].at = "missed"
                \/ docs = {reader[r].on} \cap InScope(reader[r].scope)
             /\ UNCHANGED <<departments, account, collections, permissions, revoking, changes>>
        BY <1>0, <1>6, Shows
    <2>2. CASE q # r
        BY <1>1, <2>1, <2>2, ShowReader
    <2>3. CASE q = r
        <3>1. /\ reader'[r].at = "done" /\ reader'[r].shown = docs
              /\ reader'[r].stood = reader[r].stood /\ reader'[r].kind = reader[r].kind
              /\ reader'[r].on = reader[r].on
            BY <2>1, ShowReader
        <3>2. ASSUME reader[r].kind = "document", NEW row \in reader[r].stood,
                     row.on = CollOf[reader[r].on]
              PROVE  reader[r].on \in docs
            <4>1. Stands(reader[r])
                BY <1>0, <2>1, <2>3
            <4>2. /\ reader[r].at = "scoped"
                  /\ docs = {reader[r].on} \cap InScope(reader[r].scope)
                  /\ reader[r].on \in Docs /\ row.on \in Collections
                  /\ row.to \in {reader[r].user, reader[r].dept}
                BY <2>1, <3>2, <4>1, AccessAssumption DEF Stands
            <4>3. CollOf[reader[r].on] \in reader[r].scope
                BY <3>2, <4>1, <4>2 DEF Stands
            <4> QED
                BY <4>2, <4>3 DEF InScope
        <3> QED
            BY <2>3, <3>1, <3>2 DEF InFlight
    <2> QED
        BY <2>2, <2>3
<1>7. CASE UNCHANGED vars
    BY <1>1, <1>7 DEF vars
<1> QED
    BY <1>2, <1>3, <1>4, <1>5, <1>6, <1>7, StepKinds, Committing

-----------------------------------------------------------------------------
(* The theorems.                                                           *)

AccessInv == TypeOK /\ ShownInv /\ StoodInv

\* The three parts together are inductive.
LEMMA AccessInvariant == Spec => []AccessInv
<1>1. ASSUME Init
      PROVE  AccessInv
    <2>1. TypeOK /\ cache = {} /\ \A r \in Readers : reader[r].at = "idle"
        BY <1>1, InitTypes DEF Init, Idle
    <2> QED
        BY <2>1 DEF InFlight, AccessInv, ShownInv, CouldInv, CacheInv,
                    OnlyReadableShown, StoodInv, StandingGrantsServed
<1>2. AccessInv /\ [Next]_vars => AccessInv'
    BY TypeStep, ShownStep, StoodStep DEF AccessInv, ShownInv
<1> QED
    BY <1>1, <1>2, PTL DEF Spec

\* The rows of users, collections and permissions, the requests and the cache entries keep
\* their types whatever admins and readers do.
THEOREM TypeCorrect == Spec => []TypeOK
<1>1. AccessInv => TypeOK
    BY DEF AccessInv
<1> QED
    BY <1>1, AccessInvariant, PTL

\* rbac.py, chat.py 340-371: no request shows a collection, or anything of a document, that
\* its user could at no instant of the request have read.
THEOREM NothingUnreadableShown == Spec => []OnlyReadableShown
<1>1. AccessInv => OnlyReadableShown
    BY DEF AccessInv, ShownInv
<1> QED
    BY <1>1, AccessInvariant, PTL

\* rbac.py: the statements of a scope run one after another, and a grant that stands for
\* all of them is never missed.
THEOREM StandingGrantsHonoured == Spec => []StandingGrantsServed
<1>1. AccessInv => StandingGrantsServed
    BY DEF AccessInv, StoodInv
<1> QED
    BY <1>1, AccessInvariant, PTL

=============================================================================
