------------------------------- MODULE Access -------------------------------
(***************************************************************************)
(* Who may read what (app/core/rbac.py), the admin requests that change it *)
(* (app/api/admin.py), and the requests that show passages: search, chat   *)
(* with its semantic cache, the history of a chat, the lists and the       *)
(* fetches of documents, pages and figures.                                *)
(*                                                                         *)
(* A request loads its user once and then reads the rows that decide its   *)
(* scope in separate statements, each seeing what is committed by then.    *)
(* Admin requests commit in between.                                       *)
(*                                                                         *)
(* Every document stands for its passages, and retrieval finds all that    *)
(* the scope admits.  The semantic cache is the set of its entries; how an *)
(* eviction can miss one is the subject of SemanticCache.                  *)
(***************************************************************************)
EXTENDS Naturals

CONSTANTS
    Users, Departments, Collections, Docs,
    CollOf,                 \* the collection of each document
    Grantable,              \* the resources grants are made on: bounds the rows
    Readers,                \* requests running at a time
    None,                   \* no department, no document
    MaxChanges              \* bound on the changes admins make

ASSUME AccessAssumption ==
    /\ CollOf \in [Docs -> Collections]
    /\ Users \cap Departments = {} /\ Docs \cap Collections = {}
    /\ Grantable \subseteq Collections \cup Docs
    /\ None \notin Users \cup Departments \cup Docs \cup Collections
    /\ MaxChanges \in Nat

VARIABLES
    departments,            \* departments that exist
    account,                \* users that exist: their role and department
    collections,            \* collections that exist, with the department that owns them
    permissions,            \* rows of permissions: a principal and a resource
    revoking,               \* permission rows an admin request has evicted for, uncommitted
    changes,
    cache,                  \* entries of the semantic cache: scope and documents
    cited,                  \* the documents cited in each user's stored answers
    reader                  \* the requests

vars == <<departments, account, collections, permissions, revoking, changes, cache, cited, reader>>

Kinds == {"search", "chat", "history", "document", "media", "list", "collections"}
Things == Docs \cup Collections
Rows == [to : Users \cup Departments, on : Grantable]
Idle == [at |-> "idle", user |-> None, kind |-> None, on |-> None, admin |-> FALSE,
         dept |-> None, scope |-> {}, found |-> {}, shown |-> {}, could |-> {}, stood |-> {}]

Requests ==
    [at : {"idle", "own", "direct", "shared", "scoped", "missed", "done"},
     user : Users \cup {None}, kind : Kinds \cup {None}, on : Things \cup {None},
     admin : BOOLEAN, dept : Departments \cup {None}, scope : SUBSET Collections,
     found : SUBSET Docs, shown : SUBSET Things,
     could : SUBSET Things, stood : SUBSET Rows]

TypeOK ==
    /\ departments \subseteq Departments /\ DOMAIN account \subseteq Users
    /\ \A u \in DOMAIN account :
           account[u] \in [admin : BOOLEAN, dept : departments \cup {None}]
    /\ DOMAIN collections \subseteq Collections
    /\ \A c \in DOMAIN collections : collections[c] \in departments \cup {None}
    /\ permissions \subseteq Rows /\ revoking \subseteq permissions
    /\ changes \in 0..MaxChanges
    /\ cache \subseteq [scope : SUBSET Collections, docs : SUBSET Docs]
    /\ cited \in [Users -> SUBSET Docs]
    /\ reader \in [Readers -> Requests]

\* Users and collections of any department, no grants, no answers.
Init ==
    /\ departments \in SUBSET Departments
    /\ \E created \in SUBSET Users :
         account \in [created -> [admin : {FALSE}, dept : departments \cup {None}]]
    /\ \E created \in SUBSET Collections :
         collections \in [created -> departments \cup {None}]
    /\ permissions = {} /\ revoking = {} /\ changes = 0
    /\ cache = {} /\ cited = [u \in Users |-> {}]
    /\ reader = [r \in Readers |-> Idle]

Existing == DOMAIN collections
InScope(scope) == {d \in Docs : CollOf[d] \in scope}
OwnedBy(dept, colls) == {c \in DOMAIN colls : dept # None /\ colls[c] = dept}
GrantedTo(p, rows) == {c \in Collections : [to |-> p, on |-> c] \in rows}
InFlight(r) == reader[r].at \notin {"idle", "done"}

\* The collections and documents a user of this role and department can read, given the
\* rows of one instant.
Readable(u, admin, dept, colls, rows) ==
    LET scope == IF admin THEN DOMAIN colls
                 ELSE OwnedBy(dept, colls) \cup GrantedTo(u, rows) \cup GrantedTo(dept, rows)
    IN  scope \cup InScope(scope)

-----------------------------------------------------------------------------
(* The admin's requests.  Each commits one change, and history variables   *)
(* of the requests in flight note what it opened and what it closed.       *)

Widened(q, colls, rows) ==
    [q EXCEPT !.could = @ \cup Readable(q.user, q.admin, q.dept, colls, rows),
              !.stood = @ \cap rows]

Change ==
    /\ changes < MaxChanges /\ changes' = changes + 1
    /\ reader' = [r \in Readers |->
           IF InFlight(r) THEN Widened(reader[r], collections', permissions') ELSE reader[r]]

CreateDepartment(dept) ==
    /\ dept \notin departments
    /\ departments' = departments \cup {dept}
    /\ UNCHANGED <<account, collections, permissions, revoking, cache, cited>>
    /\ Change

\* create_user: an unknown department is a 400, a registered address a 409.
CreateUser(u, admin, dept) ==
    /\ u \notin DOMAIN account /\ dept \in departments \cup {None}
    /\ account' = [v \in DOMAIN account \cup {u} |->
                      IF v = u THEN [admin |-> admin, dept |-> dept] ELSE account[v]]
    /\ UNCHANGED <<departments, collections, permissions, revoking, cache, cited>>
    /\ Change

CreateCollection(c, dept) ==
    /\ c \notin Existing /\ dept \in departments \cup {None}
    /\ collections' = [e \in Existing \cup {c} |-> IF e = c THEN dept ELSE collections[e]]
    /\ UNCHANGED <<departments, account, permissions, revoking, cache, cited>>
    /\ Change

\* update_user: a role, and a department unless it is null; an unknown one fails.
UpdateUser(u, admin, dept) ==
    /\ u \in DOMAIN account /\ dept \in departments \cup {account[u].dept}
    /\ account' = [account EXCEPT ![u] = [admin |-> admin, dept |-> dept]]
    /\ account' # account
    /\ UNCHANGED <<departments, collections, permissions, revoking, cache, cited>>
    /\ Change

\* grant_permission: a second row for the same principal and resource is a 409.
GrantPermission(row) ==
    /\ row \notin permissions
    /\ \E c \in Existing : row.on = c \/ row.on \in InScope({c})
    /\ permissions' = permissions \cup {row}
    /\ UNCHANGED <<departments, account, collections, revoking, cache, cited>>
    /\ Change

Touches(entry, row) == row.on \in entry.docs \/ \E d \in entry.docs : CollOf[d] = row.on

\* _invalidate_for_permission evicts what came from the resource, before the commit.
EvictForPermission(row) ==
    /\ row \in permissions \ revoking
    /\ changes < MaxChanges
    /\ cache' = {e \in cache : ~Touches(e, row)}
    /\ revoking' = revoking \cup {row}
    /\ UNCHANGED <<departments, account, collections, permissions, changes, cited, reader>>

\* revoke_permission deletes the row; edit_permission changes a level nothing reads.
CommitPermission(row) ==
    /\ row \in revoking
    /\ revoking' = revoking \ {row}
    /\ permissions' \in {permissions, permissions \ {row}}
    /\ UNCHANGED <<departments, account, collections, cache, cited>>
    /\ Change

-----------------------------------------------------------------------------
(* The requests that show passages.                                        *)

\* get_current_user loads the row; a history also reads the stored answers first.
\* It asks for a document, a page image or figure of one, the documents of all collections
\* or of one, all collections or one; a document or collection without a row is a 404.
Authenticate(r, u, kind, on) ==
    /\ ~InFlight(r) /\ u \in DOMAIN account
    /\ on \in CASE kind \in {"document", "media"} -> InScope(Existing)
               [] kind = "list"                   -> Collections \cup {None}
               [] kind = "collections"            -> Existing \cup {None}
               [] OTHER                           -> {None}
    /\ LET me == account[u] IN
       reader' = [reader EXCEPT ![r] =
           [Idle EXCEPT !.at = "own", !.user = u, !.kind = kind, !.on = on,
                        !.admin = me.admin, !.dept = me.dept,
                        !.found = IF kind = "history" THEN cited[u] ELSE {},
                        !.could = Readable(u, me.admin, me.dept, collections, permissions),
                        !.stood = {row \in permissions :
                                       kind = "document" /\ row.to \in {u, me.dept}}]]
    /\ UNCHANGED <<departments, account, collections, permissions, revoking, changes, cache, cited>>

\* accessible_collection_ids, one statement a step: all collections for an admin; else
\* those of the department, those granted to the user, those granted to the department.
ReadOwn(r) ==
    /\ reader[r].at = "own"
    /\ reader' = [reader EXCEPT
           ![r].at = IF reader[r].admin THEN "scoped" ELSE "direct",
           ![r].scope = IF reader[r].admin THEN Existing ELSE OwnedBy(reader[r].dept, collections)]
    /\ UNCHANGED <<departments, account, collections, permissions, revoking, changes, cache, cited>>

\* Mutated ReadGrants: only grants to the user are read.
ReadGrantsOfUser(r) ==
    /\ reader[r].at = "direct"
    /\ reader' = [reader EXCEPT ![r].at = "scoped",
                                ![r].scope = @ \cup GrantedTo(reader[r].user, permissions)]
    /\ UNCHANGED <<departments, account, collections, permissions, revoking, changes, cache, cited>>

ReadGrants(r) ==
    /\ \/ /\ reader[r].at = "direct"
          /\ reader' = [reader EXCEPT ![r].at = "shared",
                                      ![r].scope = @ \cup GrantedTo(reader[r].user, permissions)]
       \/ /\ reader[r].at = "shared"
          /\ reader' = [reader EXCEPT ![r].at = "scoped",
                                      ![r].scope = @ \cup GrantedTo(reader[r].dept, permissions)]
    /\ UNCHANGED <<departments, account, collections, permissions, revoking, changes, cache, cited>>

Show(r, docs) ==
    reader' = [reader EXCEPT ![r] =
        [Idle EXCEPT !.at = "done", !.kind = reader[r].kind, !.on = reader[r].on,
                     !.shown = docs, !.could = reader[r].could, !.stood = reader[r].stood]]

ShowScope(r) ==
    /\ reader[r].at = "scoped" /\ reader[r].kind = "search"
    /\ Show(r, {d \in InScope(reader[r].scope) : CollOf[d] \in Existing})
    /\ UNCHANGED <<departments, account, collections, permissions, revoking, changes, cache, cited>>

\* list_documents, of all collections in scope or of the one asked for: 404 outside.
ShowList(r) ==
    /\ reader[r].at = "scoped" /\ reader[r].kind = "list"
    /\ LET allowed == IF reader[r].on = None THEN reader[r].scope
                      ELSE reader[r].scope \cap {reader[r].on}
       IN  Show(r, InScope(allowed) \cap InScope(Existing))
    /\ UNCHANGED <<departments, account, collections, permissions, revoking, changes, cache, cited>>

\* list_collections and get_collection.
ShowCollections(r) ==
    /\ reader[r].at = "scoped" /\ reader[r].kind = "collections"
    /\ Show(r, IF reader[r].on = None THEN reader[r].scope \cap Existing
               ELSE reader[r].scope \cap {reader[r].on})
    /\ UNCHANGED <<departments, account, collections, permissions, revoking, changes, cache, cited>>

\* get_document and ingest_status: can_access_collection or a 404.
ShowDocument(r) ==
    /\ reader[r].at = "scoped" /\ reader[r].kind = "document"
    /\ Show(r, {reader[r].on} \cap InScope(reader[r].scope))
    /\ UNCHANGED <<departments, account, collections, permissions, revoking, changes, cache, cited>>

\* page_image and figure_image: the same check, and a 404 for an object that is not there.
ShowMedia(r) ==
    /\ reader[r].at = "scoped" /\ reader[r].kind = "media"
    /\ \E stored \in {{}, {reader[r].on}} : Show(r, stored \cap InScope(reader[r].scope))
    /\ UNCHANGED <<departments, account, collections, permissions, revoking, changes, cache, cited>>

\* Mutated VisibleCitations: stored citations are shown as they were.
VisibleCitationsAll(r) == reader[r].found

\* Citations of documents the user cannot read any more keep only their marker.
VisibleCitations(r) == reader[r].found \cap InScope(reader[r].scope)

ShowHistory(r) ==
    /\ reader[r].at = "scoped" /\ reader[r].kind = "history"
    /\ Show(r, VisibleCitations(r))
    /\ UNCHANGED <<departments, account, collections, permissions, revoking, changes, cache, cited>>

\* The answer and its citations are committed with the message.
Answer(r, docs) ==
    /\ Show(r, docs)
    /\ cited' = [cited EXCEPT ![reader[r].user] = @ \cup docs]

\* lookup serves entries stored under the same scope.
Servable(r) == {e \in cache : e.scope = reader[r].scope}

AnswerFromCache(r) ==
    /\ reader[r].at = "scoped" /\ reader[r].kind = "chat"
    /\ \E e \in Servable(r) : Answer(r, e.docs)
    /\ UNCHANGED <<departments, account, collections, permissions, revoking, changes, cache>>

MissCache(r) ==
    /\ reader[r].at = "scoped" /\ reader[r].kind = "chat"
    /\ reader' = [reader EXCEPT ![r].at = "missed"]
    /\ UNCHANGED <<departments, account, collections, permissions, revoking, changes, cache, cited>>

\* The search filters by the scope, the assembler checks it again, the cache stores it.
AnswerFromSearch(r) ==
    /\ reader[r].at = "missed"
    /\ LET docs == {d \in InScope(reader[r].scope) : CollOf[d] \in Existing} IN
         /\ Answer(r, docs)
         /\ cache' = IF docs = {} THEN cache
                     ELSE cache \cup {[scope |-> reader[r].scope, docs |-> docs]}
    /\ UNCHANGED <<departments, account, collections, permissions, revoking, changes>>

AdminActs ==
    \/ \E dept \in Departments : CreateDepartment(dept)
    \/ \E u \in Users, admin \in BOOLEAN, dept \in Departments \cup {None} :
           CreateUser(u, admin, dept) \/ UpdateUser(u, admin, dept)
    \/ \E c \in Collections, dept \in Departments \cup {None} : CreateCollection(c, dept)
    \/ \E row \in Rows : \/ GrantPermission(row) \/ EvictForPermission(row)
                         \/ CommitPermission(row)

Next ==
    \/ AdminActs
    \/ \E r \in Readers :
         \/ \E u \in Users, kind \in Kinds, on \in Things \cup {None} :
              Authenticate(r, u, kind, on)
         \/ ReadOwn(r) \/ ReadGrants(r)
         \/ ShowScope(r) \/ ShowList(r) \/ ShowCollections(r)
         \/ ShowDocument(r) \/ ShowMedia(r) \/ ShowHistory(r)
         \/ AnswerFromCache(r) \/ MissCache(r) \/ AnswerFromSearch(r)

Spec == Init /\ [][Next]_vars

-----------------------------------------------------------------------------
(* Properties.                                                             *)

\* rbac.py, chat.py 340-371: nothing is shown of a document that the user, with the role
\* and department the request loaded, could at no instant of the request have read: not
\* through the cache, not through stored citations, not through a mix of the statements.
OnlyReadableShown == \A r \in Readers : reader[r].at = "done" => reader[r].shown \subseteq reader[r].could

\* The statements are read one by one, yet a request is not turned away from a document
\* whose grant stood from its first statement to its last.
StandingGrantsServed ==
    \A r \in Readers :
        reader[r].at = "done" /\ reader[r].kind = "document"
            => \A row \in reader[r].stood :
                 row.on = CollOf[reader[r].on] => reader[r].on \in reader[r].shown
=============================================================================
