------------------------------ MODULE Sessions ------------------------------
(***************************************************************************)
(* The sessions of one account: login, refresh rotation, logout and the    *)
(* checks of every authenticated call (app/api/auth.py, app/core/deps.py,  *)
(* app/core/security.py), the denylist and session epoch in Redis          *)
(* (app/core/redis.py), and the admin requests that end sessions           *)
(* (app/api/admin.py: suspend, revoke-sessions, reset-credential).         *)
(*                                                                         *)
(* Between two awaits a handler is one action, so another request, an      *)
(* admin or the clock can come between a check and what it guards.         *)
(*                                                                         *)
(* A token is the request that issued it and its type.  A password is      *)
(* the number of resets before it.  Instants are distinct: tokens carry a  *)
(* sub-second iat.                                                         *)
(***************************************************************************)
EXTENDS Naturals, FiniteSets

CONSTANTS
    Requests,               \* client requests, each made once
    Admins,                 \* admin requests, each made once
    None,
    MaxFaults,              \* bound on Redis calls that raise
    MaxAged                 \* bound on the tokens that reach their expiry

ASSUME SessionsAssumption ==
    /\ None \notin Requests
    /\ IsFiniteSet(Requests) /\ IsFiniteSet(Admins)
    /\ MaxFaults \in Nat /\ MaxAged \in Nat

VARIABLES
    account,                \* the committed users row: is_active and the password
    epoch,                  \* Redis user:session_epoch:<id>
    denied,                 \* Redis jwt:denylist:<jti>
    life,                   \* where each token is in its lifetime
    pair,                   \* the token pair each request was answered with
    request,                \* where each client request is
    admin,                  \* where each admin request is
    now,                    \* the next instant
    faults,
    revoked,                \* history: tokens a rotation or a logout has revoked
    ended                   \* history: the last instant a completed admin request
                            \* ended the sessions of the account

redis == <<epoch, denied>>
vars == <<account, redis, life, pair, request, admin, now, faults, revoked, ended>>

Tokens == {"access", "refresh"} \X Requests
Kinds == {"login", "refresh", "call", "logout"}
AdminKinds == {"suspend", "reactivate", "reset", "revoke"}
NoPair == [iat |-> 0, opened |-> 0, password |-> 0, crossed |-> FALSE, slipped |-> FALSE]
Unsent == [at |-> "unsent", kind |-> None, of |-> None, late |-> FALSE,
           crossed |-> FALSE, slipped |-> FALSE]
Over == [Unsent EXCEPT !.at = "refused"]
Unmade == [at |-> "unmade", kind |-> None, active |-> FALSE, stamp |-> 0]
Finished == [Unmade EXCEPT !.at = "done"]
Times == 0..(Cardinality(Requests) + Cardinality(Admins))
Passwords == 0..Cardinality(Admins)

TypeOK ==
    /\ account \in [active : BOOLEAN, password : Passwords]
    /\ epoch \in Times /\ denied \subseteq Tokens /\ ended \in Times
    /\ life \in [Tokens -> {"valid", "last second", "expired"}]
    /\ pair \in [Requests -> [iat : Times, opened : Times, password : Passwords,
                              crossed : BOOLEAN, slipped : BOOLEAN]]
    /\ request \in [Requests ->
           [at : {"unsent", "presented", "listed", "known", "allowed", "granted", "half",
                  "issued", "served", "refused"},
            kind : Kinds \cup {None}, of : Requests \cup {None},
            late : BOOLEAN, crossed : BOOLEAN, slipped : BOOLEAN]]
    /\ admin \in [Admins ->
           [at : {"unmade", "loaded", "stamped", "bumped", "done"},
            kind : AdminKinds \cup {None}, active : BOOLEAN, stamp : Times]]
    /\ now \in 1..(Cardinality(Times) + 1)
    /\ faults \in 0..MaxFaults /\ revoked \subseteq Tokens

\* A new account: no session, no epoch, an empty denylist.
Init ==
    /\ account = [active |-> TRUE, password |-> 0]
    /\ epoch = 0 /\ denied = {} /\ revoked = {} /\ ended = 0
    /\ life = [t \in Tokens |-> "valid"]
    /\ pair = [r \in Requests |-> NoPair]
    /\ request = [r \in Requests |-> Unsent]
    /\ admin = [a \in Admins |-> Unmade]
    /\ now = 1 /\ faults = 0

Issued(q) == pair[q].iat > 0
InFlight(r) == request[r].at \in {"presented", "listed", "known", "allowed", "granted", "half"}
\* An admin request is between choosing the epoch and its commit.
Ending == \E a \in Admins : admin[a].at \in {"stamped", "bumped"}

-----------------------------------------------------------------------------
(* The client's requests.                                                  *)

Goto(r, at) == request' = [request EXCEPT ![r].at = at]
Refuse(r) == request' = [request EXCEPT ![r] = Over]

\* The type a handler wants of the token it is shown.
TypeFor(kind) == IF kind = "refresh" THEN "refresh" ELSE "access"

\* Mutated Revoke: only access tokens are denied.
RevokeAccessOnly(t) ==
    /\ denied' = IF life[t] = "valid" /\ t[1] = "access" THEN denied \cup {t} ELSE denied
    /\ revoked' = revoked \cup {t}

\* revoke_jti: nothing is written for a token in its last second, whose ttl rounds to 0.
Revoke(t) ==
    /\ denied' = IF life[t] = "valid" THEN denied \cup {t} ELSE denied
    /\ revoked' = revoked \cup {t}

\* login: the row as it was read decides; the pair is minted afterwards.
Login(r) ==
    /\ request[r].at = "unsent"
    /\ \E p \in 0..account.password :
         IF p = account.password /\ account.active
         THEN /\ request' = [request EXCEPT ![r] =
                     [Unsent EXCEPT !.at = "granted", !.kind = "login", !.crossed = Ending]]
              /\ pair' = [pair EXCEPT ![r].password = p]
         ELSE Refuse(r) /\ UNCHANGED pair
    /\ UNCHANGED <<account, redis, life, admin, now, faults, revoked, ended>>

\* A request arrives with a token of q's pair: signature, expiry and type.
Present(r, q, kind, type) ==
    /\ request[r].at = "unsent" /\ Issued(q)
    /\ IF life[<<type, q>>] # "expired" /\ type = TypeFor(kind)
       THEN request' = [request EXCEPT ![r] =
                [at |-> "presented", kind |-> kind, of |-> q,
                 late |-> <<type, q>> \in revoked, crossed |-> Ending, slipped |-> FALSE]]
       ELSE Refuse(r)
    /\ UNCHANGED <<account, redis, life, pair, admin, now, faults, revoked, ended>>

\* A Redis read answers, or raises: both reads of Redis then let the token pass.
Reads(ok) == faults' = IF ok THEN faults ELSE faults + 1
MayFail == {ok \in BOOLEAN : ok \/ faults < MaxFaults}

\* is_revoked(jti).
CheckDenylist(r) ==
    /\ request[r].at = "presented"
    /\ \E ok \in MayFail :
         LET t == <<TypeFor(request[r].kind), request[r].of>> IN
         /\ Reads(ok)
         /\ IF ok /\ t \in denied
            THEN Refuse(r)
            ELSE request' = [request EXCEPT ![r].at = "listed",
                                            ![r].slipped = ~ok \/ life[t] # "valid"]
    /\ UNCHANGED <<account, redis, life, pair, admin, now, revoked, ended>>

\* db.get(User): the account exists and is active.
CheckUser(r) ==
    /\ request[r].at = "listed"
    /\ IF account.active THEN Goto(r, "known") ELSE Refuse(r)
    /\ UNCHANGED <<account, redis, life, pair, admin, now, faults, revoked, ended>>

\* Mutated CheckEpoch: refresh tokens are not compared with the epoch.
CheckEpochNotRefresh(r) ==
    /\ request[r].at = "known"
    /\ IF request[r].kind # "refresh" /\ pair[request[r].of].iat < epoch
       THEN Refuse(r)
       ELSE Goto(r, IF request[r].kind = "call" THEN "served" ELSE "allowed")
    /\ UNCHANGED <<account, redis, life, pair, admin, now, faults, revoked, ended>>

\* The token is not older than the session epoch; an ordinary call is then served.
CheckEpoch(r) ==
    /\ request[r].at = "known"
    /\ \E ok \in MayFail :
         /\ Reads(ok)
         /\ IF ok /\ pair[request[r].of].iat < epoch
            THEN Refuse(r)
            ELSE request' = [request EXCEPT
                     ![r].at = IF request[r].kind = "call" THEN "served" ELSE "allowed",
                     ![r].slipped = @ \/ ~ok]
    /\ UNCHANGED <<account, redis, life, pair, admin, now, revoked, ended>>

\* refresh: the presented token cannot be used again.
Rotate(r) ==
    /\ request[r].at = "allowed" /\ request[r].kind = "refresh"
    /\ Revoke(<<"refresh", request[r].of>>)
    /\ Goto(r, "granted")
    /\ UNCHANGED <<account, epoch, life, pair, admin, now, faults, ended>>

\* _issue_pair: a session opened by a login, or carried on by a refresh.
IssuePair(r) ==
    /\ request[r].at = "granted"
    /\ LET me == request[r] IN
       pair' = [pair EXCEPT ![r] =
           IF me.kind = "login"
           THEN [iat |-> now, opened |-> now, password |-> @.password,
                 crossed |-> me.crossed, slipped |-> FALSE]
           ELSE [iat |-> now, opened |-> pair[me.of].opened,
                 password |-> pair[me.of].password,
                 crossed |-> me.crossed \/ pair[me.of].crossed,
                 slipped |-> me.slipped \/ pair[me.of].slipped]]
    /\ now' = now + 1
    /\ Goto(r, "issued")
    /\ UNCHANGED <<account, redis, life, admin, faults, revoked, ended>>

\* logout: the access token first, then the refresh token of the cookie.
RevokeAccess(r) ==
    /\ request[r].at = "allowed" /\ request[r].kind = "logout"
    /\ Revoke(<<"access", request[r].of>>)
    /\ \E cookie \in BOOLEAN : Goto(r, IF cookie THEN "half" ELSE "served")
    /\ UNCHANGED <<account, epoch, life, pair, admin, now, faults, ended>>

RevokeCookie(r) ==
    /\ request[r].at = "half"
    /\ Revoke(<<"refresh", request[r].of>>)
    /\ Goto(r, "served")
    /\ UNCHANGED <<account, epoch, life, pair, admin, now, faults, ended>>

\* A write to the denylist raises: the request ends in a 500 there.
WriteFails(r) ==
    /\ request[r].at = "half" \/ request[r].at = "allowed"
    /\ faults < MaxFaults /\ faults' = faults + 1
    /\ Refuse(r)
    /\ UNCHANGED <<account, redis, life, pair, admin, now, revoked, ended>>

-----------------------------------------------------------------------------
(* The admin's requests.                                                   *)

\* update_user, revoke_sessions and reset_credential load the row first.
LoadUser(a, kind) ==
    /\ admin[a].at = "unmade"
    /\ admin' = [admin EXCEPT ![a] = [at |-> "loaded", kind |-> kind,
                                      active |-> account.active, stamp |-> 0]]
    /\ UNCHANGED <<account, redis, life, pair, request, now, faults, revoked, ended>>

\* Sessions end with a reset, a revoke, and a suspension of an account loaded as active.
EndsSessions(a) == \/ admin[a].kind \in {"reset", "revoke"}
                   \/ admin[a].kind = "suspend" /\ admin[a].active

\* bump_session_epoch takes the time, and then sets the key.
StampEpoch(a) ==
    /\ admin[a].at = "loaded" /\ EndsSessions(a)
    /\ admin' = [admin EXCEPT ![a].at = "stamped", ![a].stamp = now]
    /\ now' = now + 1
    /\ request' = [r \in Requests |->
           [request[r] EXCEPT !.crossed = @ \/ InFlight(r)]]
    /\ UNCHANGED <<account, redis, life, pair, faults, revoked, ended>>

SetEpoch(a) ==
    /\ admin[a].at = "stamped"
    /\ epoch' = admin[a].stamp
    /\ admin' = [admin EXCEPT ![a].at = "bumped"]
    /\ UNCHANGED <<account, denied, life, pair, request, now, faults, revoked, ended>>

\* The set raises: the row's change is rolled back.
SetFails(a) ==
    /\ admin[a].at = "stamped" /\ faults < MaxFaults
    /\ faults' = faults + 1
    /\ admin' = [admin EXCEPT ![a] = Finished]
    /\ UNCHANGED <<account, redis, life, pair, request, now, revoked, ended>>

\* The commit writes the attributes that differ from the row as it was loaded.
CommitAdmin(a) ==
    /\ admin[a].at = IF EndsSessions(a) THEN "bumped" ELSE "loaded"
    /\ account' =
         CASE admin[a].kind = "suspend" /\ admin[a].active -> [account EXCEPT !.active = FALSE]
           [] admin[a].kind = "reactivate" /\ ~admin[a].active -> [account EXCEPT !.active = TRUE]
           [] admin[a].kind = "reset" -> [account EXCEPT !.password = @ + 1]
           [] OTHER -> account
    /\ ended' = IF admin[a].stamp > ended THEN admin[a].stamp ELSE ended
    /\ admin' = [admin EXCEPT ![a] = Finished]
    /\ UNCHANGED <<redis, life, pair, request, now, faults, revoked>>

-----------------------------------------------------------------------------
(* Time.  A denylist key lives for exp minus the whole second it was set   *)
(* in, and a token is accepted to the end of second exp: the key may be    *)
(* gone in the last second of its token.                                   *)

Age(t) ==
    /\ Issued(t[2]) /\ life[t] # "expired"
    /\ life[t] = "last second" \/ Cardinality({u \in Tokens : life[u] # "valid"}) < MaxAged
    /\ life' = [life EXCEPT ![t] = IF @ = "valid" THEN "last second" ELSE "expired"]
    /\ denied' = denied \ {t}
    /\ UNCHANGED <<account, epoch, pair, request, admin, now, faults, revoked, ended>>

Next ==
    \/ \E r \in Requests :
         \/ Login(r)
         \/ \E q \in Requests, kind \in Kinds \ {"login"}, type \in {"access", "refresh"} :
              Present(r, q, kind, type)
         \/ CheckDenylist(r) \/ CheckUser(r) \/ CheckEpoch(r)
         \/ Rotate(r) \/ IssuePair(r)
         \/ RevokeAccess(r) \/ RevokeCookie(r) \/ WriteFails(r)
    \/ \E a \in Admins :
         \/ \E kind \in AdminKinds : LoadUser(a, kind)
         \/ StampEpoch(a) \/ SetEpoch(a) \/ SetFails(a) \/ CommitAdmin(a)
    \/ \E t \in Tokens : Age(t)

Spec == Init /\ [][Next]_vars

-----------------------------------------------------------------------------
(* Properties.                                                             *)

\* The tokens of q's pair would pass the checks of the account and the epoch.
Accepted(q) == Issued(q) /\ account.active /\ pair[q].iat >= epoch

\* reset_credential: "old sessions die with the old credential"; update_user: suspending
\* "terminates active sessions".  A pair still accepted after such a request completed
\* belongs to a session opened later with the current password, unless a request that
\* carried the session ran into the admin's, or a check of it was skipped because Redis
\* did not answer.
RevocationEndsSessions ==
    \A q \in Requests :
        Accepted(q) /\ (pair[q].opened < ended \/ pair[q].password < account.password)
            => pair[q].crossed \/ pair[q].slipped

\* refresh and logout: a token whose revocation came before the request that presents it
\* obtains nothing, neither a new pair nor an answer, unless the denylist could not be
\* read or the token was in its last second.
RevokedTokensObtainNothing ==
    \A r \in Requests :
        request[r].late /\ request[r].at \in {"issued", "served"} => request[r].slipped
=============================================================================
