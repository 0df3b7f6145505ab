---------------------------- MODULE SessionsProofs ----------------------------
(***************************************************************************)
(* Proofs about Sessions, for every finite number of requests and admin     *)
(* requests and every number of faults: the types, what a revoked token can  *)
(* still obtain, and which sessions outlive a request that ended them.       *)
(***************************************************************************)
EXTENDS Sessions, FiniteSetTheorems, TLAPS

RequestAt == {"unsent", "presented", "listed", "known", "allowed", "granted", "half",
              "issued", "served", "refused"}
RequestRecord ==
    [at : RequestAt, kind : Kinds \cup {None}, of : Requests \cup {None},
     late : BOOLEAN, crossed : BOOLEAN, slipped : BOOLEAN]
AdminRecord ==
    [at : {"unmade", "loaded", "stamped", "bumped", "done"},
     kind : AdminKinds \cup {None}, active : BOOLEAN, stamp : Nat]
PairRecord ==
    [iat : Nat, opened : Nat, password : Nat, crossed : BOOLEAN, slipped : BOOLEAN]

\* The types without their bounds, which are counted in CountInv.
TypeInv ==
    /\ account \in [active : BOOLEAN, password : Nat]
    /\ epoch \in Nat /\ ended \in Nat /\ now \in Nat \ {0}
    /\ denied \subseteq Tokens /\ revoked \subseteq Tokens
    /\ life \in [Tokens -> {"valid", "last second", "expired"}]
    /\ pair \in [Requests -> PairRecord]
    /\ request \in [Requests -> RequestRecord]
    /\ admin \in [Admins -> AdminRecord]
    /\ faults \in 0..MaxFaults

\* A request that carries a token carries an issued one; a pair is issued once.
CarriedInv ==
    /\ \A q \in Requests : Issued(q) => request[q].at = "issued"
    /\ \A r \in Requests :
         request[r].at \in {"presented", "listed", "known", "allowed", "half"}
           \/ (request[r].at = "granted" /\ request[r].kind # "login")
         => /\ request[r].kind \in Kinds \ {"login"}
            /\ request[r].of \in Requests /\ Issued(request[r].of)
    /\ \A r \in Requests : request[r].at = "granted" => request[r].kind \in {"login", "refresh"}

\* Every instant that was handed out is before now.
ClockInv ==
    /\ epoch < now /\ ended < now
    /\ \A q \in Requests : pair[q].iat < now /\ pair[q].opened < now
    /\ \A a \in Admins : admin[a].stamp < now
    /\ \A a \in Admins : admin[a].at \notin {"stamped", "bumped"} => admin[a].stamp = 0

\* The token a request carries.
TokenOf(r) == <<TypeFor(request[r].kind), request[r].of>>

\* A revoked token is on the denylist to its last second, so a request that came with one
\* has passed the denylist only by a slip.
DenyInv ==
    /\ \A t \in revoked : life[t] = "valid" => t \in denied
    /\ \A r \in Requests : request[r].late =>
         /\ request[r].at \notin {"unsent", "refused"}
         /\ IF request[r].at = "presented" THEN TokenOf(r) \in revoked
                                          ELSE request[r].slipped

\* No admin was ending sessions while a request or pair that is not marked as crossed was
\* under way: what ends sessions now began after the pair was issued, and once the epoch
\* is set the pair is older than it.
Clean(q) == Issued(q) /\ ~pair[q].crossed
CrossInv ==
    /\ \A r \in Requests : InFlight(r) /\ ~request[r].crossed => ~Ending
    /\ \A q \in Requests, a \in Admins :
         Clean(q) /\ admin[a].at \in {"stamped", "bumped"} => pair[q].iat < admin[a].stamp
    /\ \A q \in Requests, a \in Admins :
         Clean(q) /\ admin[a].at = "bumped" => pair[q].iat < epoch

\* A pair that neither crossed an admin's request nor slipped through a check, and is not
\* older than the epoch, belongs to a session opened since the last end, with the current
\* password; so does what a refresh under way will issue.
Sound(q) == Clean(q) /\ ~pair[q].slipped
SoundInv ==
    /\ \A q \in Requests : Sound(q) /\ epoch <= pair[q].iat =>
         ended < pair[q].opened /\ pair[q].password = account.password
    /\ \A r \in Requests :
         /\ request[r].at \in {"allowed", "granted"} /\ request[r].kind = "refresh"
         /\ ~request[r].crossed /\ ~request[r].slipped /\ Sound(request[r].of)
         => epoch <= pair[request[r].of].iat
    /\ \A r \in Requests :
         request[r].at = "granted" /\ request[r].kind = "login" /\ ~request[r].crossed
         => pair[r].password = account.password

\* Every instant is that of a pair or a stamp, every password but the first of a reset.
CountInv ==
    /\ now <= 1 + Cardinality({q \in Requests : Issued(q)})
                + Cardinality({a \in Admins : admin[a].at \in {"stamped", "bumped", "done"}})
    /\ account.password <= Cardinality({a \in Admins : admin[a].at = "done"})
    /\ \A q \in Requests : pair[q].password <= account.password

SessionsInv ==
    TypeInv /\ CarriedInv /\ ClockInv /\ DenyInv /\ CrossInv /\ SoundInv /\ CountInv

-----------------------------------------------------------------------------
(* What the requests of a client do to their own state.                    *)

\* A request that goes on, and one that a check has marked besides.
OnTo(q, at) == [q EXCEPT !.at = at]
Marked(q, at, slip) == [q EXCEPT !.at = at, !.slipped = slip]

\* Both are states of a request, with these fields.
LEMMA OnToFields ==
    ASSUME NEW q \in RequestRecord, NEW at \in RequestAt
    PROVE  /\ OnTo(q, at) \in RequestRecord
           /\ OnTo(q, at).at = at /\ OnTo(q, at).kind = q.kind
           /\ OnTo(q, at).of = q.of /\ OnTo(q, at).late = q.late
           /\ OnTo(q, at).crossed = q.crossed /\ OnTo(q, at).slipped = q.slipped
BY DEF RequestRecord, OnTo

\* The marked one has the mark.
LEMMA MarkedFields ==
    ASSUME NEW q \in RequestRecord, NEW at \in RequestAt, NEW slip \in BOOLEAN
    PROVE  /\ Marked(q, at, slip) \in RequestRecord
           /\ Marked(q, at, slip).at = at /\ Marked(q, at, slip).kind = q.kind
           /\ Marked(q, at, slip).of = q.of /\ Marked(q, at, slip).late = q.late
           /\ Marked(q, at, slip).crossed = q.crossed
           /\ Marked(q, at, slip).slipped = slip
BY DEF RequestRecord, Marked

\* The request moves and the others stay; a mark may be added.
Moved(r, at, slip) ==
    /\ request' \in [Requests -> RequestRecord]
    /\ \A o \in Requests \ {r} : request'[o] = request[o]
    /\ request'[r].at = at /\ request'[r].slipped = slip
    /\ request'[r].kind = request[r].kind /\ request'[r].of = request[r].of
    /\ request'[r].late = request[r].late /\ request'[r].crossed = request[r].crossed

\* The request is over without an answer.
Refused(r) ==
    /\ request' \in [Requests -> RequestRecord]
    /\ \A o \in Requests \ {r} : request'[o] = request[o]
    /\ request'[r].at = "refused" /\ request'[r].late = FALSE

\* Goto moves a request.
LEMMA GotoMoves ==
    ASSUME TypeInv, NEW r \in Requests, NEW at \in RequestAt, Goto(r, at)
    PROVE  Moved(r, at, request[r].slipped)
<1>1. request[r] \in RequestRecord /\ request \in [Requests -> RequestRecord]
  BY DEF TypeInv
<1>2. request' = [request EXCEPT ![r] = OnTo(request[r], at)]
  BY <1>1 DEF Goto, OnTo
<1>4. OnTo(request[r], at) \in RequestRecord
  BY <1>1, OnToFields
<1>3. request' \in [Requests -> RequestRecord] /\ request'[r] = OnTo(request[r], at)
      /\ \A o \in Requests \ {r} : request'[o] = request[o]
  BY <1>1, <1>2, <1>4
<1>5. /\ OnTo(request[r], at).at = at /\ OnTo(request[r], at).kind = request[r].kind
      /\ OnTo(request[r], at).of = request[r].of /\ OnTo(request[r], at).late = request[r].late
      /\ OnTo(request[r], at).crossed = request[r].crossed
      /\ OnTo(request[r], at).slipped = request[r].slipped
  BY <1>1, OnToFields
<1> QED
  BY <1>3, <1>5 DEF Moved

\* So does a check, which may mark it.
LEMMA MarkMoves ==
    ASSUME TypeInv, NEW r \in Requests, NEW at \in RequestAt, NEW slip \in BOOLEAN,
           request' = [request EXCEPT ![r].at = at, ![r].slipped = slip]
    PROVE  Moved(r, at, slip)
<1>1. request[r] \in RequestRecord /\ request \in [Requests -> RequestRecord]
  BY DEF TypeInv
<1>2. request' = [request EXCEPT ![r] = Marked(request[r], at, slip)]
  <2>1. [request EXCEPT ![r].at = at, ![r].slipped = slip]
          = [[request EXCEPT ![r] = [@ EXCEPT !.at = at]] EXCEPT ![r] = [@ EXCEPT !.slipped = slip]]
    OBVIOUS
  <2>2. [request EXCEPT ![r] = [@ EXCEPT !.at = at]][r] = [request[r] EXCEPT !.at = at]
    BY <1>1
  <2>3. Marked(request[r], at, slip) = [[request[r] EXCEPT !.at = at] EXCEPT !.slipped = slip]
    BY DEF Marked
  <2>4. \A x, y : [[request EXCEPT ![r] = x] EXCEPT ![r] = y] = [request EXCEPT ![r] = y]
    BY <1>1
  <2> QED
    BY <1>1, <2>1, <2>2, <2>3, <2>4
<1>4. Marked(request[r], at, slip) \in RequestRecord
  BY <1>1, MarkedFields
<1>3. request' \in [Requests -> RequestRecord] /\ request'[r] = Marked(request[r], at, slip)
      /\ \A o \in Requests \ {r} : request'[o] = request[o]
  BY <1>1, <1>2, <1>4
<1>5. /\ Marked(request[r], at, slip).at = at /\ Marked(request[r], at, slip).kind = request[r].kind
      /\ Marked(request[r], at, slip).of = request[r].of /\ Marked(request[r], at, slip).late = request[r].late
      /\ Marked(request[r], at, slip).crossed = request[r].crossed
      /\ Marked(request[r], at, slip).slipped = slip
  BY <1>1, MarkedFields
<1> QED
  BY <1>3, <1>5 DEF Moved

\* Refuse ends it.
LEMMA RefuseEnds ==
    ASSUME TypeInv, NEW r \in Requests, Refuse(r)
    PROVE  Refused(r)
<1>1. Over \in RequestRecord /\ Over.at = "refused" /\ Over.late = FALSE
  BY DEF Over, Unsent, RequestRecord, RequestAt
<1> QED
  BY <1>1 DEF Refuse, Refused, TypeInv

-----------------------------------------------------------------------------
(* Steps of a request that neither issue a pair nor open a session.         *)

\* What the invariant asks of a request that carries a token.
Carries(r) ==
    /\ request'[r].at \in {"presented", "listed", "known", "allowed", "granted", "half",
                           "served"}
    /\ request'[r].kind \in Kinds \ {"login"}
    /\ request'[r].of \in Requests /\ Issued(request'[r].of)
    /\ request'[r].at = "granted" => request'[r].kind = "refresh"
    /\ ~request'[r].crossed /\ request'[r].at # "served" => ~Ending
    /\ request'[r].late =>
         IF request'[r].at = "presented"
         THEN <<TypeFor(request'[r].kind), request'[r].of>> \in revoked'
         ELSE request'[r].slipped
    /\ /\ request'[r].at \in {"allowed", "granted"} /\ request'[r].kind = "refresh"
       /\ ~request'[r].crossed /\ ~request'[r].slipped /\ Sound(request'[r].of)
       => epoch <= pair[request'[r].of].iat

Rest == <<account, epoch, life, pair, admin, now, ended>>

\* The denylist still holds what was revoked.
Denies ==
    /\ denied' \subseteq Tokens /\ revoked' \subseteq Tokens /\ revoked \subseteq revoked'
    /\ \A t \in revoked' : life[t] = "valid" => t \in denied'

\* Only the request, the denylist and the faults change.
Quiet(r) ==
    /\ UNCHANGED Rest
    /\ request' \in [Requests -> RequestRecord]
    /\ \A o \in Requests \ {r} : request'[o] = request[o]
    /\ request[r].at # "issued"
    /\ Denies /\ faults' \in 0..MaxFaults
    /\ Carries(r) \/ (request'[r].at = "refused" /\ request'[r].late = FALSE)

\* A quiet step keeps the invariant.
LEMMA QuietKeeps ==
    ASSUME SessionsInv, NEW r \in Requests, Quiet(r)
    PROVE  SessionsInv'
<1>1. /\ account' = account /\ epoch' = epoch /\ life' = life /\ pair' = pair
      /\ admin' = admin /\ now' = now /\ ended' = ended
  BY DEF Quiet, Rest
<1>2. /\ request' \in [Requests -> RequestRecord]
      /\ \A o \in Requests \ {r} : request'[o] = request[o]
      /\ request[r].at # "issued"
      /\ Denies /\ faults' \in 0..MaxFaults
      /\ Carries(r) \/ (request'[r].at = "refused" /\ request'[r].late = FALSE)
  BY DEF Quiet
<1>3. (\A q \in Requests : Issued(q)' = Issued(q)) /\ Ending' = Ending
  BY <1>1 DEF Issued, Ending
<1>4. (\A q \in Requests : Clean(q)' = Clean(q) /\ Sound(q)' = Sound(q))
  BY <1>1, <1>3 DEF Clean, Sound
<1>5. TypeInv'
  BY <1>1, <1>2 DEF SessionsInv, TypeInv, Denies
<1>6. CarriedInv'
  <2>1. ASSUME NEW q \in Requests, Issued(q)' PROVE request'[q].at = "issued"
    BY <2>1, <1>2, <1>3 DEF SessionsInv, CarriedInv
  <2>2. ASSUME NEW o \in Requests,
               request'[o].at \in {"presented", "listed", "known", "allowed", "half"}
                 \/ (request'[o].at = "granted" /\ request'[o].kind # "login")
        PROVE  /\ request'[o].kind \in Kinds \ {"login"}
               /\ request'[o].of \in Requests /\ Issued(request'[o].of)
    <3>1. CASE o = r
      BY <2>2, <3>1, <1>2 DEF Carries
    <3>2. CASE o # r
      BY <2>2, <3>2, <1>2 DEF SessionsInv, CarriedInv
    <3> QED
      BY <3>1, <3>2
  <2>3. \A o \in Requests : request'[o].at = "granted" => request'[o].kind \in {"login", "refresh"}
    BY <1>2 DEF SessionsInv, CarriedInv, Carries
  <2> QED
    BY <2>1, <2>2, <2>3, <1>3 DEF CarriedInv
<1>7. ClockInv'
  BY <1>1 DEF SessionsInv, ClockInv
<1>8. DenyInv'
  <2>1. \A t \in revoked' : life'[t] = "valid" => t \in denied'
    BY <1>1, <1>2 DEF Denies
  <2>2. ASSUME NEW o \in Requests, request'[o].late
        PROVE  /\ request'[o].at \notin {"unsent", "refused"}
               /\ IF request'[o].at = "presented" THEN TokenOf(o)' \in revoked'
                                                 ELSE request'[o].slipped
    <3>1. CASE o = r
      BY <2>2, <3>1, <1>2 DEF Carries, TokenOf, TypeFor
    <3>2. CASE o # r
      <4>1. request'[o] = request[o] /\ TokenOf(o)' = TokenOf(o) /\ revoked \subseteq revoked'
        BY <3>2, <1>2 DEF TokenOf, Denies, TypeFor
      <4> QED
        BY <2>2, <4>1 DEF SessionsInv, DenyInv
    <3> QED
      BY <3>1, <3>2
  <2> QED
    BY <2>1, <2>2 DEF DenyInv
<1>9. CrossInv'
  <2>1. ASSUME NEW o \in Requests, InFlight(o)', ~request'[o].crossed PROVE ~Ending
    <3>1. CASE o = r
      BY <2>1, <3>1, <1>2 DEF Carries, InFlight
    <3>2. CASE o # r
      BY <2>1, <3>2, <1>2 DEF SessionsInv, CrossInv, InFlight
    <3> QED
      BY <3>1, <3>2
  <2>2. /\ \A q \in Requests, a \in Admins :
             Clean(q)' /\ admin'[a].at \in {"stamped", "bumped"} => pair'[q].iat < admin'[a].stamp
        /\ \A q \in Requests, a \in Admins :
             Clean(q)' /\ admin'[a].at = "bumped" => pair'[q].iat < epoch'
    BY <1>1, <1>4 DEF SessionsInv, CrossInv
  <2> QED
    BY <2>1, <2>2, <1>3 DEF CrossInv
<1>10. SoundInv'
  <2>1. \A q \in Requests : Sound(q)' /\ epoch' <= pair'[q].iat =>
           ended' < pair'[q].opened /\ pair'[q].password = account'.password
    BY <1>1, <1>4 DEF SessionsInv, SoundInv
  <2>2. ASSUME NEW o \in Requests,
               request'[o].at \in {"allowed", "granted"}, request'[o].kind = "refresh",
               ~request'[o].crossed, ~request'[o].slipped, Sound(request[o].of)'
        PROVE  epoch' <= pair'[request'[o].of].iat
    <3>1. Sound(request'[o].of)
      BY <2>2, <1>1 DEF Sound, Clean, Issued
    <3>2. CASE o = r
      BY <2>2, <3>1, <3>2, <1>1, <1>2 DEF Carries
    <3>3. CASE o # r
      BY <2>2, <3>1, <3>3, <1>1, <1>2 DEF SessionsInv, SoundInv
    <3> QED
      BY <3>2, <3>3
  <2>3. ASSUME NEW o \in Requests,
               request'[o].at = "granted", request'[o].kind = "login", ~request'[o].crossed
        PROVE  pair'[o].password = account'.password
    <3>1. o # r
      BY <2>3, <1>2 DEF Carries
    <3> QED
      BY <2>3, <3>1, <1>1, <1>2 DEF SessionsInv, SoundInv
  <2> QED
    BY <2>1, <2>2, <2>3 DEF SoundInv
<1>11. CountInv'
  BY <1>1, <1>3 DEF SessionsInv, CountInv, Issued
<1> QED
  BY <1>5, <1>6, <1>7, <1>8, <1>9, <1>10, <1>11 DEF SessionsInv

\* A request that carries a token moves quietly when it has passed the denylist or is
\* marked, and has compared a refresh token with the epoch or is marked.
LEMMA MovesQuietly ==
    ASSUME SessionsInv, NEW r \in Requests, NEW slip \in BOOLEAN,
           NEW at \in {"listed", "known", "allowed", "granted", "half", "served"},
           Moved(r, at, slip), UNCHANGED Rest, Denies, faults' \in 0..MaxFaults,
           request[r].at \in {"presented", "listed", "known", "allowed", "half"},
           IF request[r].at = "presented" THEN request[r].late => slip
                                          ELSE request[r].slipped => slip,
           at = "granted" => request[r].kind = "refresh",
           at \in {"allowed", "granted"} /\ request[r].kind = "refresh"
             => request[r].at = "allowed" \/ slip \/ epoch <= pair[request[r].of].iat
    PROVE  Quiet(r)
<1>1. /\ request[r].kind \in Kinds \ {"login"}
      /\ request[r].of \in Requests /\ Issued(request[r].of)
  BY DEF SessionsInv, CarriedInv
<1>2. /\ request'[r].at = at /\ request'[r].slipped = slip
      /\ request'[r].kind = request[r].kind /\ request'[r].of = request[r].of
      /\ request'[r].late = request[r].late /\ request'[r].crossed = request[r].crossed
  BY DEF Moved
<1>3. ~request[r].crossed => ~Ending
  BY DEF SessionsInv, CrossInv, InFlight
<1>4. request[r].late => slip
  <2>1. ASSUME request[r].late, request[r].at # "presented" PROVE request[r].slipped
    BY <2>1 DEF SessionsInv, DenyInv
  <2> QED
    BY <2>1
<1>5. request[r].at = "allowed" /\ request[r].kind = "refresh" /\ ~request[r].crossed
        /\ ~request[r].slipped /\ Sound(request[r].of)
      => epoch <= pair[request[r].of].iat
  BY DEF SessionsInv, SoundInv
<1>6. at \in {"allowed", "granted"} /\ request[r].kind = "refresh"
        /\ ~request[r].crossed /\ ~slip /\ Sound(request[r].of)
      => epoch <= pair[request[r].of].iat
  <2>1. CASE request[r].at = "allowed"
    BY <1>5, <2>1
  <2>2. CASE request[r].at # "allowed"
    BY <2>2
  <2> QED
    BY <2>1, <2>2
<1>7. Carries(r)
  BY <1>1, <1>2, <1>3, <1>4, <1>6 DEF Carries
<1>8. /\ request' \in [Requests -> RequestRecord]
      /\ \A o \in Requests \ {r} : request'[o] = request[o]
  BY DEF Moved
<1>9. request[r].at # "issued"
  OBVIOUS
<1> QED
  BY <1>7, <1>8, <1>9 DEF Quiet

\* So does a request that is refused.
LEMMA RefusedQuietly ==
    ASSUME NEW r \in Requests, Refused(r), UNCHANGED Rest, Denies,
           faults' \in 0..MaxFaults, request[r].at # "issued"
    PROVE  Quiet(r)
BY DEF Refused, Quiet

\* What was revoked stays on the denylist, with what is revoked now or without.
LEMMA RevokeDenies ==
    ASSUME SessionsInv, NEW t \in Tokens, Revoke(t)
    PROVE  Denies
BY DEF Revoke, Denies, SessionsInv, TypeInv, DenyInv

\* Nothing is revoked by the other steps.
LEMMA StillDenies ==
    ASSUME SessionsInv, UNCHANGED <<denied, revoked>>
    PROVE  Denies
BY DEF Denies, SessionsInv, TypeInv, DenyInv

\* The token of a request that carries one.
LEMMA TokenOfIsToken ==
    ASSUME SessionsInv, NEW r \in Requests,
           request[r].at \in {"presented", "listed", "known", "allowed", "half"}
    PROVE  TokenOf(r) \in Tokens /\ <<"access", request[r].of>> \in Tokens
           /\ <<"refresh", request[r].of>> \in Tokens
BY DEF SessionsInv, CarriedInv, TokenOf, TypeFor, Tokens

\* A fault that is allowed is within the bound.
LEMMA ReadsCounts ==
    ASSUME SessionsInv, NEW ok \in MayFail, Reads(ok)
    PROVE  faults' \in 0..MaxFaults /\ ok \in BOOLEAN
<1>0. faults \in 0..MaxFaults
  BY DEF SessionsInv, TypeInv
<1>1. faults \in Nat /\ MaxFaults \in Nat /\ faults <= MaxFaults
  BY <1>0, SessionsAssumption
<1>2. CASE ok
  BY <1>1, <1>2 DEF Reads, MayFail
<1>3. CASE ~ok
  BY <1>1, <1>3 DEF Reads, MayFail
<1> QED
  BY <1>2, <1>3

\* A request comes with an issued token.
LEMMA PresentIsQuiet ==
    ASSUME SessionsInv, NEW r \in Requests, NEW q \in Requests,
           NEW kind \in Kinds \ {"login"}, NEW type \in {"access", "refresh"},
           Present(r, q, kind, type)
    PROVE  Quiet(r)
<1>1. /\ request[r].at = "unsent" /\ Issued(q) /\ UNCHANGED Rest
      /\ UNCHANGED <<denied, revoked>> /\ faults' = faults
  BY DEF Present, Rest, redis
<1>2. Denies /\ faults' \in 0..MaxFaults
  BY <1>1, StillDenies DEF SessionsInv, TypeInv
<1>3. CASE Refuse(r)
  BY <1>1, <1>2, <1>3, RefuseEnds, RefusedQuietly DEF SessionsInv
<1>4. CASE ~Refuse(r)
  <2> DEFINE me == [at |-> "presented", kind |-> kind, of |-> q,
                    late |-> <<type, q>> \in revoked, crossed |-> Ending, slipped |-> FALSE]
  <2>1. request' = [request EXCEPT ![r] = me] /\ type = TypeFor(kind)
    BY <1>4 DEF Present
  <2>2. Ending \in BOOLEAN
    BY DEF Ending
  <2>3. me \in RequestRecord
    BY <2>2 DEF RequestRecord, RequestAt
  <2>4. /\ me.at = "presented" /\ me.kind = kind /\ me.of = q
        /\ me.late = (<<type, q>> \in revoked) /\ me.crossed = Ending
    OBVIOUS
  <2> HIDE DEF me
  <2>5. request \in [Requests -> RequestRecord]
    BY DEF SessionsInv, TypeInv
  <2>6. /\ request' \in [Requests -> RequestRecord] /\ request'[r] = me
        /\ \A o \in Requests \ {r} : request'[o] = request[o]
    BY <2>1, <2>3, <2>5
  <2>7. request'[r].late => <<TypeFor(request'[r].kind), request'[r].of>> \in revoked'
    BY <1>1, <2>1, <2>4, <2>6
  <2>8. Carries(r)
    BY <1>1, <2>4, <2>6, <2>7 DEF Carries
  <2> QED
    BY <1>1, <1>2, <2>6, <2>8 DEF Quiet
<1> QED
  BY <1>3, <1>4

\* The denylist marks a token it let pass without knowing.
LEMMA CheckDenylistIsQuiet ==
    ASSUME SessionsInv, NEW r \in Requests, CheckDenylist(r)
    PROVE  Quiet(r)
<1>1. /\ request[r].at = "presented" /\ UNCHANGED Rest /\ UNCHANGED <<denied, revoked>>
  BY DEF CheckDenylist, Rest, redis
<1>2. Denies
  BY <1>1, StillDenies
<1> DEFINE t == TokenOf(r)
<1>3. PICK ok \in MayFail :
         /\ Reads(ok)
         /\ IF ok /\ t \in denied
            THEN Refuse(r)
            ELSE request' = [request EXCEPT ![r].at = "listed",
                                            ![r].slipped = ~ok \/ life[t] # "valid"]
  BY DEF CheckDenylist, TokenOf
<1>4. faults' \in 0..MaxFaults /\ ok \in BOOLEAN
  BY <1>3, ReadsCounts
<1>5. CASE ok /\ t \in denied
  BY <1>1, <1>2, <1>3, <1>4, <1>5, RefuseEnds, RefusedQuietly DEF SessionsInv
<1>6. CASE ~(ok /\ t \in denied)
  <2> DEFINE slip == ~ok \/ life[t] # "valid"
  <2>1. slip \in BOOLEAN /\ "listed" \in RequestAt
    BY DEF RequestAt
  <2>2. Moved(r, "listed", slip)
    BY <1>3, <1>6, <2>1, MarkMoves DEF SessionsInv
  <2>3. request[r].late => slip
    <3>1. request[r].late => t \in revoked
      BY <1>1 DEF SessionsInv, DenyInv
    <3>2. t \in revoked /\ life[t] = "valid" => t \in denied
      BY DEF SessionsInv, DenyInv
    <3> QED
      BY <1>6, <3>1, <3>2
  <2> HIDE DEF slip
  <2> QED
    BY <1>1, <1>2, <1>4, <2>1, <2>2, <2>3, MovesQuietly
<1> QED
  BY <1>5, <1>6

\* The account decides, and nothing is marked.
LEMMA CheckUserIsQuiet ==
    ASSUME SessionsInv, NEW r \in Requests, CheckUser(r)
    PROVE  Quiet(r)
<1>1. /\ request[r].at = "listed" /\ UNCHANGED Rest /\ UNCHANGED <<denied, revoked>>
      /\ faults' = faults
  BY DEF CheckUser, Rest, redis
<1>2. Denies /\ faults' \in 0..MaxFaults
  BY <1>1, StillDenies DEF SessionsInv, TypeInv
<1>3. CASE Refuse(r)
  BY <1>1, <1>2, <1>3, RefuseEnds, RefusedQuietly DEF SessionsInv
<1>4. CASE Goto(r, "known")
  <2>1. request[r].slipped \in BOOLEAN /\ "known" \in RequestAt
    BY DEF RequestAt, SessionsInv, TypeInv, RequestRecord
  <2>2. Moved(r, "known", request[r].slipped)
    BY <1>4, <2>1, GotoMoves DEF SessionsInv
  <2> QED
    BY <1>1, <1>2, <2>1, <2>2, MovesQuietly
<1> QED
  BY <1>3, <1>4 DEF CheckUser

\* The epoch is compared, or its token is marked.
LEMMA CheckEpochIsQuiet ==
    ASSUME SessionsInv, NEW r \in Requests, CheckEpoch(r)
    PROVE  Quiet(r)
<1>1. /\ request[r].at = "known" /\ UNCHANGED Rest /\ UNCHANGED <<denied, revoked>>
  BY DEF CheckEpoch, Rest, redis
<1>2. Denies
  BY <1>1, StillDenies
<1> DEFINE at == IF request[r].kind = "call" THEN "served" ELSE "allowed"
<1>3. PICK ok \in MayFail :
         /\ Reads(ok)
         /\ IF ok /\ pair[request[r].of].iat < epoch
            THEN Refuse(r)
            ELSE request' = [request EXCEPT ![r].at = at, ![r].slipped = @ \/ ~ok]
  BY DEF CheckEpoch
<1>4. faults' \in 0..MaxFaults /\ ok \in BOOLEAN
  BY <1>3, ReadsCounts
<1>5. CASE ok /\ pair[request[r].of].iat < epoch
  BY <1>1, <1>2, <1>3, <1>4, <1>5, RefuseEnds, RefusedQuietly DEF SessionsInv
<1>6. CASE ~(ok /\ pair[request[r].of].iat < epoch)
  <2> DEFINE slip == request[r].slipped \/ ~ok
  <2>1. request \in [Requests -> RequestRecord] /\ request[r] \in RequestRecord
    BY DEF SessionsInv, TypeInv
  <2>2. slip \in BOOLEAN /\ at \in RequestAt /\ at \in {"allowed", "served"}
    BY DEF RequestAt
  <2>3. request' = [request EXCEPT ![r].at = at, ![r].slipped = slip]
    <3>1. request' = [request EXCEPT ![r].at = at, ![r].slipped = @ \/ ~ok]
      BY <1>3, <1>6
    <3>2. [request EXCEPT ![r].at = at][r].slipped = request[r].slipped
      BY <2>1 DEF RequestRecord
    <3> HIDE DEF at
    <3>3. [request EXCEPT ![r].at = at, ![r].slipped = @ \/ ~ok]
            = [request EXCEPT ![r].at = at,
                  ![r].slipped = [request EXCEPT ![r].at = at][r].slipped \/ ~ok]
      OBVIOUS
    <3> QED
      BY <3>1, <3>2, <3>3
  <2>4. request[r].slipped => slip
    OBVIOUS
  <2>5. slip \/ epoch <= pair[request[r].of].iat
    <3>1. request[r].of \in Requests
      BY <1>1 DEF SessionsInv, CarriedInv
    <3>2. pair[request[r].of].iat \in Nat /\ epoch \in Nat
      BY <3>1 DEF SessionsInv, TypeInv, PairRecord
    <3> QED
      BY <1>6, <3>2
  <2> HIDE DEF slip, at
  <2>6. Moved(r, at, slip)
    BY <2>2, <2>3, MarkMoves DEF SessionsInv
  <2> QED
    BY <1>1, <1>2, <1>4, <2>2, <2>4, <2>5, <2>6, MovesQuietly
<1> QED
  BY <1>5, <1>6

\* A rotation denies the refresh token it was shown.
LEMMA RotateIsQuiet ==
    ASSUME SessionsInv, NEW r \in Requests, Rotate(r)
    PROVE  Quiet(r)
<1>1. /\ request[r].at = "allowed" /\ request[r].kind = "refresh" /\ Goto(r, "granted")
      /\ UNCHANGED Rest /\ faults' = faults /\ Revoke(<<"refresh", request[r].of>>)
  BY DEF Rotate, Rest
<1>2. <<"refresh", request[r].of>> \in Tokens
  BY <1>1, TokenOfIsToken
<1>3. Denies /\ faults' \in 0..MaxFaults
  BY <1>1, <1>2, RevokeDenies DEF SessionsInv, TypeInv
<1>4. request[r].slipped \in BOOLEAN /\ "granted" \in RequestAt
  BY DEF RequestAt, SessionsInv, TypeInv, RequestRecord
<1>5. Moved(r, "granted", request[r].slipped)
  BY <1>1, <1>4, GotoMoves DEF SessionsInv
<1> QED
  BY <1>1, <1>3, <1>4, <1>5, MovesQuietly

\* A logout denies its access token.
LEMMA RevokeAccessIsQuiet ==
    ASSUME SessionsInv, NEW r \in Requests, RevokeAccess(r)
    PROVE  Quiet(r)
<1>1. /\ request[r].at = "allowed" /\ request[r].kind = "logout"
      /\ UNCHANGED Rest /\ faults' = faults /\ Revoke(<<"access", request[r].of>>)
  BY DEF RevokeAccess, Rest
<1>2. <<"access", request[r].of>> \in Tokens
  BY <1>1, TokenOfIsToken
<1>3. Denies /\ faults' \in 0..MaxFaults
  BY <1>1, <1>2, RevokeDenies DEF SessionsInv, TypeInv
<1>4. PICK at \in {"half", "served"} : Goto(r, at)
  BY DEF RevokeAccess
<1>5. request[r].slipped \in BOOLEAN /\ at \in RequestAt
  BY DEF RequestAt, SessionsInv, TypeInv, RequestRecord
<1>6. Moved(r, at, request[r].slipped)
  BY <1>4, <1>5, GotoMoves DEF SessionsInv
<1> QED
  BY <1>1, <1>3, <1>4, <1>5, <1>6, MovesQuietly

\* And then the refresh token of its cookie.
LEMMA RevokeCookieIsQuiet ==
    ASSUME SessionsInv, NEW r \in Requests, RevokeCookie(r)
    PROVE  Quiet(r)
<1>1. /\ request[r].at = "half" /\ Goto(r, "served")
      /\ UNCHANGED Rest /\ faults' = faults /\ Revoke(<<"refresh", request[r].of>>)
  BY DEF RevokeCookie, Rest
<1>2. <<"refresh", request[r].of>> \in Tokens
  BY <1>1, TokenOfIsToken
<1>3. Denies /\ faults' \in 0..MaxFaults
  BY <1>1, <1>2, RevokeDenies DEF SessionsInv, TypeInv
<1>4. request[r].slipped \in BOOLEAN /\ "served" \in RequestAt
  BY DEF RequestAt, SessionsInv, TypeInv, RequestRecord
<1>5. Moved(r, "served", request[r].slipped)
  BY <1>1, <1>4, GotoMoves DEF SessionsInv
<1> QED
  BY <1>1, <1>3, <1>4, <1>5, MovesQuietly

\* A write that raises ends the request.
LEMMA WriteFailsIsQuiet ==
    ASSUME SessionsInv, NEW r \in Requests, WriteFails(r)
    PROVE  Quiet(r)
<1>1. /\ request[r].at \in {"half", "allowed"} /\ Refuse(r) /\ UNCHANGED Rest
      /\ UNCHANGED <<denied, revoked>> /\ faults < MaxFaults /\ faults' = faults + 1
  BY DEF WriteFails, Rest, redis
<1>2. faults \in 0..MaxFaults /\ MaxFaults \in Nat
  BY SessionsAssumption DEF SessionsInv, TypeInv
<1>3. faults' \in 0..MaxFaults
  BY <1>1, <1>2
<1>4. Denies /\ Refused(r)
  BY <1>1, StillDenies, RefuseEnds DEF SessionsInv
<1> QED
  BY <1>1, <1>3, <1>4, RefusedQuietly

-----------------------------------------------------------------------------
(* A login and the pair it or a refresh is answered with.                   *)

\* A login that is granted, and the password its session will have.
GrantedLogin == [Unsent EXCEPT !.at = "granted", !.kind = "login", !.crossed = Ending]
WithPassword(p, q) == [p EXCEPT !.password = q]

\* The login as the state of a request.
LEMMA GrantedLoginFields ==
    /\ GrantedLogin \in RequestRecord
    /\ GrantedLogin.at = "granted" /\ GrantedLogin.kind = "login"
    /\ GrantedLogin.late = FALSE /\ GrantedLogin.slipped = FALSE
    /\ GrantedLogin.crossed = Ending
<1>1. Ending \in BOOLEAN
  BY DEF Ending
<1> QED
  BY <1>1 DEF GrantedLogin, Unsent, RequestRecord, RequestAt, Kinds

\* The pair before it is issued.
LEMMA WithPasswordFields ==
    ASSUME NEW p \in PairRecord, NEW q \in Nat
    PROVE  /\ WithPassword(p, q) \in PairRecord /\ WithPassword(p, q).password = q
           /\ WithPassword(p, q).iat = p.iat /\ WithPassword(p, q).opened = p.opened
           /\ WithPassword(p, q).crossed = p.crossed /\ WithPassword(p, q).slipped = p.slipped
BY DEF WithPassword, PairRecord

\* A login is granted to the password of the account, or refused.
LEMMA LoginKeeps ==
    ASSUME SessionsInv, NEW r \in Requests, Login(r)
    PROVE  SessionsInv'
<1>1. PICK p \in 0..account.password :
         IF p = account.password /\ account.active
         THEN /\ request' = [request EXCEPT ![r] = GrantedLogin]
              /\ pair' = [pair EXCEPT ![r].password = p]
         ELSE Refuse(r) /\ UNCHANGED pair
  BY DEF Login, GrantedLogin
<1>2. /\ request[r].at = "unsent" /\ account' = account /\ epoch' = epoch
      /\ denied' = denied /\ life' = life /\ admin' = admin /\ now' = now
      /\ faults' = faults /\ revoked' = revoked /\ ended' = ended
  BY DEF Login, redis
<1>3. CASE ~(p = account.password /\ account.active)
  <2>1. Denies /\ faults' \in 0..MaxFaults
    BY <1>2, StillDenies DEF SessionsInv, TypeInv
  <2>2. UNCHANGED Rest /\ Refused(r)
    BY <1>1, <1>2, <1>3, RefuseEnds DEF Rest, SessionsInv
  <2> QED
    BY <1>2, <2>1, <2>2, RefusedQuietly, QuietKeeps
<1>4. CASE p = account.password /\ account.active
  <2>1. /\ TypeInv /\ request \in [Requests -> RequestRecord]
        /\ pair \in [Requests -> PairRecord] /\ p \in Nat
    BY <1>4 DEF SessionsInv, TypeInv
  <2>2. pair' = [pair EXCEPT ![r] = WithPassword(pair[r], p)]
    BY <1>1, <1>4, <2>1 DEF WithPassword
  <2>3. WithPassword(pair[r], p) \in PairRecord
    BY <2>1, WithPasswordFields
  <2>4. /\ WithPassword(pair[r], p).password = p
        /\ WithPassword(pair[r], p).iat = pair[r].iat
        /\ WithPassword(pair[r], p).opened = pair[r].opened
        /\ WithPassword(pair[r], p).crossed = pair[r].crossed
        /\ WithPassword(pair[r], p).slipped = pair[r].slipped
    BY <2>1, WithPasswordFields
  <2>5. /\ pair' \in [Requests -> PairRecord] /\ pair'[r].password = p
        /\ \A q \in Requests \ {r} : pair'[q] = pair[q]
        /\ \A q \in Requests : pair'[q].iat = pair[q].iat /\ pair'[q].opened = pair[q].opened
        /\ \A q \in Requests : /\ pair'[q].crossed = pair[q].crossed
                               /\ pair'[q].slipped = pair[q].slipped
    BY <2>1, <2>2, <2>3, <2>4
  <2>6. /\ request' \in [Requests -> RequestRecord]
        /\ \A o \in Requests \ {r} : request'[o] = request[o]
        /\ request'[r].at = "granted" /\ request'[r].kind = "login"
        /\ request'[r].late = FALSE /\ request'[r].crossed = Ending
    BY <1>1, <1>4, <2>1, GrantedLoginFields
  <2>7. /\ \A q \in Requests : Issued(q)' = Issued(q)
        /\ \A q \in Requests : Clean(q)' = Clean(q)
        /\ \A q \in Requests : Sound(q)' = Sound(q)
        /\ Ending' = Ending
    BY <1>2, <2>5 DEF Issued, Clean, Sound, Ending
  <2>8. ~Issued(r)
    BY <1>2 DEF SessionsInv, CarriedInv
  <2>9. TypeInv'
    BY <1>2, <2>5, <2>6 DEF SessionsInv, TypeInv
  <2>10. CarriedInv'
    <3>1. \A q \in Requests : Issued(q)' => request'[q].at = "issued"
      BY <2>6, <2>7, <2>8 DEF SessionsInv, CarriedInv
    <3>2. ASSUME NEW o \in Requests,
                 request'[o].at \in {"presented", "listed", "known", "allowed", "half"}
                   \/ (request'[o].at = "granted" /\ request'[o].kind # "login")
          PROVE  /\ request'[o].kind \in Kinds \ {"login"}
                 /\ request'[o].of \in Requests /\ Issued(request[o].of)'
      <4>1. o # r
        BY <3>2, <2>6
      <4>2. request'[o] = request[o]
        BY <4>1, <2>6
      <4>3. /\ request[o].kind \in Kinds \ {"login"}
            /\ request[o].of \in Requests /\ Issued(request[o].of)
        BY <3>2, <4>2 DEF SessionsInv, CarriedInv
      <4> QED
        BY <4>2, <4>3, <2>5 DEF Issued
    <3>3. \A o \in Requests : request'[o].at = "granted" => request'[o].kind \in {"login", "refresh"}
      BY <2>6 DEF SessionsInv, CarriedInv
    <3> QED
      BY <3>1, <3>2, <3>3 DEF CarriedInv
  <2>11. ClockInv'
    BY <1>2, <2>5 DEF SessionsInv, ClockInv
  <2>12. DenyInv'
    <3>1. \A t \in revoked' : life'[t] = "valid" => t \in denied'
      BY <1>2 DEF SessionsInv, DenyInv
    <3>2. ASSUME NEW o \in Requests, request'[o].late
          PROVE  /\ request'[o].at \notin {"unsent", "refused"}
                 /\ IF request'[o].at = "presented" THEN TokenOf(o)' \in revoked'
                                                   ELSE request'[o].slipped
      <4>1. o # r
        BY <3>2, <2>6
      <4>2. request'[o] = request[o] /\ TokenOf(o)' = TokenOf(o)
        BY <4>1, <2>6 DEF TokenOf, TypeFor
      <4> QED
        BY <3>2, <4>2, <1>2 DEF SessionsInv, DenyInv
    <3> QED
      BY <3>1, <3>2 DEF DenyInv
  <2>13. CrossInv'
    <3>1. \A o \in Requests : InFlight(o)' /\ ~request'[o].crossed => ~Ending'
      BY <2>6, <2>7 DEF SessionsInv, CrossInv, InFlight
    <3>2. /\ \A q \in Requests, a \in Admins :
               Clean(q)' /\ admin'[a].at \in {"stamped", "bumped"} => pair'[q].iat < admin'[a].stamp
          /\ \A q \in Requests, a \in Admins :
               Clean(q)' /\ admin'[a].at = "bumped" => pair'[q].iat < epoch'
      BY <1>2, <2>5, <2>7 DEF SessionsInv, CrossInv
    <3> QED
      BY <3>1, <3>2 DEF CrossInv
  <2>14. SoundInv'
    <3>1. ASSUME NEW q \in Requests, Sound(q)', epoch' <= pair'[q].iat
          PROVE  ended' < pair'[q].opened /\ pair'[q].password = account'.password
      <4>1. Sound(q) /\ q # r
        BY <3>1, <2>7, <2>8 DEF Sound, Clean
      <4> QED
        BY <3>1, <4>1, <1>2, <2>5 DEF SessionsInv, SoundInv
    <3>2. ASSUME NEW o \in Requests,
                 request'[o].at \in {"allowed", "granted"}, request'[o].kind = "refresh",
                 ~request'[o].crossed, ~request'[o].slipped, Sound(request[o].of)'
          PROVE  epoch' <= pair'[request'[o].of].iat
      <4>1. request'[o] = request[o]
        BY <3>2, <2>6
      <4>2. request[o].of \in Requests
        BY <3>2, <4>1 DEF SessionsInv, CarriedInv
      <4>3. Sound(request[o].of)
        BY <3>2, <4>1, <4>2, <2>5 DEF Sound, Clean, Issued
      <4>4. epoch <= pair[request[o].of].iat
        BY <3>2, <4>1, <4>3 DEF SessionsInv, SoundInv
      <4> QED
        BY <4>1, <4>2, <4>4, <1>2, <2>5
    <3>3. ASSUME NEW o \in Requests,
                 request'[o].at = "granted", request'[o].kind = "login", ~request'[o].crossed
          PROVE  pair'[o].password = account'.password
      <4>1. CASE o = r
        BY <4>1, <1>2, <1>4, <2>5
      <4>2. CASE o # r
        BY <3>3, <4>2, <1>2, <2>5, <2>6 DEF SessionsInv, SoundInv
      <4> QED
        BY <4>1, <4>2
    <3> QED
      BY <3>1, <3>2, <3>3 DEF SoundInv
  <2>15. CountInv'
    <3>1. {q \in Requests : Issued(q)}' = {q \in Requests : Issued(q)}
      BY <2>7
    <3>2. p <= account.password
      BY <1>4, <2>1
    <3>3. \A q \in Requests : pair'[q].password <= account'.password
      BY <3>2, <1>2, <2>5 DEF SessionsInv, CountInv
    <3> QED
      BY <3>1, <3>3, <1>2 DEF SessionsInv, CountInv
  <2> QED
    BY <2>9, <2>10, <2>11, <2>12, <2>13, <2>14, <2>15 DEF SessionsInv
<1> QED
  BY <1>3, <1>4

\* The pair a granted request is answered with.
NewPair(r) ==
    IF request[r].kind = "login"
    THEN [iat |-> now, opened |-> now, password |-> pair[r].password,
          crossed |-> request[r].crossed, slipped |-> FALSE]
    ELSE [iat |-> now, opened |-> pair[request[r].of].opened,
          password |-> pair[request[r].of].password,
          crossed |-> request[r].crossed \/ pair[request[r].of].crossed,
          slipped |-> request[r].slipped \/ pair[request[r].of].slipped]

\* It is issued now, to a session not older than now, with a password the account has had;
\* when it neither crossed an end of sessions nor slipped, its session is a sound one.
LEMMA NewPairFields ==
    ASSUME SessionsInv, NEW r \in Requests, request[r].at = "granted"
    PROVE  /\ NewPair(r) \in PairRecord /\ NewPair(r).iat = now
           /\ NewPair(r).opened <= now /\ NewPair(r).password <= account.password
           /\ ~NewPair(r).crossed => ~request[r].crossed
           /\ ~NewPair(r).crossed /\ ~NewPair(r).slipped =>
                ended < NewPair(r).opened /\ NewPair(r).password = account.password
<1>1. /\ request[r] \in RequestRecord /\ now \in Nat /\ pair[r] \in PairRecord
      /\ account.password \in Nat /\ pair[r].password \in Nat
      /\ request[r].crossed \in BOOLEAN /\ request[r].slipped \in BOOLEAN
      /\ ended < now
      /\ pair[r].password <= account.password
  BY DEF SessionsInv, TypeInv, RequestRecord, PairRecord, ClockInv, CountInv
<1>2. CASE request[r].kind = "login"
  <2>1. NewPair(r) = [iat |-> now, opened |-> now, password |-> pair[r].password,
                      crossed |-> request[r].crossed, slipped |-> FALSE]
    BY <1>2 DEF NewPair
  <2>2. ~request[r].crossed => pair[r].password = account.password
    BY <1>2 DEF SessionsInv, SoundInv
  <2>3. NewPair(r) \in PairRecord
    BY <1>1, <2>1 DEF PairRecord
  <2> QED
    BY <1>1, <2>1, <2>2, <2>3
<1>3. CASE request[r].kind # "login"
  <2> DEFINE q == request[r].of
  <2>1. q \in Requests /\ Issued(q) /\ request[r].kind = "refresh"
    BY <1>3 DEF SessionsInv, CarriedInv
  <2>2. /\ pair[q].opened \in Nat /\ pair[q].password \in Nat /\ pair[q].iat \in Nat
        /\ pair[q].crossed \in BOOLEAN /\ pair[q].slipped \in BOOLEAN
        /\ pair[q].opened < now /\ pair[q].password <= account.password
    BY <2>1 DEF SessionsInv, TypeInv, PairRecord, ClockInv, CountInv
  <2>3. ~request[r].crossed /\ ~request[r].slipped /\ Sound(q) => epoch <= pair[q].iat
    BY <2>1 DEF SessionsInv, SoundInv
  <2>4. ~request[r].crossed /\ ~request[r].slipped /\ ~pair[q].crossed /\ ~pair[q].slipped
        => ended < pair[q].opened /\ pair[q].password = account.password
    BY <2>1, <2>3 DEF SessionsInv, SoundInv, Sound, Clean
  <2>5. NewPair(r) = [iat |-> now, opened |-> pair[q].opened, password |-> pair[q].password,
                      crossed |-> request[r].crossed \/ pair[q].crossed,
                      slipped |-> request[r].slipped \/ pair[q].slipped]
    BY <1>3 DEF NewPair
  <2> HIDE DEF q
  <2>6. NewPair(r) \in PairRecord
    BY <1>1, <2>2, <2>5 DEF PairRecord
  <2>7. /\ NewPair(r).iat = now /\ NewPair(r).opened = pair[q].opened
        /\ NewPair(r).password = pair[q].password
        /\ NewPair(r).crossed = (request[r].crossed \/ pair[q].crossed)
        /\ NewPair(r).slipped = (request[r].slipped \/ pair[q].slipped)
    BY <2>5
  <2> QED
    BY <1>1, <2>2, <2>4, <2>6, <2>7
<1> QED
  BY <1>2, <1>3

\* A granted request is answered with it.
LEMMA IssuePairKeeps ==
    ASSUME SessionsInv, NEW r \in Requests, IssuePair(r)
    PROVE  SessionsInv'
<1>1. /\ request[r].at = "granted" /\ account' = account /\ epoch' = epoch
      /\ denied' = denied /\ life' = life /\ admin' = admin /\ now' = now + 1
      /\ faults' = faults /\ revoked' = revoked /\ ended' = ended
      /\ Goto(r, "issued") /\ pair' = [pair EXCEPT ![r] = NewPair(r)]
  BY DEF IssuePair, redis, NewPair, SessionsInv, TypeInv
<1>2. /\ NewPair(r) \in PairRecord /\ NewPair(r).iat = now
      /\ NewPair(r).opened <= now /\ NewPair(r).password <= account.password
      /\ ~NewPair(r).crossed => ~request[r].crossed
      /\ ~NewPair(r).crossed /\ ~NewPair(r).slipped =>
           ended < NewPair(r).opened /\ NewPair(r).password = account.password
  BY <1>1, NewPairFields
<1>3. /\ pair' \in [Requests -> PairRecord] /\ pair'[r] = NewPair(r)
      /\ \A q \in Requests \ {r} : pair'[q] = pair[q]
  BY <1>1, <1>2 DEF SessionsInv, TypeInv
<1>4. Moved(r, "issued", request[r].slipped)
  BY <1>1, GotoMoves DEF SessionsInv, RequestAt
<1>5. /\ request' \in [Requests -> RequestRecord]
      /\ \A o \in Requests \ {r} : request'[o] = request[o]
      /\ request'[r].at = "issued" /\ request'[r].slipped = request[r].slipped
      /\ request'[r].late = request[r].late
  BY <1>4 DEF Moved
<1>6. /\ now \in Nat \ {0} /\ epoch \in Nat /\ ended \in Nat /\ account.password \in Nat
      /\ \A q \in Requests : /\ pair[q].iat \in Nat /\ pair[q].opened \in Nat
                             /\ pair[q].password \in Nat
      /\ \A a \in Admins : admin[a].stamp \in Nat
      /\ NewPair(r).opened \in Nat /\ NewPair(r).password \in Nat
  BY <1>2 DEF SessionsInv, TypeInv, PairRecord, AdminRecord
<1>7. /\ ~Issued(r) /\ Issued(r)'
      /\ \A q \in Requests \ {r} : Issued(q)' = Issued(q)
      /\ \A q \in Requests \ {r} : Clean(q)' = Clean(q)
      /\ \A q \in Requests \ {r} : Sound(q)' = Sound(q)
      /\ Ending' = Ending
  <2>1. ~Issued(r)
    BY <1>1 DEF SessionsInv, CarriedInv
  <2>2. Issued(r)'
    BY <1>2, <1>3, <1>6 DEF Issued
  <2>3. Ending' = Ending
    BY <1>1 DEF Ending
  <2> QED
    BY <1>3, <2>1, <2>2, <2>3 DEF Issued, Clean, Sound
<1>9. TypeInv'
  <2>1. now' \in Nat \ {0}
    BY <1>1, <1>6
  <2> QED
    BY <1>1, <1>3, <1>5, <2>1 DEF SessionsInv, TypeInv
\* The requests that carry a token are others, and so are their tokens' pairs.
<1>8. ASSUME NEW o \in Requests,
             request'[o].at \in {"presented", "listed", "known", "allowed", "half"}
               \/ (request'[o].at = "granted" /\ request'[o].kind # "login")
      PROVE  /\ request'[o] = request[o] /\ o # r /\ request[o].of \in Requests \ {r}
             /\ request[o].kind \in Kinds \ {"login"}
             /\ Issued(request[o].of) /\ pair'[request[o].of] = pair[request[o].of]
  <2>1. request'[o] = request[o] /\ o # r
    BY <1>5, <1>8
  <2>2. /\ request[o].kind \in Kinds \ {"login"}
        /\ request[o].of \in Requests /\ Issued(request[o].of)
    BY <1>8, <2>1 DEF SessionsInv, CarriedInv
  <2> QED
    BY <2>1, <2>2, <1>3, <1>7
<1>10. CarriedInv'
  <2>1. \A q \in Requests : Issued(q)' => request'[q].at = "issued"
    BY <1>5, <1>7 DEF SessionsInv, CarriedInv
  <2>2. ASSUME NEW o \in Requests,
               request'[o].at \in {"presented", "listed", "known", "allowed", "half"}
                 \/ (request'[o].at = "granted" /\ request'[o].kind # "login")
        PROVE  /\ request'[o].kind \in Kinds \ {"login"}
               /\ request'[o].of \in Requests /\ Issued(request[o].of)'
    BY <1>8, <2>2 DEF Issued
  <2>3. \A o \in Requests : request'[o].at = "granted" => request'[o].kind \in {"login", "refresh"}
    BY <1>5 DEF SessionsInv, CarriedInv
  <2> QED
    BY <2>1, <2>2, <2>3 DEF CarriedInv
<1>11. ClockInv'
  <2>1. /\ epoch < now /\ ended < now
        /\ \A q \in Requests : pair[q].iat < now /\ pair[q].opened < now
        /\ \A a \in Admins : admin[a].stamp < now
        /\ \A a \in Admins : admin[a].at \notin {"stamped", "bumped"} => admin[a].stamp = 0
    BY DEF SessionsInv, ClockInv
  <2>2. epoch' < now' /\ ended' < now'
    BY <1>1, <1>6, <2>1
  <2>3. \A a \in Admins : admin'[a].stamp < now'
    BY <1>1, <1>6, <2>1
  <2>4. ASSUME NEW q \in Requests PROVE pair'[q].iat < now' /\ pair'[q].opened < now'
    <3>1. CASE q = r
      BY <1>1, <1>2, <1>3, <1>6, <3>1
    <3>2. CASE q # r
      BY <1>1, <1>3, <1>6, <2>1, <3>2
    <3> QED
      BY <3>1, <3>2
  <2> QED
    BY <1>1, <2>1, <2>2, <2>3, <2>4 DEF ClockInv
<1>12. DenyInv'
  <2>1. \A t \in revoked' : life'[t] = "valid" => t \in denied'
    BY <1>1 DEF SessionsInv, DenyInv
  <2>2. ASSUME NEW o \in Requests, request'[o].late
        PROVE  /\ request'[o].at \notin {"unsent", "refused"}
               /\ IF request'[o].at = "presented" THEN TokenOf(o)' \in revoked'
                                                 ELSE request'[o].slipped
    <3>1. CASE o = r
      BY <2>2, <3>1, <1>1, <1>5 DEF SessionsInv, DenyInv
    <3>2. CASE o # r
      <4>1. request'[o] = request[o] /\ TokenOf(o)' = TokenOf(o)
        BY <3>2, <1>5 DEF TokenOf, TypeFor
      <4> QED
        BY <2>2, <4>1, <1>1 DEF SessionsInv, DenyInv
    <3> QED
      BY <3>1, <3>2
  <2> QED
    BY <2>1, <2>2 DEF DenyInv
<1>13. CrossInv'
  <2>1. \A o \in Requests : InFlight(o)' /\ ~request'[o].crossed => ~Ending'
    BY <1>5, <1>7 DEF SessionsInv, CrossInv, InFlight
  <2>2. Clean(r)' => \A a \in Admins : admin'[a].at \notin {"stamped", "bumped"}
    BY <1>1, <1>2, <1>3 DEF SessionsInv, CrossInv, InFlight, Clean, Ending
  <2>3. /\ \A q \in Requests, a \in Admins :
             Clean(q)' /\ admin'[a].at \in {"stamped", "bumped"} => pair'[q].iat < admin'[a].stamp
        /\ \A q \in Requests, a \in Admins :
             Clean(q)' /\ admin'[a].at = "bumped" => pair'[q].iat < epoch'
    BY <1>1, <1>3, <1>7, <2>2 DEF SessionsInv, CrossInv
  <2> QED
    BY <2>1, <2>3 DEF CrossInv
<1>14. SoundInv'
  <2>1. ASSUME NEW q \in Requests, Sound(q)', epoch' <= pair'[q].iat
        PROVE  ended' < pair'[q].opened /\ pair'[q].password = account'.password
    <3>1. CASE q = r
      BY <2>1, <3>1, <1>1, <1>2, <1>3 DEF Sound, Clean
    <3>2. CASE q # r
      BY <2>1, <3>2, <1>1, <1>3, <1>7 DEF SessionsInv, SoundInv
    <3> QED
      BY <3>1, <3>2
  <2>2. ASSUME NEW o \in Requests,
               request'[o].at \in {"allowed", "granted"}, request'[o].kind = "refresh",
               ~request'[o].crossed, ~request'[o].slipped, Sound(request[o].of)'
        PROVE  epoch' <= pair'[request'[o].of].iat
    <3>1. /\ request'[o] = request[o] /\ request[o].of \in Requests
          /\ pair'[request[o].of] = pair[request[o].of]
      BY <1>8, <2>2
    <3>2. Sound(request[o].of)
      BY <2>2, <3>1 DEF Sound, Clean, Issued
    <3>3. epoch <= pair[request[o].of].iat
      BY <2>2, <3>1, <3>2 DEF SessionsInv, SoundInv
    <3> QED
      BY <3>1, <3>3, <1>1
  <2>3. \A o \in Requests :
          request'[o].at = "granted" /\ request'[o].kind = "login" /\ ~request'[o].crossed
          => pair'[o].password = account'.password
    BY <1>1, <1>3, <1>5 DEF SessionsInv, SoundInv
  <2> QED
    BY <2>1, <2>2, <2>3 DEF SoundInv
<1>15. CountInv'
  <2> DEFINE S == {q \in Requests : Issued(q)}
             D == {a \in Admins : admin[a].at \in {"stamped", "bumped", "done"}}
  <2>1. IsFiniteSet(S) /\ r \notin S /\ IsFiniteSet(D)
    BY <1>7, FS_Subset, SessionsAssumption
  <2>2. Cardinality(S \cup {r}) = Cardinality(S) + 1
    BY <2>1, FS_AddElement
  <2>3. {q \in Requests : Issued(q)}' = S \cup {r}
    BY <1>7
  <2>4. Cardinality(S) \in Nat /\ Cardinality(D) \in Nat
    BY <2>1, FS_CardinalityType
  <2>5. now <= 1 + Cardinality(S) + Cardinality(D)
    BY DEF SessionsInv, CountInv
  <2>6. {a \in Admins : admin[a].at \in {"stamped", "bumped", "done"}}' = D
    BY <1>1
  <2> HIDE DEF S, D
  <2>7. now + 1 <= 1 + (Cardinality(S) + 1) + Cardinality(D)
    BY <2>4, <2>5, <1>6
  <2>8. now' <= 1 + Cardinality({q \in Requests : Issued(q)}')
               + Cardinality({a \in Admins : admin[a].at \in {"stamped", "bumped", "done"}}')
    BY <1>1, <2>2, <2>3, <2>6, <2>7
  <2>9. account'.password <= Cardinality({a \in Admins : admin'[a].at = "done"})
    BY <1>1 DEF SessionsInv, CountInv
  <2>10. \A q \in Requests : pair'[q].password <= account'.password
    BY <1>1, <1>2, <1>3 DEF SessionsInv, CountInv
  <2> QED
    BY <2>8, <2>9, <2>10 DEF CountInv
<1> QED
  BY <1>9, <1>10, <1>11, <1>12, <1>13, <1>14, <1>15 DEF SessionsInv

-----------------------------------------------------------------------------
(* The steps of the admin and of time.                                      *)

\* What carries tokens, and what is revoked, is left alone by most of them.
LEMMA PairsStand ==
    ASSUME SessionsInv, UNCHANGED <<denied, life, pair, request, revoked>>
    PROVE  /\ CarriedInv' /\ DenyInv'
           /\ \A q \in Requests : Issued(q)' = Issued(q)
           /\ \A q \in Requests : Clean(q)' = Clean(q) /\ Sound(q)' = Sound(q)
           /\ \A r \in Requests : InFlight(r)' = InFlight(r)
<1>1. CarriedInv'
  BY DEF SessionsInv, CarriedInv, Issued
<1>2. DenyInv'
  BY DEF SessionsInv, DenyInv, TokenOf, TypeFor
<1> QED
  BY <1>1, <1>2 DEF Issued, Clean, Sound, InFlight

\* The admin's request moves and the others stay.
LEMMA AdminMoves ==
    ASSUME SessionsInv, NEW a \in Admins, NEW rec \in AdminRecord,
           admin' = [admin EXCEPT ![a] = rec]
    PROVE  /\ admin' \in [Admins -> AdminRecord] /\ admin'[a] = rec
           /\ \A b \in Admins \ {a} : admin'[b] = admin[b]
BY DEF SessionsInv, TypeInv

\* The instants and the resets that were counted, when one more is.
LEMMA OneMore ==
    ASSUME NEW S \in SUBSET Admins, NEW a \in Admins \ S
    PROVE  /\ Cardinality(S) \in Nat /\ Cardinality(S \cup {a}) = Cardinality(S) + 1
BY SessionsAssumption, FS_Subset, FS_CardinalityType, FS_AddElement

\* An admin's request loads the account: nothing else moves.
LEMMA LoadUserKeeps ==
    ASSUME SessionsInv, NEW a \in Admins, NEW kind \in AdminKinds, LoadUser(a, kind)
    PROVE  SessionsInv'
<1> DEFINE rec == [at |-> "loaded", kind |-> kind, active |-> account.active, stamp |-> 0]
<1>1. /\ admin[a].at = "unmade" /\ account' = account /\ epoch' = epoch
      /\ denied' = denied /\ life' = life /\ pair' = pair /\ request' = request
      /\ now' = now /\ faults' = faults /\ revoked' = revoked /\ ended' = ended
      /\ admin' = [admin EXCEPT ![a] = rec]
  BY DEF LoadUser, redis
<1>2. rec \in AdminRecord /\ rec.at = "loaded" /\ rec.stamp = 0
  BY DEF AdminRecord, SessionsInv, TypeInv
<1> HIDE DEF rec
<1>3. /\ admin' \in [Admins -> AdminRecord] /\ admin'[a] = rec
      /\ \A b \in Admins \ {a} : admin'[b] = admin[b]
  BY <1>1, <1>2, AdminMoves
<1>4. /\ CarriedInv' /\ DenyInv'
      /\ \A q \in Requests : Issued(q)' = Issued(q)
      /\ \A q \in Requests : Clean(q)' = Clean(q) /\ Sound(q)' = Sound(q)
      /\ \A r \in Requests : InFlight(r)' = InFlight(r)
  BY <1>1, PairsStand
<1>5. TypeInv'
  BY <1>1, <1>3 DEF SessionsInv, TypeInv
<1>6. ClockInv'
  <2>1. now \in Nat \ {0}
    BY DEF SessionsInv, TypeInv
  <2> QED
    BY <1>1, <1>2, <1>3, <2>1 DEF SessionsInv, ClockInv
<1>7. Ending' = Ending
  BY <1>1, <1>2, <1>3 DEF Ending
<1>8. CrossInv'
  BY <1>1, <1>2, <1>3, <1>4, <1>7 DEF SessionsInv, CrossInv
<1>9. SoundInv'
  BY <1>1, <1>4 DEF SessionsInv, SoundInv, Sound, Clean, Issued
<1>10. CountInv'
  <2>1. {b \in Admins : admin[b].at \in {"stamped", "bumped", "done"}}'
          = {b \in Admins : admin[b].at \in {"stamped", "bumped", "done"}}
    BY <1>1, <1>2, <1>3
  <2>2. {b \in Admins : admin[b].at = "done"}' = {b \in Admins : admin[b].at = "done"}
    BY <1>1, <1>2, <1>3
  <2>3. {q \in Requests : Issued(q)}' = {q \in Requests : Issued(q)}
    BY <1>4
  <2> QED
    BY <1>1, <2>1, <2>2, <2>3 DEF SessionsInv, CountInv
<1> QED
  BY <1>4, <1>5, <1>6, <1>8, <1>9, <1>10 DEF SessionsInv

\* The time is taken: every request under way has crossed it.
LEMMA StampEpochKeeps ==
    ASSUME SessionsInv, NEW a \in Admins, StampEpoch(a)
    PROVE  SessionsInv'
<1> DEFINE rec == [[admin[a] EXCEPT !.at = "stamped"] EXCEPT !.stamp = now]
<1>1. /\ admin[a].at = "loaded" /\ account' = account /\ epoch' = epoch
      /\ denied' = denied /\ life' = life /\ pair' = pair /\ now' = now + 1
      /\ faults' = faults /\ revoked' = revoked /\ ended' = ended
      /\ admin' = [admin EXCEPT ![a].at = "stamped", ![a].stamp = now]
      /\ request' = [r \in Requests |-> [request[r] EXCEPT !.crossed = @ \/ InFlight(r)]]
  BY DEF StampEpoch, redis
<1>2. /\ now \in Nat \ {0} /\ epoch \in Nat /\ ended \in Nat
      /\ admin \in [Admins -> AdminRecord] /\ admin[a] \in AdminRecord
      /\ request \in [Requests -> RequestRecord]
      /\ \A q \in Requests : pair[q].iat \in Nat /\ pair[q].opened \in Nat
      /\ \A b \in Admins : admin[b].stamp \in Nat
  BY DEF SessionsInv, TypeInv, AdminRecord, PairRecord
<1>3. rec \in AdminRecord /\ rec.at = "stamped" /\ rec.stamp = now
  BY <1>2 DEF AdminRecord
<1>4. admin' = [admin EXCEPT ![a] = rec]
  <2>1. [admin EXCEPT ![a].at = "stamped", ![a].stamp = now]
          = [[admin EXCEPT ![a] = [@ EXCEPT !.at = "stamped"]]
               EXCEPT ![a] = [@ EXCEPT !.stamp = now]]
    OBVIOUS
  <2>2. [admin EXCEPT ![a] = [@ EXCEPT !.at = "stamped"]][a] = [admin[a] EXCEPT !.at = "stamped"]
    BY <1>2
  <2>3. \A x, y : [[admin EXCEPT ![a] = x] EXCEPT ![a] = y] = [admin EXCEPT ![a] = y]
    BY <1>2
  <2> QED
    BY <1>1, <2>1, <2>2, <2>3
<1> HIDE DEF rec
<1>5. /\ admin' \in [Admins -> AdminRecord] /\ admin'[a] = rec
      /\ \A b \in Admins \ {a} : admin'[b] = admin[b]
  BY <1>3, <1>4, AdminMoves
<1>6. ASSUME NEW r \in Requests
      PROVE  /\ request'[r] \in RequestRecord
             /\ request'[r].at = request[r].at /\ request'[r].kind = request[r].kind
             /\ request'[r].of = request[r].of /\ request'[r].late = request[r].late
             /\ request'[r].slipped = request[r].slipped
             /\ InFlight(r) => request'[r].crossed
  <2>1. request[r] \in RequestRecord /\ InFlight(r) \in BOOLEAN
        /\ request[r].crossed \in BOOLEAN
    BY <1>2 DEF InFlight, RequestRecord
  <2>2. request'[r] = [request[r] EXCEPT !.crossed = request[r].crossed \/ InFlight(r)]
    BY <1>1
  <2>3. \A c \in BOOLEAN : /\ [request[r] EXCEPT !.crossed = c] \in RequestRecord
                           /\ [request[r] EXCEPT !.crossed = c].at = request[r].at
                           /\ [request[r] EXCEPT !.crossed = c].kind = request[r].kind
                           /\ [request[r] EXCEPT !.crossed = c].of = request[r].of
                           /\ [request[r] EXCEPT !.crossed = c].late = request[r].late
                           /\ [request[r] EXCEPT !.crossed = c].slipped = request[r].slipped
                           /\ [request[r] EXCEPT !.crossed = c].crossed = c
    BY <2>1 DEF RequestRecord
  <2>4. (request[r].crossed \/ InFlight(r)) \in BOOLEAN
    OBVIOUS
  <2> QED
    BY <2>2, <2>3, <2>4
<1>7. request' \in [Requests -> RequestRecord]
  BY <1>1, <1>6
<1>8. /\ \A q \in Requests : Issued(q)' = Issued(q)
      /\ \A q \in Requests : Clean(q)' = Clean(q) /\ Sound(q)' = Sound(q)
      /\ \A r \in Requests : InFlight(r)' = InFlight(r)
  BY <1>1, <1>6 DEF Issued, Clean, Sound, InFlight
<1>9. TypeInv'
  <2>1. now' \in Nat \ {0}
    BY <1>1, <1>2
  <2> QED
    BY <1>1, <1>5, <1>7, <2>1 DEF SessionsInv, TypeInv
<1>10. CarriedInv'
  BY <1>1, <1>6, <1>8 DEF SessionsInv, CarriedInv, Issued
<1>11. ClockInv'
  <2>1. /\ epoch < now /\ ended < now
        /\ \A q \in Requests : pair[q].iat < now /\ pair[q].opened < now
        /\ \A b \in Admins : admin[b].stamp < now
        /\ \A b \in Admins : admin[b].at \notin {"stamped", "bumped"} => admin[b].stamp = 0
    BY DEF SessionsInv, ClockInv
  <2>2. \A x \in Nat : x <= now => x < now + 1
    BY <1>2
  <2>3. epoch' < now' /\ ended' < now' /\ \A q \in Requests : pair'[q].iat < now' /\ pair'[q].opened < now'
    BY <1>1, <1>2, <2>1, <2>2
  <2>4. \A b \in Admins : admin'[b].stamp < now'
    BY <1>1, <1>2, <1>3, <1>5, <2>1, <2>2
  <2>5. \A b \in Admins : admin'[b].at \notin {"stamped", "bumped"} => admin'[b].stamp = 0
    BY <1>3, <1>5, <2>1
  <2> QED
    BY <2>3, <2>4, <2>5 DEF ClockInv
<1>12. DenyInv'
  <2>1. \A t \in revoked' : life'[t] = "valid" => t \in denied'
    BY <1>1 DEF SessionsInv, DenyInv
  <2>2. ASSUME NEW r \in Requests, request'[r].late
        PROVE  /\ request'[r].at \notin {"unsent", "refused"}
               /\ IF request'[r].at = "presented" THEN TokenOf(r)' \in revoked'
                                                  ELSE request'[r].slipped
    <3>1. TokenOf(r)' = TokenOf(r)
      BY <1>6 DEF TokenOf, TypeFor
    <3>2. /\ request[r].at \notin {"unsent", "refused"}
          /\ IF request[r].at = "presented" THEN TokenOf(r) \in revoked ELSE request[r].slipped
      BY <1>6, <2>2 DEF SessionsInv, DenyInv
    <3> QED
      BY <1>1, <1>6, <3>1, <3>2
  <2> QED
    BY <2>1, <2>2 DEF DenyInv
<1>13. CrossInv'
  <2>1. \A r \in Requests : InFlight(r)' /\ ~request'[r].crossed => ~Ending'
    BY <1>6, <1>8
  <2>2. \A q \in Requests : pair[q].iat < now
    BY DEF SessionsInv, ClockInv
  <2>3. /\ \A q \in Requests, b \in Admins :
             Clean(q)' /\ admin'[b].at \in {"stamped", "bumped"} => pair'[q].iat < admin'[b].stamp
        /\ \A q \in Requests, b \in Admins :
             Clean(q)' /\ admin'[b].at = "bumped" => pair'[q].iat < epoch'
    BY <1>1, <1>3, <1>5, <1>8, <2>2 DEF SessionsInv, CrossInv
  <2> QED
    BY <2>1, <2>3 DEF CrossInv
<1>14. SoundInv'
  <2>1. \A r \in Requests : request'[r].at \in {"allowed", "granted"} => request'[r].crossed
    BY <1>6 DEF InFlight
  <2>2. \A q \in Requests : Sound(q)' /\ epoch' <= pair'[q].iat =>
          ended' < pair'[q].opened /\ pair'[q].password = account'.password
    BY <1>1, <1>8 DEF SessionsInv, SoundInv
  <2> QED
    BY <2>1, <2>2 DEF SoundInv
<1>15. CountInv'
  <2> DEFINE S == {q \in Requests : Issued(q)}
             D == {b \in Admins : admin[b].at \in {"stamped", "bumped", "done"}}
  <2>1. a \notin D /\ D \in SUBSET Admins
    BY <1>1
  <2>2. Cardinality(D) \in Nat /\ Cardinality(D \cup {a}) = Cardinality(D) + 1
    BY <2>1, OneMore
  <2>3. {b \in Admins : admin[b].at \in {"stamped", "bumped", "done"}}' = D \cup {a}
    BY <1>3, <1>5
  <2>4. {q \in Requests : Issued(q)}' = S
    BY <1>8
  <2>5. now <= 1 + Cardinality(S) + Cardinality(D)
    BY DEF SessionsInv, CountInv
  <2>6. Cardinality(S) \in Nat
    BY SessionsAssumption, FS_Subset, FS_CardinalityType
  <2>7. {b \in Admins : admin[b].at = "done"}' = {b \in Admins : admin[b].at = "done"}
    BY <1>1, <1>3, <1>5
  <2> HIDE DEF S, D
  <2>8. now + 1 <= 1 + Cardinality(S) + (Cardinality(D) + 1)
    BY <2>2, <2>5, <2>6, <1>2
  <2>9. now' <= 1 + Cardinality({q \in Requests : Issued(q)}')
               + Cardinality({b \in Admins : admin[b].at \in {"stamped", "bumped", "done"}}')
    BY <1>1, <2>2, <2>3, <2>4, <2>8
  <2>10. account'.password <= Cardinality({b \in Admins : admin[b].at = "done"}')
    BY <1>1, <2>7 DEF SessionsInv, CountInv
  <2>11. \A q \in Requests : pair'[q].password <= account'.password
    BY <1>1 DEF SessionsInv, CountInv
  <2> QED
    BY <2>9, <2>10, <2>11 DEF CountInv
<1> QED
  BY <1>9, <1>10, <1>11, <1>12, <1>13, <1>14, <1>15 DEF SessionsInv

\* The epoch is set to the time that was taken: every clean pair is older.
LEMMA SetEpochKeeps ==
    ASSUME SessionsInv, NEW a \in Admins, SetEpoch(a)
    PROVE  SessionsInv'
<1> DEFINE rec == [admin[a] EXCEPT !.at = "bumped"]
<1>1. /\ admin[a].at = "stamped" /\ account' = account /\ epoch' = admin[a].stamp
      /\ denied' = denied /\ life' = life /\ pair' = pair /\ now' = now /\ request' = request
      /\ faults' = faults /\ revoked' = revoked /\ ended' = ended
      /\ admin' = [admin EXCEPT ![a].at = "bumped"]
  BY DEF SetEpoch
<1>2. /\ admin \in [Admins -> AdminRecord] /\ admin[a] \in AdminRecord /\ admin[a].stamp \in Nat
      /\ \A q \in Requests : pair[q].iat \in Nat
  BY DEF SessionsInv, TypeInv, AdminRecord, PairRecord
<1>3. rec \in AdminRecord /\ rec.at = "bumped" /\ rec.stamp = admin[a].stamp
  BY <1>2 DEF AdminRecord
<1>4. admin' = [admin EXCEPT ![a] = rec]
  BY <1>1, <1>2
<1> HIDE DEF rec
<1>5. /\ admin' \in [Admins -> AdminRecord] /\ admin'[a] = rec
      /\ \A b \in Admins \ {a} : admin'[b] = admin[b]
  BY <1>3, <1>4, AdminMoves
<1>6. /\ CarriedInv' /\ DenyInv'
      /\ \A q \in Requests : Issued(q)' = Issued(q)
      /\ \A q \in Requests : Clean(q)' = Clean(q) /\ Sound(q)' = Sound(q)
      /\ \A r \in Requests : InFlight(r)' = InFlight(r)
  BY <1>1, PairsStand
<1>7. TypeInv'
  BY <1>1, <1>2, <1>5 DEF SessionsInv, TypeInv
<1>8. ClockInv'
  BY <1>1, <1>3, <1>5 DEF SessionsInv, ClockInv
<1>9. Ending
  BY <1>1 DEF Ending
<1>10. CrossInv'
  <2>1. \A q \in Requests : Clean(q) => pair[q].iat < admin[a].stamp
    BY <1>1 DEF SessionsInv, CrossInv
  <2>2. \A r \in Requests : InFlight(r)' => request'[r].crossed
    BY <1>1, <1>6, <1>9 DEF SessionsInv, CrossInv
  <2>3. \A q \in Requests, b \in Admins :
          Clean(q)' /\ admin'[b].at \in {"stamped", "bumped"} => pair'[q].iat < admin'[b].stamp
    BY <1>1, <1>3, <1>5, <1>6, <2>1 DEF SessionsInv, CrossInv
  <2>4. \A q \in Requests : Clean(q)' => pair'[q].iat < epoch'
    BY <1>1, <1>6, <2>1
  <2> QED
    BY <2>2, <2>3, <2>4 DEF CrossInv
<1>11. SoundInv'
  <2>1. ASSUME NEW q \in Requests, Sound(q)', epoch' <= pair'[q].iat PROVE FALSE
    <3>1. pair[q].iat < admin[a].stamp
      BY <2>1, <1>1, <1>6 DEF SessionsInv, CrossInv, Sound
    <3> QED
      BY <2>1, <3>1, <1>1, <1>2
  <2>2. \A r \in Requests :
          request'[r].at \in {"allowed", "granted"} => request'[r].crossed
    BY <1>1, <1>9 DEF SessionsInv, CrossInv, InFlight
  <2> QED
    BY <2>1, <2>2 DEF SoundInv
<1>12. CountInv'
  <2>1. {b \in Admins : admin[b].at \in {"stamped", "bumped", "done"}}'
          = {b \in Admins : admin[b].at \in {"stamped", "bumped", "done"}}
    BY <1>1, <1>3, <1>5
  <2>2. {b \in Admins : admin[b].at = "done"}' = {b \in Admins : admin[b].at = "done"}
    BY <1>1, <1>3, <1>5
  <2>3. {q \in Requests : Issued(q)}' = {q \in Requests : Issued(q)}
    BY <1>6
  <2> QED
    BY <1>1, <2>1, <2>2, <2>3 DEF SessionsInv, CountInv
<1> QED
  BY <1>6, <1>7, <1>8, <1>10, <1>11, <1>12 DEF SessionsInv

\* A finished request of the admin.
LEMMA FinishedFields ==
    Finished \in AdminRecord /\ Finished.at = "done" /\ Finished.stamp = 0
BY DEF Finished, Unmade, AdminRecord

\* One more admin request is done: what was counted of them.
LEMMA DoneCounts ==
    ASSUME SessionsInv, NEW a \in Admins, admin[a].at \in {"loaded", "stamped", "bumped"},
           admin'[a] = Finished, \A b \in Admins \ {a} : admin'[b] = admin[b],
           now' = now, \A q \in Requests : Issued(q)' = Issued(q), pair' = pair,
           account'.password \in Nat,
           account.password <= account'.password /\ account'.password <= account.password + 1
    PROVE  CountInv'
<1> DEFINE S == {q \in Requests : Issued(q)}
           D == {b \in Admins : admin[b].at \in {"stamped", "bumped", "done"}}
           E == {b \in Admins : admin[b].at = "done"}
<1>0. now \in Nat /\ account.password \in Nat /\ \A q \in Requests : pair[q].password \in Nat
  BY DEF SessionsInv, TypeInv, PairRecord
<1>1. /\ now <= 1 + Cardinality(S) + Cardinality(D)
      /\ account.password <= Cardinality(E)
      /\ \A q \in Requests : pair[q].password <= account.password
  BY DEF SessionsInv, CountInv
<1>2. Finished.at = "done"
  BY FinishedFields
<1>3. /\ {q \in Requests : Issued(q)}' = S
      /\ {b \in Admins : admin[b].at \in {"stamped", "bumped", "done"}}' = D \cup {a}
      /\ {b \in Admins : admin[b].at = "done"}' = E \cup {a}
  BY <1>2
<1>4. a \notin E /\ E \in SUBSET Admins /\ D \in SUBSET Admins
  OBVIOUS
<1>5. Cardinality(E) \in Nat /\ Cardinality(E \cup {a}) = Cardinality(E) + 1
  BY <1>4, OneMore
<1>6. Cardinality(S) \in Nat
  BY SessionsAssumption, FS_Subset, FS_CardinalityType
<1>7. Cardinality(D) \in Nat /\ Cardinality(D \cup {a}) \in Nat
      /\ Cardinality(D) <= Cardinality(D \cup {a})
  <2>1. CASE a \in D
    <3>1. D \cup {a} = D
      BY <2>1
    <3>2. Cardinality(D) \in Nat
      BY SessionsAssumption, FS_Subset, FS_CardinalityType
    <3> HIDE DEF D
    <3> QED
      BY <3>1, <3>2
  <2>2. CASE a \notin D
    <3>1. Cardinality(D) \in Nat /\ Cardinality(D \cup {a}) = Cardinality(D) + 1
      BY <2>2, <1>4, OneMore
    <3> HIDE DEF D
    <3> QED
      BY <3>1
  <2> QED
    BY <2>1, <2>2
<1> HIDE DEF S, D, E
<1>8. now' <= 1 + Cardinality(S) + Cardinality(D \cup {a})
  BY <1>0, <1>1, <1>6, <1>7
<1>9. account'.password <= Cardinality(E \cup {a})
  BY <1>0, <1>1, <1>5
<1>10. \A q \in Requests : pair'[q].password <= account'.password
  BY <1>0, <1>1
<1> QED
  BY <1>3, <1>8, <1>9, <1>10 DEF CountInv

\* The set raises, and nothing was changed.
LEMMA SetFailsKeeps ==
    ASSUME SessionsInv, NEW a \in Admins, SetFails(a)
    PROVE  SessionsInv'
<1>1. /\ admin[a].at = "stamped" /\ account' = account /\ epoch' = epoch
      /\ denied' = denied /\ life' = life /\ pair' = pair /\ now' = now /\ request' = request
      /\ faults < MaxFaults /\ faults' = faults + 1 /\ revoked' = revoked /\ ended' = ended
      /\ admin' = [admin EXCEPT ![a] = Finished]
  BY DEF SetFails, redis
<1>2. Finished \in AdminRecord /\ Finished.at = "done" /\ Finished.stamp = 0
  BY FinishedFields
<1>3. /\ admin' \in [Admins -> AdminRecord] /\ admin'[a] = Finished
      /\ \A b \in Admins \ {a} : admin'[b] = admin[b]
  BY <1>1, <1>2, AdminMoves
<1>4. /\ CarriedInv' /\ DenyInv'
      /\ \A q \in Requests : Issued(q)' = Issued(q)
      /\ \A q \in Requests : Clean(q)' = Clean(q) /\ Sound(q)' = Sound(q)
      /\ \A r \in Requests : InFlight(r)' = InFlight(r)
  BY <1>1, PairsStand
<1>5. faults' \in 0..MaxFaults
  <2>1. faults \in 0..MaxFaults /\ MaxFaults \in Nat
    BY SessionsAssumption DEF SessionsInv, TypeInv
  <2> QED
    BY <1>1, <2>1
<1>6. TypeInv'
  BY <1>1, <1>3, <1>5 DEF SessionsInv, TypeInv
<1>7. ClockInv'
  <2>1. now \in Nat \ {0}
    BY DEF SessionsInv, TypeInv
  <2> QED
    BY <1>1, <1>2, <1>3, <2>1 DEF SessionsInv, ClockInv
<1>8. Ending' => Ending
  BY <1>1, <1>2, <1>3 DEF Ending
<1>9. CrossInv'
  BY <1>1, <1>2, <1>3, <1>4, <1>8 DEF SessionsInv, CrossInv
<1>10. SoundInv'
  BY <1>1, <1>4 DEF SessionsInv, SoundInv, Sound, Clean, Issued
<1>11. CountInv'
  <2>1. account.password \in Nat
    BY DEF SessionsInv, TypeInv
  <2> QED
    BY <1>1, <1>3, <1>4, <2>1, DoneCounts
<1> QED
  BY <1>4, <1>6, <1>7, <1>9, <1>10, <1>11 DEF SessionsInv

\* The commit: when it ends sessions, no clean pair is accepted any more; when it does not,
\* neither the password nor the last end changes.
LEMMA CommitAdminKeeps ==
    ASSUME SessionsInv, NEW a \in Admins, CommitAdmin(a)
    PROVE  SessionsInv'
<1>1. /\ admin[a].at = IF EndsSessions(a) THEN "bumped" ELSE "loaded"
      /\ epoch' = epoch /\ denied' = denied /\ life' = life /\ pair' = pair
      /\ request' = request /\ now' = now /\ faults' = faults /\ revoked' = revoked
      /\ ended' = IF admin[a].stamp > ended THEN admin[a].stamp ELSE ended
      /\ admin' = [admin EXCEPT ![a] = Finished]
  BY DEF CommitAdmin, redis
<1>2. Finished \in AdminRecord /\ Finished.at = "done" /\ Finished.stamp = 0
  BY FinishedFields
<1>3. /\ admin' \in [Admins -> AdminRecord] /\ admin'[a] = Finished
      /\ \A b \in Admins \ {a} : admin'[b] = admin[b]
  BY <1>1, <1>2, AdminMoves
<1>4. /\ CarriedInv' /\ DenyInv'
      /\ \A q \in Requests : Issued(q)' = Issued(q)
      /\ \A q \in Requests : Clean(q)' = Clean(q) /\ Sound(q)' = Sound(q)
      /\ \A r \in Requests : InFlight(r)' = InFlight(r)
  BY <1>1, PairsStand
<1>5. /\ account \in [active : BOOLEAN, password : Nat] /\ account.password \in Nat
      /\ admin[a].stamp \in Nat /\ ended \in Nat /\ now \in Nat \ {0} /\ epoch \in Nat
      /\ \A q \in Requests : pair[q].iat \in Nat
  BY DEF SessionsInv, TypeInv, AdminRecord, PairRecord
<1>6. /\ account' \in [active : BOOLEAN, password : Nat]
      /\ account'.password \in {account.password, account.password + 1}
      /\ ~EndsSessions(a) => account'.password = account.password
  <2>1. CASE admin[a].kind = "suspend" /\ admin[a].active
    <3>1. account' = [account EXCEPT !.active = FALSE]
      BY <2>1 DEF CommitAdmin
    <3> QED
      BY <3>1, <1>5
  <2>2. CASE admin[a].kind = "reactivate" /\ ~admin[a].active
    <3>1. account' = [account EXCEPT !.active = TRUE]
      BY <2>2 DEF CommitAdmin
    <3> QED
      BY <3>1, <1>5
  <2>3. CASE admin[a].kind = "reset"
    <3>1. account' = [account EXCEPT !.password = @ + 1]
      BY <2>3 DEF CommitAdmin
    <3>2. account' = [account EXCEPT !.password = account.password + 1]
      BY <3>1, <1>5
    <3>3. account.password + 1 \in Nat
      BY <1>5
    <3> QED
      BY <2>3, <3>2, <3>3, <1>5 DEF EndsSessions
  <2>4. CASE /\ ~(admin[a].kind = "suspend" /\ admin[a].active)
             /\ ~(admin[a].kind = "reactivate" /\ ~admin[a].active)
             /\ admin[a].kind # "reset"
    <3>1. account' = account
      BY <2>4 DEF CommitAdmin
    <3> QED
      BY <3>1, <1>5
  <2> QED
    BY <2>1, <2>2, <2>3, <2>4
<1>7. ended' \in Nat /\ ended' < now
  BY <1>1, <1>5 DEF SessionsInv, ClockInv
<1>8. TypeInv'
  BY <1>1, <1>3, <1>6, <1>7 DEF SessionsInv, TypeInv
<1>9. ClockInv'
  BY <1>1, <1>2, <1>3, <1>5, <1>7 DEF SessionsInv, ClockInv
<1>10. Ending' => Ending
  BY <1>1, <1>2, <1>3 DEF Ending
<1>11. CrossInv'
  BY <1>1, <1>2, <1>3, <1>4, <1>10 DEF SessionsInv, CrossInv
<1>12. SoundInv'
  <2>1. CASE EndsSessions(a)
    <3>1. admin[a].at = "bumped" /\ Ending
      BY <1>1, <2>1 DEF Ending
    <3>2. ASSUME NEW q \in Requests, Sound(q)', epoch' <= pair'[q].iat PROVE FALSE
      <4>1. pair[q].iat < epoch
        BY <3>1, <3>2, <1>1, <1>4 DEF SessionsInv, CrossInv, Sound
      <4> QED
        BY <3>2, <4>1, <1>1, <1>5
    <3>3. \A r \in Requests :
            request'[r].at \in {"allowed", "granted"} => request'[r].crossed
      BY <1>1, <3>1 DEF SessionsInv, CrossInv, InFlight
    <3> QED
      BY <3>2, <3>3 DEF SoundInv
  <2>2. CASE ~EndsSessions(a)
    <3>1. admin[a].stamp = 0
      BY <1>1, <2>2 DEF SessionsInv, ClockInv
    <3>2. ended' = ended /\ account'.password = account.password
      BY <1>1, <1>5, <1>6, <2>2, <3>1
    <3>3. \A q \in Requests : Sound(q)' /\ epoch' <= pair'[q].iat =>
            ended' < pair'[q].opened /\ pair'[q].password = account'.password
      BY <1>1, <1>4, <3>2 DEF SessionsInv, SoundInv
    <3>4. \A r \in Requests :
            /\ request'[r].at \in {"allowed", "granted"} /\ request'[r].kind = "refresh"
            /\ ~request'[r].crossed /\ ~request'[r].slipped /\ Sound(request[r].of)'
            => epoch' <= pair'[request'[r].of].iat
      BY <1>1 DEF SessionsInv, SoundInv, Sound, Clean, Issued
    <3>5. \A r \in Requests :
            request'[r].at = "granted" /\ request'[r].kind = "login" /\ ~request'[r].crossed
            => pair'[r].password = account'.password
      BY <1>1, <3>2 DEF SessionsInv, SoundInv
    <3> QED
      BY <3>3, <3>4, <3>5 DEF SoundInv
  <2> QED
    BY <2>1, <2>2
<1>13. CountInv'
  <2>1. account.password <= account'.password /\ account'.password <= account.password + 1
        /\ account'.password \in Nat
    BY <1>5, <1>6
  <2>2. admin[a].at \in {"loaded", "stamped", "bumped"}
    BY <1>1
  <2> QED
    BY <1>1, <1>3, <1>4, <2>1, <2>2, DoneCounts
<1> QED
  BY <1>4, <1>8, <1>9, <1>11, <1>12, <1>13 DEF SessionsInv

\* A denylist key goes only with the last second of its token.
LEMMA AgeKeeps ==
    ASSUME SessionsInv, NEW t \in Tokens, Age(t)
    PROVE  SessionsInv'
<1>1. /\ account' = account /\ epoch' = epoch /\ pair' = pair /\ request' = request
      /\ admin' = admin /\ now' = now /\ faults' = faults /\ revoked' = revoked
      /\ ended' = ended /\ denied' = denied \ {t}
      /\ life' = [life EXCEPT ![t] = IF @ = "valid" THEN "last second" ELSE "expired"]
  BY DEF Age
<1>2. life \in [Tokens -> {"valid", "last second", "expired"}]
  BY DEF SessionsInv, TypeInv
<1>3. /\ life' \in [Tokens -> {"valid", "last second", "expired"}]
      /\ life'[t] # "valid" /\ \A u \in Tokens \ {t} : life'[u] = life[u]
  BY <1>1, <1>2
<1>4. TypeInv'
  BY <1>1, <1>3 DEF SessionsInv, TypeInv
<1>5. /\ \A q \in Requests : Issued(q)' = Issued(q)
      /\ \A q \in Requests : Clean(q)' = Clean(q) /\ Sound(q)' = Sound(q)
      /\ \A r \in Requests : InFlight(r)' = InFlight(r)
      /\ Ending' = Ending
  BY <1>1 DEF Issued, Clean, Sound, InFlight, Ending
<1>6. CarriedInv'
  BY <1>1 DEF SessionsInv, CarriedInv, Issued
<1>7. ClockInv'
  BY <1>1 DEF SessionsInv, ClockInv
<1>8. DenyInv'
  <2>1. revoked \subseteq Tokens
    BY DEF SessionsInv, TypeInv
  <2>2. \A u \in revoked' : life'[u] = "valid" => u \in denied'
    BY <1>1, <1>3, <2>1 DEF SessionsInv, DenyInv
  <2>3. \A r \in Requests : TokenOf(r)' = TokenOf(r)
    BY <1>1 DEF TokenOf, TypeFor
  <2> QED
    BY <1>1, <2>2, <2>3 DEF SessionsInv, DenyInv
<1>9. CrossInv'
  BY <1>1, <1>5 DEF SessionsInv, CrossInv
<1>10. SoundInv'
  BY <1>1, <1>5 DEF SessionsInv, SoundInv, Sound, Clean, Issued
<1>11. CountInv'
  BY <1>1 DEF SessionsInv, CountInv, Issued
<1> QED
  BY <1>4, <1>6, <1>7, <1>8, <1>9, <1>10, <1>11 DEF SessionsInv

-----------------------------------------------------------------------------
(* The theorems.                                                            *)

\* A new account satisfies the invariant.
LEMMA InitSessions ==
    ASSUME Init
    PROVE  SessionsInv
<1>1. NoPair \in PairRecord /\ NoPair.iat = 0 /\ NoPair.opened = 0 /\ NoPair.password = 0
  BY DEF NoPair, PairRecord
<1>2. Unsent \in RequestRecord /\ Unsent.at = "unsent" /\ Unsent.late = FALSE
  BY DEF Unsent, RequestRecord, RequestAt
<1>3. Unmade \in AdminRecord /\ Unmade.at = "unmade" /\ Unmade.stamp = 0
  BY DEF Unmade, AdminRecord
<1> USE DEF Init
<1>4. TypeInv
  BY <1>1, <1>2, <1>3, SessionsAssumption DEF TypeInv
<1>5. \A q \in Requests : ~Issued(q)
  BY <1>1 DEF Issued
<1>6. CarriedInv
  BY <1>2, <1>5 DEF CarriedInv
<1>7. ClockInv
  BY <1>1, <1>3 DEF ClockInv
<1>8. DenyInv
  BY <1>2 DEF DenyInv
<1>9. CrossInv
  BY <1>2, <1>3, <1>5 DEF CrossInv, InFlight, Clean
<1>10. SoundInv
  BY <1>2, <1>5 DEF SoundInv, Sound, Clean
<1>11. CountInv
  <2>1. /\ {q \in Requests : Issued(q)} = {}
        /\ {a \in Admins : admin[a].at \in {"stamped", "bumped", "done"}} = {}
        /\ {a \in Admins : admin[a].at = "done"} = {}
    BY <1>3, <1>5
  <2>2. Cardinality({}) = 0
    BY FS_EmptySet
  <2>3. now = 1 /\ account.password = 0 /\ \A q \in Requests : pair[q].password = 0
    BY <1>1
  <2>4. now <= 1 + Cardinality({}) + Cardinality({}) /\ account.password <= Cardinality({})
    BY <2>2, <2>3
  <2>5. \A q \in Requests : pair[q].password <= account.password
    BY <2>3
  <2> QED
    BY <2>1, <2>4, <2>5 DEF CountInv
<1> QED
  BY <1>4, <1>6, <1>7, <1>8, <1>9, <1>10, <1>11 DEF SessionsInv

\* Every step keeps it.
LEMMA NextSessions ==
    ASSUME SessionsInv, [Next]_vars
    PROVE  SessionsInv'
<1>1. ASSUME NEW r \in Requests, Login(r) PROVE SessionsInv'
  BY <1>1, LoginKeeps
<1>2. ASSUME NEW r \in Requests, NEW q \in Requests, NEW kind \in Kinds \ {"login"},
             NEW type \in {"access", "refresh"}, Present(r, q, kind, type)
      PROVE  SessionsInv'
  BY <1>2, PresentIsQuiet, QuietKeeps
<1>3. ASSUME NEW r \in Requests,
             CheckDenylist(r) \/ CheckUser(r) \/ CheckEpoch(r) \/ Rotate(r)
               \/ RevokeAccess(r) \/ RevokeCookie(r) \/ WriteFails(r)
      PROVE  SessionsInv'
  <2>1. Quiet(r)
    BY <1>3, CheckDenylistIsQuiet, CheckUserIsQuiet, CheckEpochIsQuiet, RotateIsQuiet,
       RevokeAccessIsQuiet, RevokeCookieIsQuiet, WriteFailsIsQuiet
  <2> QED
    BY <2>1, QuietKeeps
<1>4. ASSUME NEW r \in Requests, IssuePair(r) PROVE SessionsInv'
  BY <1>4, IssuePairKeeps
<1>5. ASSUME NEW a \in Admins, NEW kind \in AdminKinds, LoadUser(a, kind) PROVE SessionsInv'
  BY <1>5, LoadUserKeeps
<1>6. ASSUME NEW a \in Admins,
             StampEpoch(a) \/ SetEpoch(a) \/ SetFails(a) \/ CommitAdmin(a)
      PROVE  SessionsInv'
  BY <1>6, StampEpochKeeps, SetEpochKeeps, SetFailsKeeps, CommitAdminKeeps
<1>7. ASSUME NEW t \in Tokens, Age(t) PROVE SessionsInv'
  BY <1>7, AgeKeeps
<1>8. CASE UNCHANGED vars
  BY <1>8 DEF vars, redis, SessionsInv, TypeInv, CarriedInv, ClockInv, DenyInv, CrossInv, SoundInv,
     CountInv, Issued, Clean, Sound, InFlight, Ending, TokenOf, TypeFor
<1> QED
  BY <1>1, <1>2, <1>3, <1>4, <1>5, <1>6, <1>7, <1>8 DEF Next

\* The sessions of an account keep SessionsInv through logins, refreshes, logouts, admin
\* requests, Redis calls that raise and tokens that expire.
THEOREM SessionsInvariant == Spec => []SessionsInv
BY InitSessions, NextSessions, PTL DEF Spec

\* A revoked token (refresh, logout) is denied until its last second, and a request that
\* came with one is marked by the check that let it pass.
THEOREM RevokedObtainNothing == Spec => []RevokedTokensObtainNothing
<1>1. SessionsInv => RevokedTokensObtainNothing
  BY DEF SessionsInv, DenyInv, RevokedTokensObtainNothing
<1> QED
  BY <1>1, SessionsInvariant, PTL

\* A pair that is still accepted after an admin ended the sessions (reset_credential,
\* revoke_sessions, update_user) belongs to a later session with the current password,
\* unless a request that carried it crossed the admin's or a check of it slipped.
THEOREM RevocationEnds == Spec => []RevocationEndsSessions
<1>1. SessionsInv => RevocationEndsSessions
  <2> SUFFICES ASSUME SessionsInv, NEW q \in Requests, Accepted(q),
                      ~pair[q].crossed, ~pair[q].slipped
               PROVE  ~(pair[q].opened < ended) /\ ~(pair[q].password < account.password)
    BY DEF RevocationEndsSessions
  <2>1. /\ epoch \in Nat /\ ended \in Nat /\ account.password \in Nat
        /\ pair[q].iat \in Nat /\ pair[q].opened \in Nat /\ pair[q].password \in Nat
    BY DEF SessionsInv, TypeInv, PairRecord
  <2>2. Sound(q) /\ epoch <= pair[q].iat
    BY <2>1 DEF Accepted, Sound, Clean
  <2>3. ended < pair[q].opened /\ pair[q].password = account.password
    BY <2>2 DEF SessionsInv, SoundInv
  <2> QED
    BY <2>1, <2>3
<1> QED
  BY <1>1, SessionsInvariant, PTL

\* The types with their bounds: no more instants than requests and admin requests, no more
\* passwords than resets.
THEOREM SessionsTypes == Spec => []TypeOK
<1>1. SessionsInv => TypeOK
  <2> SUFFICES ASSUME SessionsInv PROVE TypeOK
    OBVIOUS
  <2> DEFINE S == {q \in Requests : Issued(q)}
             D == {a \in Admins : admin[a].at \in {"stamped", "bumped", "done"}}
             E == {a \in Admins : admin[a].at = "done"}
             N == Cardinality(Requests) + Cardinality(Admins)
  <2>1. /\ S \in SUBSET Requests /\ D \in SUBSET Admins /\ E \in SUBSET Admins
        /\ IsFiniteSet(Requests) /\ IsFiniteSet(Admins)
    BY SessionsAssumption
  <2>2. /\ Cardinality(Requests) \in Nat /\ Cardinality(Admins) \in Nat
        /\ Cardinality(S) \in Nat /\ Cardinality(D) \in Nat /\ Cardinality(E) \in Nat
        /\ Cardinality(S) <= Cardinality(Requests)
        /\ Cardinality(D) <= Cardinality(Admins) /\ Cardinality(E) <= Cardinality(Admins)
    BY <2>1, FS_Subset, FS_CardinalityType
  <2>3. /\ now <= 1 + Cardinality(S) + Cardinality(D)
        /\ account.password <= Cardinality(E)
        /\ \A q \in Requests : pair[q].password <= account.password
    BY DEF SessionsInv, CountInv
  <2> HIDE DEF S, D, E
  <2>4. /\ now \in Nat \ {0} /\ account.password \in Nat
        /\ \A q \in Requests : pair[q].password \in Nat
    BY DEF SessionsInv, TypeInv, PairRecord
  <2>5. N \in Nat /\ now \in 1..(N + 1)
    BY <2>2, <2>3, <2>4
  <2>6. Times = 0..N /\ Cardinality(Times) = N + 1
    <3>1. Times = 0..N
      BY DEF Times
    <3>2. Cardinality(0..N) = IF 0 > N THEN 0 ELSE N - 0 + 1
      BY <2>5, FS_Interval
    <3> HIDE DEF N
    <3>3. Cardinality(0..N) = N + 1
      BY <2>5, <3>2
    <3> QED
      BY <3>1, <3>3
  <2> HIDE DEF N
  <2>7. \A x \in Nat : x < now => x \in Times
    BY <2>4, <2>5, <2>6
  <2>8. \A x \in Nat : x <= account.password => x \in Passwords
    BY <2>2, <2>3, <2>4 DEF Passwords
  <2>9. now \in 1..(Cardinality(Times) + 1)
    BY <2>5, <2>6
  <2>10. account \in [active : BOOLEAN, password : Passwords]
    <3>1. account.password \in Passwords
      BY <2>4, <2>8
    <3> QED
      BY <3>1 DEF SessionsInv, TypeInv
  <2>11. pair \in [Requests -> [iat : Times, opened : Times, password : Passwords,
                                crossed : BOOLEAN, slipped : BOOLEAN]]
    <3>1. ASSUME NEW q \in Requests
          PROVE  pair[q] \in [iat : Times, opened : Times, password : Passwords,
                              crossed : BOOLEAN, slipped : BOOLEAN]
      <4>1. pair[q] \in PairRecord
        BY DEF SessionsInv, TypeInv
      <4>2. pair[q].iat < now /\ pair[q].opened < now /\ pair[q].password <= account.password
        BY <2>3 DEF SessionsInv, ClockInv
      <4>3. pair[q].iat \in Times /\ pair[q].opened \in Times /\ pair[q].password \in Passwords
        BY <4>1, <4>2, <2>7, <2>8 DEF PairRecord
      <4> QED
        BY <4>1, <4>3 DEF PairRecord
    <3> QED
      BY <3>1 DEF SessionsInv, TypeInv
  <2>12. admin \in [Admins ->
             [at : {"unmade", "loaded", "stamped", "bumped", "done"},
              kind : AdminKinds \cup {None}, active : BOOLEAN, stamp : Times]]
    <3>1. ASSUME NEW a \in Admins
          PROVE  admin[a] \in [at : {"unmade", "loaded", "stamped", "bumped", "done"},
                               kind : AdminKinds \cup {None}, active : BOOLEAN, stamp : Times]
      <4>1. admin[a] \in AdminRecord
        BY DEF SessionsInv, TypeInv
      <4>2. admin[a].stamp < now
        BY DEF SessionsInv, ClockInv
      <4>3. admin[a].stamp \in Times
        BY <4>1, <4>2, <2>7 DEF AdminRecord
      <4> QED
        BY <4>1, <4>3 DEF AdminRecord
    <3> QED
      BY <3>1 DEF SessionsInv, TypeInv
  <2>13. epoch \in Times /\ ended \in Times
    BY <2>7 DEF SessionsInv, TypeInv, ClockInv
  <2> QED
    BY <2>9, <2>10, <2>11, <2>12, <2>13
    DEF SessionsInv, TypeInv, TypeOK, RequestRecord, RequestAt
<1> QED
  BY <1>1, SessionsInvariant, PTL
=============================================================================
