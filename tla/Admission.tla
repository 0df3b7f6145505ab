------------------------------ MODULE Admission ------------------------------
(***************************************************************************)
(* The quotas of app/core/ratelimit.py.  Every chat request passes          *)
(* rate_limit: it is counted in the user's minute, takes one of the user's  *)
(* slots and one of the global ones, and gives both back when it ends.  The *)
(* slots are counters in Redis that several backend processes change with   *)
(* separate INCR, EXPIRE, DECR and SET calls, so one action is one call;    *)
(* the answer of INCR is kept in the request (current) and compared later.  *)
(*                                                                         *)
(* Time is a tick.  A key expires _INFLIGHT_TTL (InflightTTL ticks) after   *)
(* the last EXPIRE; a request lives at most MaxHold ticks, because the turn *)
(* is cut off after max_request_duration_s (90 s against 300 s).            *)
(***************************************************************************)
EXTENDS Integers, FiniteSets

CONSTANTS
  Requests,
  Users,
  UserOf,               \* [Requests -> Users]
  Global,               \* the key admission:inflight:global
  PerUserMaxInflight,
  GlobalMaxInflight,
  PerUserRequests,      \* per_user_requests_per_min
  InflightTTL,
  MaxHold,
  MaxFaults             \* bound: requests that end without their releases

ASSUME AdmissionAssumption ==
  /\ IsFiniteSet(Requests)
  /\ UserOf \in [Requests -> Users]
  /\ Global \notin Users
  /\ PerUserMaxInflight \in Nat
  /\ GlobalMaxInflight \in Nat
  /\ PerUserRequests \in Nat
  /\ MaxHold \in Nat
  /\ InflightTTL \in Nat
  /\ MaxHold < InflightTTL
  /\ MaxFaults \in Nat

VARIABLES
  request,   \* of every request: where it is in rate_limit, the answer of its
             \* last INCR, and the ticks since it came
  count,     \* the counters in Redis, a missing key being 0
  ttl,       \* as Redis answers TTL: Missing, NoExpiry, or the ticks left
  minute,    \* requests counted in the current minute
  faults,
  lost,      \* counters that expired while a request was counted in them
  bare       \* counters a fault left between INCR and EXPIRE

redis == <<count, ttl>>
vars == <<request, count, ttl, minute, faults, lost, bare>>

Missing == -2
NoExpiry == -1
Keys == Users \cup {Global}
Phases == {"idle", "incr_user", "expire_user", "reject_user", "incr_global",
           "expire_global", "reject_global", "running", "reset_global",
           "release_user", "reset_user"}

LimitOf(k) == IF k = Global THEN GlobalMaxInflight ELSE PerUserMaxInflight

Idle == [phase |-> "idle", current |-> 0, age |-> 0]
Phase(r) == request[r].phase

\* The requests that count as holding a slot, and those whose INCR is still
\* in the counter (holders, and attempts that are about to be rejected).
UserHolding == {"incr_global", "expire_global", "reject_global", "running",
                "reset_global", "release_user"}
InUser(r) == Phase(r) \in UserHolding \cup {"expire_user", "reject_user"}
InGlobal(r) == Phase(r) \in {"expire_global", "reject_global", "running"}

HoldersOf(k) ==
  IF k = Global
  THEN {r \in Requests : Phase(r) = "running"}
  ELSE {r \in Requests : UserOf[r] = k /\ Phase(r) \in UserHolding}

CountedIn(k) ==
  IF k = Global
  THEN {r \in Requests : InGlobal(r)}
  ELSE {r \in Requests : UserOf[r] = k /\ InUser(r)}

Init ==
  /\ request = [r \in Requests |-> Idle]
  /\ count = [k \in Keys |-> 0]
  /\ ttl = [k \in Keys |-> Missing]
  /\ minute = [u \in Users |-> 0]
  /\ faults = 0
  /\ lost = {}
  /\ bare = {}

------------------------------------------------------------------------------
\* The Redis calls.

\* The answer of INCR is not read again once it was compared.
Goto(r, p) ==
  request' = [request EXCEPT ![r] =
    IF p = "idle" THEN Idle ELSE [@ EXCEPT !.phase = p, !.current = 0]]

\* INCR and DECR create a missing key.
Add(k, n) ==
  /\ count' = [count EXCEPT ![k] = @ + n]
  /\ ttl' = [ttl EXCEPT ![k] = IF @ = Missing THEN NoExpiry ELSE @]
  /\ UNCHANGED <<minute, faults, lost, bare>>

\* Mutated INCR: the counter is read first and incremented afterwards.
INCRAfterGet(r, k, p) ==
  /\ Add(k, 1)
  /\ request' = [request EXCEPT ![r].phase = p, ![r].current = count[k]]

INCR(r, k, p) ==
  /\ Add(k, 1)
  /\ request' = [request EXCEPT ![r].phase = p, ![r].current = count[k] + 1]

\* Mutated EXPIRE: only the first request sets the expiry, as check_request_rate does.
EXPIREOnce(k) ==
  /\ ttl' = [ttl EXCEPT ![k] = IF @ = NoExpiry THEN InflightTTL ELSE @]
  /\ bare' = bare \ {k}
  /\ UNCHANGED <<count, minute, faults, lost>>

\* Mutated EXPIRE: left out.
EXPIRENever(k) == UNCHANGED <<count, ttl, minute, faults, lost, bare>>

\* EXPIRE does nothing to a missing key.
EXPIRE(k) ==
  /\ ttl' = [ttl EXCEPT ![k] = IF @ = Missing THEN @ ELSE InflightTTL]
  /\ bare' = bare \ {k}
  /\ UNCHANGED <<count, minute, faults, lost>>

DECR(k) == Add(k, -1)

\* SET key 0 drops the expiry.
SetZero(k) ==
  /\ count' = [count EXCEPT ![k] = 0]
  /\ ttl' = [ttl EXCEPT ![k] = NoExpiry]
  /\ UNCHANGED <<minute, faults, lost, bare>>

------------------------------------------------------------------------------
\* rate_limit, one call at a time.

\* check_request_rate.  A request over the minute's limit ends with 429 and
\* changes nothing another request reads.
CheckRequestRate(r) ==
  LET u == UserOf[r] IN
  /\ Phase(r) = "idle"
  /\ minute[u] < PerUserRequests
  /\ minute' = [minute EXCEPT ![u] = @ + 1]
  /\ Goto(r, "incr_user")
  /\ UNCHANGED <<redis, faults, lost, bare>>

IncrUser(r) ==
  /\ Phase(r) = "incr_user"
  /\ INCR(r, UserOf[r], "expire_user")

ExpireUser(r) ==
  /\ Phase(r) = "expire_user"
  /\ EXPIRE(UserOf[r])
  /\ Goto(r, IF request[r].current > PerUserMaxInflight THEN "reject_user" ELSE "incr_global")

\* Mutated RejectUser: a rejected request gives back the global slot it never took.
RejectUserBoth(r) ==
  /\ Phase(r) = "reject_user"
  /\ count' = [k \in Keys |-> IF k \in {UserOf[r], Global} THEN count[k] - 1 ELSE count[k]]
  /\ Goto(r, "idle")
  /\ UNCHANGED <<ttl, minute, faults, lost, bare>>

RejectUser(r) ==
  /\ Phase(r) = "reject_user"
  /\ DECR(UserOf[r])
  /\ Goto(r, "idle")

IncrGlobal(r) ==
  /\ Phase(r) = "incr_global"
  /\ INCR(r, Global, "expire_global")

ExpireGlobal(r) ==
  /\ Phase(r) = "expire_global"
  /\ EXPIRE(Global)
  /\ Goto(r, IF request[r].current > GlobalMaxInflight THEN "reject_global" ELSE "running")

\* Mutated RejectGlobal: the 429 leaves the user's slot taken.
RejectGlobalLeaks(r) ==
  /\ Phase(r) = "reject_global"
  /\ DECR(Global)
  /\ Goto(r, "idle")

\* The 429 of acquire_global_slot makes rate_limit release the user's slot.
RejectGlobal(r) ==
  /\ Phase(r) = "reject_global"
  /\ DECR(Global)
  /\ Goto(r, "release_user")

\* release_global_slot, when the path function has returned or raised.
ReleaseGlobal(r) ==
  /\ Phase(r) = "running"
  /\ DECR(Global)
  /\ Goto(r, IF count[Global] - 1 < 0 THEN "reset_global" ELSE "release_user")

ResetGlobal(r) ==
  /\ Phase(r) = "reset_global"
  /\ SetZero(Global)
  /\ Goto(r, "release_user")

ReleaseUser(r) ==
  /\ Phase(r) = "release_user"
  /\ DECR(UserOf[r])
  /\ Goto(r, IF count[UserOf[r]] - 1 < 0 THEN "reset_user" ELSE "idle")

ResetUser(r) ==
  /\ Phase(r) = "reset_user"
  /\ SetZero(UserOf[r])
  /\ Goto(r, "idle")

\* The process dies, or a Redis call raises: rate_limit catches HTTPException
\* only, so the calls that were to come are not made.
Abandon(r) ==
  /\ Phase(r) # "idle"
  /\ faults < MaxFaults
  /\ faults' = faults + 1
  /\ bare' = bare \cup CASE Phase(r) = "expire_user" -> {UserOf[r]}
                         [] Phase(r) = "expire_global" -> {Global}
                         [] OTHER -> {}
  /\ Goto(r, "idle")
  /\ UNCHANGED <<redis, minute, lost>>

\* Time passes: keys whose expiry runs out are gone.
Tick ==
  LET gone == {k \in Keys : ttl[k] = 1} IN
  /\ \A r \in Requests : Phase(r) # "idle" => request[r].age < MaxHold
  /\ request' = [r \in Requests |->
       IF Phase(r) = "idle" THEN request[r] ELSE [request[r] EXCEPT !.age = @ + 1]]
  /\ ttl' = [k \in Keys |-> CASE k \in gone -> Missing
                           [] ttl[k] > 1 -> ttl[k] - 1
                           [] OTHER -> ttl[k]]
  /\ count' = [k \in Keys |-> IF k \in gone THEN 0 ELSE count[k]]
  /\ lost' = lost \cup {k \in gone : CountedIn(k) # {}}
  /\ bare' = bare \ gone
  /\ UNCHANGED <<minute, faults>>

\* The key of the minute changes.
NewMinute ==
  /\ minute' = [u \in Users |-> 0]
  /\ UNCHANGED <<request, redis, faults, lost, bare>>

Step(r) ==
  \/ IncrUser(r) \/ ExpireUser(r) \/ RejectUser(r)
  \/ IncrGlobal(r) \/ ExpireGlobal(r) \/ RejectGlobal(r)
  \/ ReleaseGlobal(r) \/ ResetGlobal(r)
  \/ ReleaseUser(r) \/ ResetUser(r)

Next ==
  \/ \E r \in Requests : CheckRequestRate(r) \/ Step(r) \/ Abandon(r)
  \/ Tick
  \/ NewMinute

\* The clock is fair, and a request that was let in goes on to its end; nothing
\* obliges a client to come.
Spec == Init /\ [][Next]_vars /\ WF_vars(Tick) /\ \A r \in Requests : WF_vars(Step(r))

------------------------------------------------------------------------------
\* The type of every variable.
TypeOK ==
  /\ request \in [Requests -> [phase : Phases, current : Int, age : 0..MaxHold]]
  /\ count \in [Keys -> Int]
  /\ ttl \in [Keys -> {Missing, NoExpiry} \cup 1..InflightTTL]
  /\ minute \in [Users -> 0..PerUserRequests]
  /\ faults \in 0..MaxFaults
  /\ lost \subseteq Keys
  /\ bare \subseteq Keys

\* No limit is exceeded, whatever the order of the Redis calls of concurrent
\* requests: acquire_inflight and acquire_global_slot count first and compare
\* the answer of INCR afterwards.  Only a counter that expired under a request
\* can admit one too many.
WithinLimits ==
  \A k \in Keys \ lost : Cardinality(HoldersOf(k)) <= LimitOf(k)

\* No running request ever loses its slot to the expiry: a counter expires
\* under a request only between that request's INCR and its EXPIRE.
ExpiryNeverUnderRunning ==
  [][\A k \in Keys : ttl[k] = 1 /\ ttl'[k] = Missing =>
       \A r \in CountedIn(k) :
         Phase(r) = IF k = Global THEN "expire_global" ELSE "expire_user"]_vars

\* Neither slot leaks on a 429 or on the normal exit: when nothing is running
\* and no request ended without its releases, every counter reads 0.
NothingLeaks ==
  (faults = 0 /\ \A r \in Requests : Phase(r) = "idle")
    => \A k \in Keys \ lost : count[k] = 0

\* _INFLIGHT_TTL: a slot that a crash leaked is given back some time.  Whatever
\* is counted for nobody has an expiry running; unless the fault fell between
\* INCR and EXPIRE of a counter without expiry, which stays until the next request.
LeaksExpire ==
  \A k \in Keys :
    count[k] > Cardinality(CountedIn(k)) => ttl[k] > 0 \/ k \in bare

\* The global limit and each user's limit are semaphores.
Slots == INSTANCE Semaphore WITH
  Holders <- Requests, Limit <- [k \in Keys |-> LimitOf(k)],
  held <- [k \in Keys |-> HoldersOf(k)]

\* rate_limit implements the semaphores: acquire_global_slot and
\* acquire_inflight admit as Take does, their releases are Put.
SlotsAreSemaphores == Slots!Spec
==============================================================================
