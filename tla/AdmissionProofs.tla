--------------------------- MODULE AdmissionProofs ---------------------------
(***************************************************************************)
(* Proofs about Admission, for every number of requests, users and faults   *)
(* and every limit: the types, the limits, the slots that leak and come      *)
(* back, the expiry, and that the counters implement semaphores.            *)
(*                                                                         *)
(* A request does one of six things to a counter: it enters it (INCR),       *)
(* renews its expiry (EXPIRE), leaves it (DECR), sets it to zero, dies, or    *)
(* has nothing to do with it.  Each keeps KeyInv of the counter; what every   *)
(* call of rate_limit does to each counter is then a matter of its phases.   *)
(***************************************************************************)
EXTENDS Admission, FiniteSetTheorems, TLAPS

RequestRecord == [phase : Phases, current : Int, age : 0..MaxHold]

\* What a request in state q is to counter k: counted in it, between its INCR and
\* its EXPIRE, holding it or sure to, about to set it to zero.
Owns(k, r) == k = Global \/ UserOf[r] = k
CountedPhases(k) ==
    IF k = Global THEN {"expire_global", "reject_global", "running"}
    ELSE UserHolding \cup {"expire_user", "reject_user"}
HoldingPhases(k) == IF k = Global THEN {"running"} ELSE UserHolding
FreshPhase(k) == IF k = Global THEN "expire_global" ELSE "expire_user"
ResetPhase(k) == IF k = Global THEN "reset_global" ELSE "reset_user"

CountsIn(k, r, q) == Owns(k, r) /\ q.phase \in CountedPhases(k)
HoldsIn(k, r, q) == Owns(k, r) /\ q.phase \in HoldingPhases(k)
FreshIn(k, r, q) == Owns(k, r) /\ q.phase = FreshPhase(k)
WinsIn(k, r, q) == HoldsIn(k, r, q) \/ (FreshIn(k, r, q) /\ q.current <= LimitOf(k))
ResetsIn(k, r, q) == Owns(k, r) /\ q.phase = ResetPhase(k)

Fresh(k) == {r \in Requests : FreshIn(k, r, request[r])}
Winners(k) == {r \in Requests : WinsIn(k, r, request[r])}

\* While a counter has not been lost it counts everybody that is in it, exactly as
\* long as no request has ended without its releases, and nobody resets it.
CountInv(k) ==
    k \notin lost =>
      /\ Cardinality(CountedIn(k)) <= count[k]
      /\ faults = 0 => count[k] = Cardinality(CountedIn(k))
      /\ \A r \in Requests : ~ResetsIn(k, r, request[r])

\* An answer of INCR within the limit is a place: holders and those that were
\* promised one are no more than the limit.
WinInv(k) == k \notin lost => Cardinality(Winners(k)) <= LimitOf(k)

\* A counter without expiry counts only requests that are about to give it one.
ExpiryInv(k) ==
    /\ ttl[k] = Missing => count[k] = 0
    /\ ~(ttl[k] > 0) /\ k \notin bare => count[k] <= Cardinality(Fresh(k))

\* An expiry that runs outlives every request that has renewed it.
LifeInv(k) ==
    \A r \in Requests :
      CountsIn(k, r, request[r]) /\ ~FreshIn(k, r, request[r]) /\ ttl[k] > 0
        => MaxHold < ttl[k] + request[r].age

KeyInv(k) == CountInv(k) /\ WinInv(k) /\ ExpiryInv(k) /\ LifeInv(k)

AdmissionInv == TypeOK /\ \A k \in Keys : KeyInv(k)
-----------------------------------------------------------------------------
(* The sets a counter is compared with.                                    *)

\* The counted and the holding requests of a key, as the phases of its own say.
LEMMA PhaseSets ==
    ASSUME NEW k \in Keys
    PROVE  /\ CountedIn(k) = {r \in Requests : CountsIn(k, r, request[r])}
           /\ HoldersOf(k) = {r \in Requests : HoldsIn(k, r, request[r])}
BY DEF CountedIn, HoldersOf, CountsIn, HoldsIn, Owns, CountedPhases, HoldingPhases,
       InUser, InGlobal, Phase

\* The same in the next state.
LEMMA PhaseSetsNext ==
    ASSUME NEW k \in Keys
    PROVE  /\ CountedIn(k)' = {r \in Requests : CountsIn(k, r, request'[r])}
           /\ HoldersOf(k)' = {r \in Requests : HoldsIn(k, r, request'[r])}
           /\ Fresh(k)' = {r \in Requests : FreshIn(k, r, request'[r])}
           /\ Winners(k)' = {r \in Requests : WinsIn(k, r, request'[r])}
BY DEF CountedIn, HoldersOf, CountsIn, HoldsIn, FreshIn, WinsIn, Owns, CountedPhases,
       HoldingPhases, InUser, InGlobal, Phase, Fresh, Winners

\* The sets are finite; who holds, or is sure to, and who is fresh is counted.
LEMMA SetsFinite ==
    ASSUME NEW k \in Keys
    PROVE  /\ IsFiniteSet(CountedIn(k)) /\ Cardinality(CountedIn(k)) \in Nat
           /\ IsFiniteSet(Fresh(k)) /\ Cardinality(Fresh(k)) \in Nat
           /\ IsFiniteSet(Winners(k)) /\ Cardinality(Winners(k)) \in Nat
           /\ Cardinality(Fresh(k)) <= Cardinality(CountedIn(k))
           /\ Cardinality(Winners(k)) <= Cardinality(CountedIn(k))
<1>1. /\ CountedIn(k) \subseteq Requests
      /\ Fresh(k) \subseteq CountedIn(k)
      /\ Winners(k) \subseteq CountedIn(k)
  BY PhaseSets DEF Fresh, Winners, WinsIn, FreshIn, HoldsIn, CountsIn, FreshPhase,
     HoldingPhases, CountedPhases
<1>2. IsFiniteSet(CountedIn(k))
  BY <1>1, FS_Subset, AdmissionAssumption
<1>3. /\ IsFiniteSet(Fresh(k)) /\ Cardinality(Fresh(k)) <= Cardinality(CountedIn(k))
      /\ IsFiniteSet(Winners(k)) /\ Cardinality(Winners(k)) <= Cardinality(CountedIn(k))
  BY <1>1, <1>2, FS_Subset
<1> QED
  BY <1>2, <1>3, FS_CardinalityType

\* When one request moves, it joins the set whose phases it enters and leaves the
\* others; everybody else stays.
LEMMA OneMoves ==
    ASSUME NEW r \in Requests, NEW n \in RequestRecord, NEW k \in Keys,
           request \in [Requests -> RequestRecord],
           request' = [request EXCEPT ![r] = n]
    PROVE  /\ CountedIn(k)' = IF CountsIn(k, r, n) THEN CountedIn(k) \cup {r} ELSE CountedIn(k) \ {r}
           /\ HoldersOf(k)' = IF HoldsIn(k, r, n) THEN HoldersOf(k) \cup {r} ELSE HoldersOf(k) \ {r}
           /\ Fresh(k)' = IF FreshIn(k, r, n) THEN Fresh(k) \cup {r} ELSE Fresh(k) \ {r}
           /\ Winners(k)' = IF WinsIn(k, r, n) THEN Winners(k) \cup {r} ELSE Winners(k) \ {r}
<1>1. \A q \in Requests : request'[q] = IF q = r THEN n ELSE request[q]
  OBVIOUS
<1>2. CountedIn(k)' = IF CountsIn(k, r, n) THEN CountedIn(k) \cup {r} ELSE CountedIn(k) \ {r}
  BY <1>1, PhaseSets, PhaseSetsNext
<1>3. HoldersOf(k)' = IF HoldsIn(k, r, n) THEN HoldersOf(k) \cup {r} ELSE HoldersOf(k) \ {r}
  BY <1>1, PhaseSets, PhaseSetsNext
<1>4. Fresh(k)' = IF FreshIn(k, r, n) THEN Fresh(k) \cup {r} ELSE Fresh(k) \ {r}
  BY <1>1, PhaseSetsNext DEF Fresh
<1>5. Winners(k)' = IF WinsIn(k, r, n) THEN Winners(k) \cup {r} ELSE Winners(k) \ {r}
  BY <1>1, PhaseSetsNext DEF Winners
<1> QED
  BY <1>2, <1>3, <1>4, <1>5
\* Adding or removing an element changes the cardinality by one or not at all.
LEMMA AddOrRemove ==
    ASSUME NEW S, IsFiniteSet(S), NEW T, NEW r, NEW joins \in BOOLEAN,
           T = IF joins THEN S \cup {r} ELSE S \ {r}
    PROVE  Cardinality(T) = Cardinality(S) + (IF joins THEN 1 ELSE 0) - (IF r \in S THEN 1 ELSE 0)
<1>1. /\ Cardinality(S) \in Int
      /\ Cardinality(S \cup {r}) = IF r \in S THEN Cardinality(S) ELSE Cardinality(S) + 1
      /\ Cardinality(S \ {r}) = IF r \in S THEN Cardinality(S) - 1 ELSE Cardinality(S)
  BY FS_AddElement, FS_RemoveElement, FS_CardinalityType
<1>2. CASE joins
  BY <1>1, <1>2
<1>3. CASE ~joins
  BY <1>1, <1>3
<1> QED
  BY <1>2, <1>3

\* What a move does to the number of the counted, of the fresh and of the winners.
LEMMA OneMoveCounts ==
    ASSUME NEW r \in Requests, NEW n \in RequestRecord, NEW k \in Keys,
           request \in [Requests -> RequestRecord],
           request' = [request EXCEPT ![r] = n]
    PROVE  /\ Cardinality(CountedIn(k)') = Cardinality(CountedIn(k))
                + (IF CountsIn(k, r, n) THEN 1 ELSE 0)
                - (IF CountsIn(k, r, request[r]) THEN 1 ELSE 0)
           /\ Cardinality(Fresh(k)') = Cardinality(Fresh(k))
                + (IF FreshIn(k, r, n) THEN 1 ELSE 0)
                - (IF FreshIn(k, r, request[r]) THEN 1 ELSE 0)
           /\ Cardinality(Winners(k)') = Cardinality(Winners(k))
                + (IF WinsIn(k, r, n) THEN 1 ELSE 0)
                - (IF WinsIn(k, r, request[r]) THEN 1 ELSE 0)
<1>1. /\ CountsIn(k, r, request[r]) = (r \in CountedIn(k))
      /\ FreshIn(k, r, request[r]) = (r \in Fresh(k))
      /\ WinsIn(k, r, request[r]) = (r \in Winners(k))
  BY PhaseSets DEF Fresh, Winners, CountsIn, FreshIn, WinsIn
<1>2. /\ CountsIn(k, r, n) \in BOOLEAN /\ FreshIn(k, r, n) \in BOOLEAN
      /\ WinsIn(k, r, n) \in BOOLEAN
  BY DEF CountsIn, FreshIn, WinsIn
<1>3. IsFiniteSet(CountedIn(k)) /\ IsFiniteSet(Fresh(k)) /\ IsFiniteSet(Winners(k))
  BY SetsFinite
<1>4. /\ CountedIn(k)' = IF CountsIn(k, r, n) THEN CountedIn(k) \cup {r} ELSE CountedIn(k) \ {r}
      /\ Fresh(k)' = IF FreshIn(k, r, n) THEN Fresh(k) \cup {r} ELSE Fresh(k) \ {r}
      /\ Winners(k)' = IF WinsIn(k, r, n) THEN Winners(k) \cup {r} ELSE Winners(k) \ {r}
  BY OneMoves
<1>5. Cardinality(CountedIn(k)') = Cardinality(CountedIn(k))
                + (IF CountsIn(k, r, n) THEN 1 ELSE 0)
                - (IF r \in CountedIn(k) THEN 1 ELSE 0)
  BY <1>2, <1>3, <1>4, AddOrRemove
<1>6. Cardinality(Fresh(k)') = Cardinality(Fresh(k))
                + (IF FreshIn(k, r, n) THEN 1 ELSE 0)
                - (IF r \in Fresh(k) THEN 1 ELSE 0)
  BY <1>2, <1>3, <1>4, AddOrRemove
<1>7. Cardinality(Winners(k)') = Cardinality(Winners(k))
                + (IF WinsIn(k, r, n) THEN 1 ELSE 0)
                - (IF r \in Winners(k) THEN 1 ELSE 0)
  BY <1>2, <1>3, <1>4, AddOrRemove
<1> QED
  BY <1>1, <1>5, <1>6, <1>7

-----------------------------------------------------------------------------
(* The six things a request does to a counter.                             *)

\* The request moves to n, and the counter has this count and expiry afterwards.
Moves(r, n, k, c, t) ==
    /\ request' = [request EXCEPT ![r] = n]
    /\ count'[k] = c /\ ttl'[k] = t
    /\ lost' = lost

\* An INCR: the request is counted, and its answer tells whether it wins a place.
Enters(r, n, k) ==
    /\ Moves(r, n, k, count[k] + 1, IF ttl[k] = Missing THEN NoExpiry ELSE ttl[k])
    /\ bare' = bare /\ faults' = faults
    /\ ~CountsIn(k, r, request[r]) /\ FreshIn(k, r, n) /\ n.current = count[k] + 1

\* An EXPIRE, after which a request goes on if its answer was within the limit.
Renews(r, n, k) ==
    /\ Moves(r, n, k, count[k], IF ttl[k] = Missing THEN Missing ELSE InflightTTL)
    /\ bare' = bare \ {k} /\ faults' = faults
    /\ FreshIn(k, r, request[r]) /\ CountsIn(k, r, n) /\ ~FreshIn(k, r, n)
    /\ HoldsIn(k, r, n) => request[r].current <= LimitOf(k)
    /\ n.age = request[r].age

\* A DECR, after which the counter is reset if it went below zero.
Leaves(r, n, k) ==
    /\ Moves(r, n, k, count[k] - 1, IF ttl[k] = Missing THEN NoExpiry ELSE ttl[k])
    /\ bare' = bare /\ faults' = faults
    /\ CountsIn(k, r, request[r]) /\ ~FreshIn(k, r, request[r]) /\ ~CountsIn(k, r, n)
    /\ ResetsIn(k, r, n) => count[k] - 1 < 0

\* A SET to zero.
Zeroes(r, n, k) ==
    /\ Moves(r, n, k, 0, NoExpiry)
    /\ bare' = bare /\ faults' = faults
    /\ ResetsIn(k, r, request[r]) /\ ~CountsIn(k, r, request[r])
    /\ ~CountsIn(k, r, n) /\ ~ResetsIn(k, r, n)

\* A request that ends without its releases.
Dies(r, n, k) ==
    /\ Moves(r, n, k, count[k], ttl[k])
    /\ bare \subseteq bare' /\ faults' = faults + 1
    /\ FreshIn(k, r, request[r]) => k \in bare'
    /\ ~CountsIn(k, r, n) /\ ~ResetsIn(k, r, n)

\* A call about another counter.
PassesBy(r, n, k) ==
    /\ Moves(r, n, k, count[k], ttl[k])
    /\ k \in bare' <=> k \in bare
    /\ faults' = faults
    /\ CountsIn(k, r, n) <=> CountsIn(k, r, request[r])
    /\ HoldsIn(k, r, n) <=> HoldsIn(k, r, request[r])
    /\ ~FreshIn(k, r, n) /\ ~FreshIn(k, r, request[r])
    /\ ~ResetsIn(k, r, n) \/ ResetsIn(k, r, request[r])
    /\ CountsIn(k, r, n) => n.age = request[r].age

TouchesOne(r, n, k) ==
    \/ Enters(r, n, k) \/ Renews(r, n, k) \/ Leaves(r, n, k)
    \/ Zeroes(r, n, k) \/ Dies(r, n, k) \/ PassesBy(r, n, k)

\* A call is about one counter.
CallsOne(r) ==
    \E n \in RequestRecord, k \in Keys :
      TouchesOne(r, n, k) /\ \A j \in Keys \ {k} : PassesBy(r, n, j)

\* Who is fresh is counted, and so is who wins a place.
LEMMA FreshCounts ==
    ASSUME NEW k, NEW r, NEW q
    PROVE  /\ FreshIn(k, r, q) => CountsIn(k, r, q)
           /\ WinsIn(k, r, q) => CountsIn(k, r, q)
           /\ FreshIn(k, r, q) => ~HoldsIn(k, r, q)
BY DEF WinsIn, FreshIn, HoldsIn, CountsIn, FreshPhase, HoldingPhases, CountedPhases, UserHolding
\* Whatever a request does to a counter, the counter's invariant goes on.
LEMMA TouchKeeps ==
    ASSUME TypeOK, NEW r \in Requests, NEW n \in RequestRecord, NEW k \in Keys,
           KeyInv(k), TouchesOne(r, n, k)
    PROVE  KeyInv(k)'
<1> DEFINE q == request[r]
           C == Cardinality(CountedIn(k))
           W == Cardinality(Winners(k))
           F == Cardinality(Fresh(k))
<1>1. /\ request \in [Requests -> RequestRecord]
      /\ request' = [request EXCEPT ![r] = n]
      /\ lost' = lost
      /\ \A o \in Requests : request'[o] = IF o = r THEN n ELSE request[o]
  BY DEF TypeOK, RequestRecord, TouchesOne, Enters, Renews, Leaves, Zeroes, Dies, PassesBy, Moves
<1>2. /\ Cardinality(CountedIn(k)') = C + (IF CountsIn(k, r, n) THEN 1 ELSE 0)
                                        - (IF CountsIn(k, r, q) THEN 1 ELSE 0)
      /\ Cardinality(Fresh(k)') = F + (IF FreshIn(k, r, n) THEN 1 ELSE 0)
                                    - (IF FreshIn(k, r, q) THEN 1 ELSE 0)
      /\ Cardinality(Winners(k)') = W + (IF WinsIn(k, r, n) THEN 1 ELSE 0)
                                      - (IF WinsIn(k, r, q) THEN 1 ELSE 0)
  BY <1>1, OneMoveCounts
<1>3. C \in Nat /\ W \in Nat /\ F \in Nat /\ F <= C /\ W <= C
  BY SetsFinite
<1>4. /\ count[k] \in Int /\ ttl[k] \in {Missing, NoExpiry} \cup 1..InflightTTL
      /\ faults \in Nat /\ LimitOf(k) \in Nat
      /\ InflightTTL \in Nat /\ MaxHold \in Nat /\ MaxHold < InflightTTL
  BY AdmissionAssumption DEF TypeOK, LimitOf
<1>5. /\ FreshIn(k, r, n) => CountsIn(k, r, n) /\ ~HoldsIn(k, r, n)
      /\ FreshIn(k, r, q) => CountsIn(k, r, q) /\ ~HoldsIn(k, r, q)
      /\ WinsIn(k, r, n) => CountsIn(k, r, n)
      /\ WinsIn(k, r, q) => CountsIn(k, r, q)
      /\ WinsIn(k, r, n) <=> HoldsIn(k, r, n) \/ (FreshIn(k, r, n) /\ n.current <= LimitOf(k))
      /\ WinsIn(k, r, q) <=> HoldsIn(k, r, q) \/ (FreshIn(k, r, q) /\ q.current <= LimitOf(k))
  BY FreshCounts DEF WinsIn
<1>6. F = 0 => ~FreshIn(k, r, q)
  <2>1. FreshIn(k, r, q) => r \in Fresh(k)
    BY DEF Fresh
  <2> QED
    BY <2>1, SetsFinite, FS_EmptySet
<1>7. CountInv(k)'
  <2> SUFFICES ASSUME k \notin lost
               PROVE  /\ Cardinality(CountedIn(k)') <= count'[k]
                      /\ faults' = 0 => count'[k] = Cardinality(CountedIn(k)')
                      /\ \A o \in Requests : ~ResetsIn(k, o, request'[o])
    BY <1>1 DEF CountInv, ResetsIn
  <2>1. /\ C <= count[k] /\ (faults = 0 => count[k] = C)
        /\ \A o \in Requests : ~ResetsIn(k, o, request[o])
    BY DEF KeyInv, CountInv
  <2>2. ~ResetsIn(k, r, n) => \A o \in Requests : ~ResetsIn(k, o, request'[o])
    BY <1>1, <2>1
  <2> HIDE DEF C, W, F, q
  <2>3. CASE Enters(r, n, k)
    <3>1. ~ResetsIn(k, r, n)
      BY <2>3 DEF Enters, ResetsIn, FreshIn, ResetPhase, FreshPhase
    <3> QED
      BY <1>2, <1>3, <1>4, <1>5, <2>1, <2>2, <2>3, <3>1 DEF Enters, Moves, q
  <2>4. CASE Renews(r, n, k)
    <3>1. ~ResetsIn(k, r, n)
      BY <2>4 DEF Renews, ResetsIn, CountsIn, ResetPhase, CountedPhases, UserHolding
    <3> QED
      BY <1>2, <1>3, <1>4, <1>5, <2>1, <2>2, <2>4, <3>1 DEF Renews, Moves, q
  <2>5. CASE Leaves(r, n, k)
    <3>1. C # 0
      <4>1. r \in CountedIn(k)
        BY <2>5, PhaseSets DEF Leaves
      <4> QED
        BY <4>1, SetsFinite, FS_EmptySet DEF C
    <3>2. ~ResetsIn(k, r, n)
      BY <1>3, <1>4, <2>1, <2>5, <3>1 DEF Leaves
    <3> QED
      BY <1>2, <1>3, <1>4, <1>5, <2>1, <2>2, <2>5, <3>2 DEF Leaves, Moves, q
  <2>6. CASE Zeroes(r, n, k)
    BY <2>1, <2>6 DEF Zeroes
  <2>7. CASE Dies(r, n, k)
    BY <1>2, <1>3, <1>4, <1>5, <2>1, <2>2, <2>7 DEF Dies, Moves, q
  <2>8. CASE PassesBy(r, n, k)
    <3>1. ~ResetsIn(k, r, n)
      BY <2>1, <2>8 DEF PassesBy
    <3> QED
      BY <1>2, <1>3, <1>4, <1>5, <2>1, <2>2, <2>8, <3>1 DEF PassesBy, Moves, q
  <2> QED
    BY <2>3, <2>4, <2>5, <2>6, <2>7, <2>8 DEF TouchesOne
<1>8. WinInv(k)'
  <2> SUFFICES ASSUME k \notin lost
               PROVE  Cardinality(Winners(k)') <= LimitOf(k)
    BY <1>1 DEF WinInv, LimitOf
  <2>1. /\ C <= count[k] /\ W <= LimitOf(k)
        /\ ~ResetsIn(k, r, request[r])
    BY DEF KeyInv, CountInv, WinInv
  <2> HIDE DEF C, W, F, q
  <2>3. CASE Enters(r, n, k)
    BY <1>2, <1>3, <1>4, <1>5, <2>1, <2>3 DEF Enters, q
  <2>4. CASE Renews(r, n, k)
    BY <1>2, <1>3, <1>4, <1>5, <2>1, <2>4 DEF Renews, q
  <2>5. CASE Leaves(r, n, k)
    BY <1>2, <1>3, <1>4, <1>5, <2>1, <2>5 DEF Leaves, q
  <2>6. CASE Zeroes(r, n, k)
    BY <2>1, <2>6 DEF Zeroes
  <2>7. CASE Dies(r, n, k)
    BY <1>2, <1>3, <1>4, <1>5, <2>1, <2>7 DEF Dies, q
  <2>8. CASE PassesBy(r, n, k)
    BY <1>2, <1>3, <1>4, <1>5, <2>1, <2>8 DEF PassesBy, q
  <2> QED
    BY <2>3, <2>4, <2>5, <2>6, <2>7, <2>8 DEF TouchesOne
<1>9. ExpiryInv(k)'
  <2> SUFFICES /\ ttl'[k] = Missing => count'[k] = 0
               /\ ~(ttl'[k] > 0) /\ k \notin bare' => count'[k] <= Cardinality(Fresh(k)')
    BY DEF ExpiryInv
  <2>1. /\ ttl[k] = Missing => count[k] = 0
        /\ ~(ttl[k] > 0) /\ k \notin bare => count[k] <= F
    BY DEF KeyInv, ExpiryInv
  <2> HIDE DEF C, W, F, q
  <2> USE DEF Missing, NoExpiry
  <2>3. CASE Enters(r, n, k)
    BY <1>2, <1>3, <1>4, <1>5, <2>1, <2>3 DEF Enters, Moves, q
  <2>4. CASE Renews(r, n, k)
    BY <1>2, <1>3, <1>4, <1>5, <1>6, <2>1, <2>4 DEF Renews, Moves, q
  <2>5. CASE Leaves(r, n, k)
    BY <1>2, <1>3, <1>4, <1>5, <2>1, <2>5 DEF Leaves, Moves, q
  <2>6. CASE Zeroes(r, n, k)
    BY <1>2, <1>3, <1>4, <1>5, <2>1, <2>6 DEF Zeroes, Moves, q
  <2>7. CASE Dies(r, n, k)
    BY <1>2, <1>3, <1>4, <1>5, <2>1, <2>7 DEF Dies, Moves, q
  <2>8. CASE PassesBy(r, n, k)
    BY <1>2, <1>3, <1>4, <1>5, <2>1, <2>8 DEF PassesBy, Moves, q
  <2> QED
    BY <2>3, <2>4, <2>5, <2>6, <2>7, <2>8 DEF TouchesOne
<1>10. LifeInv(k)'
  <2> SUFFICES ASSUME NEW o \in Requests, CountsIn(k, o, request'[o]),
                      ~FreshIn(k, o, request'[o]), ttl'[k] > 0
               PROVE  MaxHold < ttl'[k] + request'[o].age
    BY DEF LifeInv, CountsIn, FreshIn
  <2>1. CountsIn(k, o, request[o]) /\ ~FreshIn(k, o, request[o]) /\ ttl[k] > 0
          => MaxHold < ttl[k] + request[o].age
    BY DEF KeyInv, LifeInv
  <2>2. request'[o] = IF o = r THEN n ELSE request[o]
    BY <1>1
  <2>3. request'[o].age \in Nat
    BY <2>2, AdmissionAssumption DEF TypeOK, RequestRecord
  <2> HIDE DEF C, W, F, q
  <2> USE DEF Missing, NoExpiry
  <2>4. CASE Enters(r, n, k)
    BY <1>4, <2>1, <2>2, <2>4 DEF Enters, Moves
  <2>5. CASE Renews(r, n, k)
    BY <1>4, <2>3, <2>5 DEF Renews, Moves
  <2>6. CASE Leaves(r, n, k)
    BY <1>4, <2>1, <2>2, <2>6 DEF Leaves, Moves
  <2>7. CASE Zeroes(r, n, k)
    BY <2>7 DEF Zeroes, Moves
  <2>8. CASE Dies(r, n, k)
    BY <1>4, <2>1, <2>2, <2>8 DEF Dies, Moves
  <2>9. CASE PassesBy(r, n, k)
    BY <1>4, <2>1, <2>2, <2>9 DEF PassesBy, Moves
  <2> QED
    BY <2>4, <2>5, <2>6, <2>7, <2>8, <2>9 DEF TouchesOne
<1> QED
  BY <1>7, <1>8, <1>9, <1>10 DEF KeyInv
-----------------------------------------------------------------------------
(* The calls of rate_limit.                                                *)

\* The request r when it goes on to phase p, and when INCR answers it c.
Gone(r, p) == IF p = "idle" THEN Idle ELSE [request[r] EXCEPT !.phase = p, !.current = 0]
Answered(r, p, c) == [phase |-> p, current |-> c, age |-> request[r].age]

\* The two fields that INCR writes, one after the other.
LEMMA TwoFields ==
    ASSUME NEW q \in RequestRecord, NEW p, NEW c
    PROVE  [q EXCEPT !.phase = p, !.current = c] = [phase |-> p, current |-> c, age |-> q.age]
<1> USE DEF RequestRecord
<1>1. [q EXCEPT !.phase = p] = [phase |-> p, current |-> q.current, age |-> q.age]
  OBVIOUS
<1>2. [q EXCEPT !.phase = p, !.current = c] = [[q EXCEPT !.phase = p] EXCEPT !.current = c]
  OBVIOUS
<1>3. [[phase |-> p, current |-> q.current, age |-> q.age] EXCEPT !.current = c]
        = [phase |-> p, current |-> c, age |-> q.age]
  OBVIOUS
<1> QED
  BY <1>1, <1>2, <1>3, Zenon

\* Both are states of a request, with these fields.
LEMMA RequestFields ==
    ASSUME TypeOK, NEW r \in Requests, NEW p \in Phases, NEW c \in Int
    PROVE  /\ Gone(r, p) \in RequestRecord /\ Gone(r, p).phase = p
           /\ p # "idle" => Gone(r, p).age = request[r].age
           /\ Answered(r, p, c) \in RequestRecord
           /\ Answered(r, p, c).phase = p /\ Answered(r, p, c).current = c
           /\ Answered(r, p, c).age = request[r].age
<1>1. request[r] \in RequestRecord
  BY DEF TypeOK, RequestRecord
<1>2. Idle \in RequestRecord /\ Idle.phase = "idle"
  BY AdmissionAssumption DEF Idle, RequestRecord, Phases
<1>3. /\ Answered(r, p, c) \in RequestRecord
      /\ Answered(r, p, c).phase = p /\ Answered(r, p, c).current = c
      /\ Answered(r, p, c).age = request[r].age
  BY <1>1 DEF Answered, RequestRecord
<1>4. /\ Gone(r, p) \in RequestRecord /\ Gone(r, p).phase = p
      /\ p # "idle" => Gone(r, p).age = request[r].age
  <2>1. p # "idle" => Gone(r, p) = [phase |-> p, current |-> 0, age |-> request[r].age]
    BY <1>1 DEF Gone, RequestRecord
  <2> QED
    BY <1>1, <1>2, <2>1 DEF Gone, RequestRecord
<1> QED
  BY <1>3, <1>4

\* Goto moves the request to the state Gone says.
LEMMA GotoMoves ==
    ASSUME TypeOK, NEW r \in Requests, NEW p, Goto(r, p)
    PROVE  request' = [request EXCEPT ![r] = Gone(r, p)]
BY DEF Goto, Gone, TypeOK

\* Global is no user.
LEMMA KeyTypes ==
    ASSUME NEW r \in Requests
    PROVE  UserOf[r] \in Keys /\ Global \in Keys /\ UserOf[r] # Global
BY AdmissionAssumption DEF Keys

\* An INCR enters its own counter and passes the others by.
LEMMA INCRTouches ==
    ASSUME TypeOK, NEW r \in Requests, NEW k \in Keys, NEW p \in Phases, INCR(r, k, p),
           FreshIn(k, r, Answered(r, p, count[k] + 1)), ~CountsIn(k, r, request[r]),
           \A j \in Keys \ {k} : 
             /\ CountsIn(j, r, Answered(r, p, count[k] + 1)) <=> CountsIn(j, r, request[r])
             /\ HoldsIn(j, r, Answered(r, p, count[k] + 1)) <=> HoldsIn(j, r, request[r])
             /\ ~FreshIn(j, r, Answered(r, p, count[k] + 1)) /\ ~FreshIn(j, r, request[r])
             /\ ~ResetsIn(j, r, Answered(r, p, count[k] + 1))
    PROVE  CallsOne(r)
<1> DEFINE n == Answered(r, p, count[k] + 1)
<1>1. /\ n \in RequestRecord /\ n.current = count[k] + 1 /\ n.age = request[r].age
  BY RequestFields DEF TypeOK
<1>a. request' = [request EXCEPT ![r] = [@ EXCEPT !.phase = p, !.current = count[k] + 1]]
  BY DEF INCR
<1>b. request' = [request EXCEPT ![r] = [request[r] EXCEPT !.phase = p, !.current = count[k] + 1]]
  BY <1>a DEF TypeOK
<1>c. ASSUME NEW c PROVE [request[r] EXCEPT !.phase = p, !.current = c] = Answered(r, p, c)
  <2>1. request[r] \in RequestRecord
    BY DEF TypeOK, RequestRecord
  <2> QED
    BY <2>1, TwoFields DEF Answered
<1>2. /\ request' = [request EXCEPT ![r] = n]
      /\ count' = [count EXCEPT ![k] = @ + 1]
      /\ ttl' = [ttl EXCEPT ![k] = IF @ = Missing THEN NoExpiry ELSE @]
      /\ faults' = faults /\ lost' = lost /\ bare' = bare
  BY <1>b, <1>c, Zenon DEF INCR, Add
<1>3. count \in [Keys -> Int] /\ DOMAIN ttl = Keys
  BY DEF TypeOK
<1> HIDE DEF n
<1>4. Enters(r, n, k)
  BY <1>1, <1>2, <1>3 DEF Enters, Moves, n
<1>5. ASSUME NEW j \in Keys \ {k} PROVE PassesBy(r, n, j)
  BY <1>1, <1>2, <1>3, <1>5 DEF PassesBy, Moves, n
<1> QED
  BY <1>1, <1>4, <1>5 DEF CallsOne, TouchesOne

\* A request goes on to phase p, and n is what it is then.
GoesOn(r, p, n) ==
    /\ p \in Phases /\ n = Gone(r, p) /\ n \in RequestRecord /\ n.phase = p
    /\ p # "idle" => n.age = request[r].age
    /\ request' = [request EXCEPT ![r] = n]

\* So it does with Goto.
LEMMA GotoGoesOn ==
    ASSUME TypeOK, NEW r \in Requests, NEW p \in Phases, Goto(r, p)
    PROVE  GoesOn(r, p, Gone(r, p))
<1>1. 0 \in Int
  OBVIOUS
<1> QED
  BY <1>1, RequestFields, GotoMoves DEF GoesOn

\* EXPIRE of the user's key renews it.
LEMMA ExpireUserTouches ==
    ASSUME TypeOK, NEW r \in Requests, ExpireUser(r)
    PROVE  CallsOne(r)
<1> DEFINE p == IF request[r].current > PerUserMaxInflight THEN "reject_user" ELSE "incr_global"
           n == Gone(r, p)
<1>1. GoesOn(r, p, n)
  <2>1. p \in Phases
    BY DEF Phases
  <2>2. Goto(r, p)
    BY DEF ExpireUser
  <2> QED
    BY <2>1, <2>2, GotoGoesOn
<1>2. /\ count \in [Keys -> Int] /\ DOMAIN ttl = Keys
      /\ request[r].current \in Int
      /\ PerUserMaxInflight \in Int /\ GlobalMaxInflight \in Int
  BY AdmissionAssumption DEF TypeOK
<1>3. UserOf[r] \in Keys /\ UserOf[r] \in Keys /\ Global \in Keys /\ UserOf[r] # Global
  BY KeyTypes
<1> HIDE DEF n
<1>4. Renews(r, n, UserOf[r])
  BY <1>1, <1>2, <1>3 DEF Renews, ExpireUser, GoesOn, EXPIRE, Moves, CountsIn, HoldsIn, FreshIn,
     ResetsIn, Owns, CountedPhases, HoldingPhases, FreshPhase, ResetPhase, UserHolding, Phase, LimitOf
<1>5. ASSUME NEW j \in Keys \ {UserOf[r]} PROVE PassesBy(r, n, j)
  BY <1>1, <1>2, <1>3, <1>5 DEF PassesBy, ExpireUser, GoesOn, EXPIRE, Moves, CountsIn, HoldsIn, FreshIn,
     ResetsIn, Owns, CountedPhases, HoldingPhases, FreshPhase, ResetPhase, UserHolding, Phase
<1> QED
  BY <1>1, <1>3, <1>4, <1>5 DEF CallsOne, TouchesOne, GoesOn

\* So does EXPIRE of the global key.
LEMMA ExpireGlobalTouches ==
    ASSUME TypeOK, NEW r \in Requests, ExpireGlobal(r)
    PROVE  CallsOne(r)
<1> DEFINE p == IF request[r].current > GlobalMaxInflight THEN "reject_global" ELSE "running"
           n == Gone(r, p)
<1>1. GoesOn(r, p, n)
  <2>1. p \in Phases
    BY DEF Phases
  <2>2. Goto(r, p)
    BY DEF ExpireGlobal
  <2> QED
    BY <2>1, <2>2, GotoGoesOn
<1>2. /\ count \in [Keys -> Int] /\ DOMAIN ttl = Keys
      /\ request[r].current \in Int
      /\ PerUserMaxInflight \in Int /\ GlobalMaxInflight \in Int
  BY AdmissionAssumption DEF TypeOK
<1>3. Global \in Keys /\ UserOf[r] \in Keys /\ Global \in Keys /\ UserOf[r] # Global
  BY KeyTypes
<1> HIDE DEF n
<1>4. Renews(r, n, Global)
  BY <1>1, <1>2, <1>3 DEF Renews, ExpireGlobal, GoesOn, EXPIRE, Moves, CountsIn, HoldsIn, FreshIn,
     ResetsIn, Owns, CountedPhases, HoldingPhases, FreshPhase, ResetPhase, UserHolding, Phase, LimitOf
<1>5. ASSUME NEW j \in Keys \ {Global} PROVE PassesBy(r, n, j)
  BY <1>1, <1>2, <1>3, <1>5 DEF PassesBy, ExpireGlobal, GoesOn, EXPIRE, Moves, CountsIn, HoldsIn, FreshIn,
     ResetsIn, Owns, CountedPhases, HoldingPhases, FreshPhase, ResetPhase, UserHolding, Phase
<1> QED
  BY <1>1, <1>3, <1>4, <1>5 DEF CallsOne, TouchesOne, GoesOn

\* A request over the user's limit leaves its counter.
LEMMA RejectUserTouches ==
    ASSUME TypeOK, NEW r \in Requests, RejectUser(r)
    PROVE  CallsOne(r)
<1> DEFINE p == "idle"
           n == Gone(r, p)
<1>1. GoesOn(r, p, n)
  <2>1. p \in Phases
    BY DEF Phases
  <2>2. Goto(r, p)
    BY DEF RejectUser
  <2> QED
    BY <2>1, <2>2, GotoGoesOn
<1>2. count \in [Keys -> Int] /\ DOMAIN ttl = Keys
  BY DEF TypeOK
<1>3. UserOf[r] \in Keys /\ UserOf[r] \in Keys /\ Global \in Keys /\ UserOf[r] # Global
  BY KeyTypes
<1> HIDE DEF n
<1>4. Leaves(r, n, UserOf[r])
  BY <1>1, <1>2, <1>3 DEF Leaves, RejectUser, GoesOn, DECR, Add, Moves, CountsIn, HoldsIn, FreshIn,
     ResetsIn, Owns, CountedPhases, HoldingPhases, FreshPhase, ResetPhase, UserHolding, Phase, LimitOf
<1>5. ASSUME NEW j \in Keys \ {UserOf[r]} PROVE PassesBy(r, n, j)
  BY <1>1, <1>2, <1>3, <1>5 DEF PassesBy, RejectUser, GoesOn, DECR, Add, Moves, CountsIn, HoldsIn, FreshIn,
     ResetsIn, Owns, CountedPhases, HoldingPhases, FreshPhase, ResetPhase, UserHolding, Phase
<1> QED
  BY <1>1, <1>3, <1>4, <1>5 DEF CallsOne, TouchesOne, GoesOn

\* A request over the global limit leaves that counter.
LEMMA RejectGlobalTouches ==
    ASSUME TypeOK, NEW r \in Requests, RejectGlobal(r)
    PROVE  CallsOne(r)
<1> DEFINE p == "release_user"
           n == Gone(r, p)
<1>1. GoesOn(r, p, n)
  <2>1. p \in Phases
    BY DEF Phases
  <2>2. Goto(r, p)
    BY DEF RejectGlobal
  <2> QED
    BY <2>1, <2>2, GotoGoesOn
<1>2. count \in [Keys -> Int] /\ DOMAIN ttl = Keys
  BY DEF TypeOK
<1>3. Global \in Keys /\ UserOf[r] \in Keys /\ Global \in Keys /\ UserOf[r] # Global
  BY KeyTypes
<1> HIDE DEF n
<1>4. Leaves(r, n, Global)
  BY <1>1, <1>2, <1>3 DEF Leaves, RejectGlobal, GoesOn, DECR, Add, Moves, CountsIn, HoldsIn, FreshIn,
     ResetsIn, Owns, CountedPhases, HoldingPhases, FreshPhase, ResetPhase, UserHolding, Phase, LimitOf
<1>5. ASSUME NEW j \in Keys \ {Global} PROVE PassesBy(r, n, j)
  BY <1>1, <1>2, <1>3, <1>5 DEF PassesBy, RejectGlobal, GoesOn, DECR, Add, Moves, CountsIn, HoldsIn, FreshIn,
     ResetsIn, Owns, CountedPhases, HoldingPhases, FreshPhase, ResetPhase, UserHolding, Phase
<1> QED
  BY <1>1, <1>3, <1>4, <1>5 DEF CallsOne, TouchesOne, GoesOn

\* The end of a request leaves the global counter.
LEMMA ReleaseGlobalTouches ==
    ASSUME TypeOK, NEW r \in Requests, ReleaseGlobal(r)
    PROVE  CallsOne(r)
<1> DEFINE p == IF count[Global] - 1 < 0 THEN "reset_global" ELSE "release_user"
           n == Gone(r, p)
<1>1. GoesOn(r, p, n)
  <2>1. p \in Phases
    BY DEF Phases
  <2>2. Goto(r, p)
    BY DEF ReleaseGlobal
  <2> QED
    BY <2>1, <2>2, GotoGoesOn
<1>2. count \in [Keys -> Int] /\ DOMAIN ttl = Keys
  BY DEF TypeOK
<1>3. Global \in Keys /\ UserOf[r] \in Keys /\ Global \in Keys /\ UserOf[r] # Global
  BY KeyTypes
<1> HIDE DEF n
<1>4. Leaves(r, n, Global)
  BY <1>1, <1>2, <1>3 DEF Leaves, ReleaseGlobal, GoesOn, DECR, Add, Moves, CountsIn, HoldsIn, FreshIn,
     ResetsIn, Owns, CountedPhases, HoldingPhases, FreshPhase, ResetPhase, UserHolding, Phase, LimitOf
<1>5. ASSUME NEW j \in Keys \ {Global} PROVE PassesBy(r, n, j)
  BY <1>1, <1>2, <1>3, <1>5 DEF PassesBy, ReleaseGlobal, GoesOn, DECR, Add, Moves, CountsIn, HoldsIn, FreshIn,
     ResetsIn, Owns, CountedPhases, HoldingPhases, FreshPhase, ResetPhase, UserHolding, Phase
<1> QED
  BY <1>1, <1>3, <1>4, <1>5 DEF CallsOne, TouchesOne, GoesOn

\* And then the user's.
LEMMA ReleaseUserTouches ==
    ASSUME TypeOK, NEW r \in Requests, ReleaseUser(r)
    PROVE  CallsOne(r)
<1> DEFINE p == IF count[UserOf[r]] - 1 < 0 THEN "reset_user" ELSE "idle"
           n == Gone(r, p)
<1>1. GoesOn(r, p, n)
  <2>1. p \in Phases
    BY DEF Phases
  <2>2. Goto(r, p)
    BY DEF ReleaseUser
  <2> QED
    BY <2>1, <2>2, GotoGoesOn
<1>2. count \in [Keys -> Int] /\ DOMAIN ttl = Keys
  BY DEF TypeOK
<1>3. UserOf[r] \in Keys /\ UserOf[r] \in Keys /\ Global \in Keys /\ UserOf[r] # Global
  BY KeyTypes
<1> HIDE DEF n
<1>4. Leaves(r, n, UserOf[r])
  BY <1>1, <1>2, <1>3 DEF Leaves, ReleaseUser, GoesOn, DECR, Add, Moves, CountsIn, HoldsIn, FreshIn,
     ResetsIn, Owns, CountedPhases, HoldingPhases, FreshPhase, ResetPhase, UserHolding, Phase, LimitOf
<1>5. ASSUME NEW j \in Keys \ {UserOf[r]} PROVE PassesBy(r, n, j)
  BY <1>1, <1>2, <1>3, <1>5 DEF PassesBy, ReleaseUser, GoesOn, DECR, Add, Moves, CountsIn, HoldsIn, FreshIn,
     ResetsIn, Owns, CountedPhases, HoldingPhases, FreshPhase, ResetPhase, UserHolding, Phase
<1> QED
  BY <1>1, <1>3, <1>4, <1>5 DEF CallsOne, TouchesOne, GoesOn

\* The global counter went below zero.
LEMMA ResetGlobalTouches ==
    ASSUME TypeOK, NEW r \in Requests, ResetGlobal(r)
    PROVE  CallsOne(r)
<1> DEFINE p == "release_user"
           n == Gone(r, p)
<1>1. GoesOn(r, p, n)
  <2>1. p \in Phases
    BY DEF Phases
  <2>2. Goto(r, p)
    BY DEF ResetGlobal
  <2> QED
    BY <2>1, <2>2, GotoGoesOn
<1>2. count \in [Keys -> Int] /\ DOMAIN ttl = Keys
  BY DEF TypeOK
<1>3. Global \in Keys /\ UserOf[r] \in Keys /\ Global \in Keys /\ UserOf[r] # Global
  BY KeyTypes
<1> HIDE DEF n
<1>4. Zeroes(r, n, Global)
  BY <1>1, <1>2, <1>3 DEF Zeroes, ResetGlobal, GoesOn, SetZero, Moves, CountsIn, HoldsIn, FreshIn,
     ResetsIn, Owns, CountedPhases, HoldingPhases, FreshPhase, ResetPhase, UserHolding, Phase, LimitOf
<1>5. ASSUME NEW j \in Keys \ {Global} PROVE PassesBy(r, n, j)
  BY <1>1, <1>2, <1>3, <1>5 DEF PassesBy, ResetGlobal, GoesOn, SetZero, Moves, CountsIn, HoldsIn, FreshIn,
     ResetsIn, Owns, CountedPhases, HoldingPhases, FreshPhase, ResetPhase, UserHolding, Phase
<1> QED
  BY <1>1, <1>3, <1>4, <1>5 DEF CallsOne, TouchesOne, GoesOn

\* The user's counter went below zero.
LEMMA ResetUserTouches ==
    ASSUME TypeOK, NEW r \in Requests, ResetUser(r)
    PROVE  CallsOne(r)
<1> DEFINE p == "idle"
           n == Gone(r, p)
<1>1. GoesOn(r, p, n)
  <2>1. p \in Phases
    BY DEF Phases
  <2>2. Goto(r, p)
    BY DEF ResetUser
  <2> QED
    BY <2>1, <2>2, GotoGoesOn
<1>2. count \in [Keys -> Int] /\ DOMAIN ttl = Keys
  BY DEF TypeOK
<1>3. UserOf[r] \in Keys /\ UserOf[r] \in Keys /\ Global \in Keys /\ UserOf[r] # Global
  BY KeyTypes
<1> HIDE DEF n
<1>4. Zeroes(r, n, UserOf[r])
  BY <1>1, <1>2, <1>3 DEF Zeroes, ResetUser, GoesOn, SetZero, Moves, CountsIn, HoldsIn, FreshIn,
     ResetsIn, Owns, CountedPhases, HoldingPhases, FreshPhase, ResetPhase, UserHolding, Phase, LimitOf
<1>5. ASSUME NEW j \in Keys \ {UserOf[r]} PROVE PassesBy(r, n, j)
  BY <1>1, <1>2, <1>3, <1>5 DEF PassesBy, ResetUser, GoesOn, SetZero, Moves, CountsIn, HoldsIn, FreshIn,
     ResetsIn, Owns, CountedPhases, HoldingPhases, FreshPhase, ResetPhase, UserHolding, Phase
<1> QED
  BY <1>1, <1>3, <1>4, <1>5 DEF CallsOne, TouchesOne, GoesOn

\* An INCR of the user's key enters it.
LEMMA IncrUserTouches ==
    ASSUME TypeOK, NEW r \in Requests, IncrUser(r)
    PROVE  CallsOne(r)
<1>1. UserOf[r] \in Keys /\ UserOf[r] # Global /\ "expire_user" \in Phases
  BY KeyTypes DEF Phases
<1>2. count[UserOf[r]] + 1 \in Int
  BY <1>1 DEF TypeOK
<1>3. Answered(r, "expire_user", count[UserOf[r]] + 1).phase = "expire_user"
  BY <1>1, <1>2, RequestFields
<1>4. INCR(r, UserOf[r], "expire_user") /\ request[r].phase = "incr_user"
  BY DEF IncrUser, Phase
<1> QED
  BY <1>1, <1>3, <1>4, INCRTouches DEF CountsIn, HoldsIn, FreshIn,
     ResetsIn, Owns, CountedPhases, HoldingPhases, FreshPhase, ResetPhase, UserHolding, Phase

\* An INCR of the global key enters it.
LEMMA IncrGlobalTouches ==
    ASSUME TypeOK, NEW r \in Requests, IncrGlobal(r)
    PROVE  CallsOne(r)
<1>1. Global \in Keys /\ "expire_global" \in Phases
  BY KeyTypes DEF Phases
<1>2. count[Global] + 1 \in Int
  BY <1>1 DEF TypeOK
<1>3. Answered(r, "expire_global", count[Global] + 1).phase = "expire_global"
  BY <1>1, <1>2, RequestFields
<1>4. INCR(r, Global, "expire_global") /\ request[r].phase = "incr_global"
  BY DEF IncrGlobal, Phase
<1> QED
  BY <1>1, <1>3, <1>4, INCRTouches DEF CountsIn, HoldsIn, FreshIn,
     ResetsIn, Owns, CountedPhases, HoldingPhases, FreshPhase, ResetPhase, UserHolding, Phase

\* A request that comes has touched no counter.
LEMMA CheckRequestRateTouches ==
    ASSUME TypeOK, NEW r \in Requests, CheckRequestRate(r)
    PROVE  CallsOne(r)
<1> DEFINE n == Gone(r, "incr_user")
<1>1. GoesOn(r, "incr_user", n)
  BY GotoGoesOn DEF CheckRequestRate, Phases
<1> HIDE DEF n
<1>2. ASSUME NEW j \in Keys PROVE PassesBy(r, n, j)
  BY <1>1, <1>2 DEF PassesBy, CheckRequestRate, redis, GoesOn, Moves, CountsIn, HoldsIn, FreshIn,
     ResetsIn, Owns, CountedPhases, HoldingPhases, FreshPhase, ResetPhase, UserHolding, Phase
<1> QED
  BY <1>1, <1>2, KeyTypes DEF CallsOne, TouchesOne, GoesOn

\* A request that ends without its releases dies in every counter.
LEMMA AbandonTouches ==
    ASSUME TypeOK, NEW r \in Requests, Abandon(r)
    PROVE  \E n \in RequestRecord : \A j \in Keys : Dies(r, n, j)
<1> DEFINE n == Gone(r, "idle")
<1>1. GoesOn(r, "idle", n)
  BY GotoGoesOn DEF Abandon, Phases
<1>2. /\ bare \subseteq bare'
      /\ Phase(r) = "expire_user" => UserOf[r] \in bare'
      /\ Phase(r) = "expire_global" => Global \in bare'
  BY DEF Abandon
<1>3. /\ count' = count /\ ttl' = ttl /\ lost' = lost /\ faults' = faults + 1
  BY DEF Abandon, redis
<1> HIDE DEF n
<1>4. ASSUME NEW j \in Keys PROVE Dies(r, n, j)
  BY <1>1, <1>2, <1>3, <1>4 DEF Dies, GoesOn, Moves, CountsIn, HoldsIn, FreshIn,
     ResetsIn, Owns, CountedPhases, HoldingPhases, FreshPhase, ResetPhase, UserHolding, Phase
<1> QED
  BY <1>1, <1>4 DEF GoesOn

\* Every call is about one counter, and dying about all of them.
LEMMA StepTouches ==
    ASSUME TypeOK, NEW r \in Requests, CheckRequestRate(r) \/ Step(r) \/ Abandon(r)
    PROVE  /\ CallsOne(r) \/ \E n \in RequestRecord : \A j \in Keys : Dies(r, n, j)
           /\ \E n \in RequestRecord : \A j \in Keys : TouchesOne(r, n, j)
<1>1. CallsOne(r) \/ \E n \in RequestRecord : \A j \in Keys : Dies(r, n, j)
  BY IncrUserTouches, ExpireUserTouches, RejectUserTouches, IncrGlobalTouches,
     ExpireGlobalTouches, RejectGlobalTouches, ReleaseGlobalTouches, ResetGlobalTouches,
     ReleaseUserTouches, ResetUserTouches, CheckRequestRateTouches, AbandonTouches DEF Step
<1> QED
  BY <1>1, Zenon DEF CallsOne, TouchesOne

\* So every call keeps the invariant of every counter.
LEMMA StepKeeps ==
    ASSUME TypeOK, \A k \in Keys : KeyInv(k), NEW r \in Requests,
           CheckRequestRate(r) \/ Step(r) \/ Abandon(r)
    PROVE  \A k \in Keys : KeyInv(k)'
<1>1. \E n \in RequestRecord : \A j \in Keys : TouchesOne(r, n, j)
  BY StepTouches
<1> QED
  BY <1>1, TouchKeeps

-----------------------------------------------------------------------------
(* Time.                                                                   *)

\* A tick changes no phase, so it moves nobody between the sets.
LEMMA TickSets ==
    ASSUME TypeOK, Tick, NEW k \in Keys
    PROVE  /\ CountedIn(k)' = CountedIn(k) /\ HoldersOf(k)' = HoldersOf(k)
           /\ Fresh(k)' = Fresh(k) /\ Winners(k)' = Winners(k)
           /\ \A r \in Requests : /\ CountsIn(k, r, request'[r]) <=> CountsIn(k, r, request[r])
                                  /\ FreshIn(k, r, request'[r]) <=> FreshIn(k, r, request[r])
                                  /\ ResetsIn(k, r, request'[r]) <=> ResetsIn(k, r, request[r])
<1>1. ASSUME NEW r \in Requests
      PROVE  /\ request'[r].phase = request[r].phase
             /\ request'[r].current = request[r].current
  BY <1>1 DEF Tick, TypeOK
<1>2. \A r \in Requests : /\ CountsIn(k, r, request'[r]) <=> CountsIn(k, r, request[r])
                          /\ FreshIn(k, r, request'[r]) <=> FreshIn(k, r, request[r])
                          /\ HoldsIn(k, r, request'[r]) <=> HoldsIn(k, r, request[r])
                          /\ WinsIn(k, r, request'[r]) <=> WinsIn(k, r, request[r])
                          /\ ResetsIn(k, r, request'[r]) <=> ResetsIn(k, r, request[r])
  BY <1>1 DEF CountsIn, FreshIn, HoldsIn, WinsIn, ResetsIn
<1>3. CountedIn(k)' = CountedIn(k) /\ HoldersOf(k)' = HoldersOf(k)
  BY <1>2, PhaseSets, PhaseSetsNext
<1>4. Fresh(k)' = Fresh(k) /\ Winners(k)' = Winners(k)
  BY <1>2, PhaseSetsNext DEF Fresh, Winners
<1> QED
  BY <1>2, <1>3, <1>4

\* A counter that expires is lost or counted nobody; the life of the others and of
\* the requests in them shrinks together.
LEMMA TickKeeps ==
    ASSUME TypeOK, \A k \in Keys : KeyInv(k), Tick
    PROVE  \A k \in Keys : KeyInv(k)'
<1> SUFFICES ASSUME NEW k \in Keys PROVE KeyInv(k)'
  OBVIOUS
<1>1. /\ CountedIn(k)' = CountedIn(k) /\ Fresh(k)' = Fresh(k) /\ Winners(k)' = Winners(k)
      /\ \A r \in Requests : /\ CountsIn(k, r, request'[r]) <=> CountsIn(k, r, request[r])
                             /\ FreshIn(k, r, request'[r]) <=> FreshIn(k, r, request[r])
                             /\ ResetsIn(k, r, request'[r]) <=> ResetsIn(k, r, request[r])
  BY TickSets
<1>2. /\ count[k] \in Int /\ ttl[k] \in {Missing, NoExpiry} \cup 1..InflightTTL
      /\ Cardinality(Fresh(k)) \in Nat
      /\ CountedIn(k) = {} => Cardinality(CountedIn(k)) = 0
      /\ InflightTTL \in Nat /\ faults' = faults
  BY SetsFinite, FS_EmptySet, AdmissionAssumption DEF TypeOK, Tick
<1>3. /\ ttl[k] = 1 => /\ ttl'[k] = Missing /\ count'[k] = 0 /\ k \notin bare'
                       /\ CountedIn(k) # {} => k \in lost'
      /\ ttl[k] # 1 => /\ ttl'[k] = IF ttl[k] > 1 THEN ttl[k] - 1 ELSE ttl[k]
                       /\ count'[k] = count[k]
                       /\ k \in bare' <=> k \in bare
                       /\ k \in lost' <=> k \in lost
      /\ k \in lost => k \in lost'
  BY <1>2 DEF Tick
<1>4. KeyInv(k)
  OBVIOUS
<1> USE DEF Missing, NoExpiry
<1>5. CountInv(k)'
  <2>1. \A r \in Requests : ~ResetsIn(k, r, request[r]) => ~ResetsIn(k, r, request'[r])
    BY <1>1
  <2> QED
    BY <1>1, <1>2, <1>3, <1>4, <2>1 DEF KeyInv, CountInv, ResetsIn
<1>6. WinInv(k)'
  BY <1>1, <1>3, <1>4 DEF KeyInv, WinInv, LimitOf
<1>7. ExpiryInv(k)'
  BY <1>1, <1>2, <1>3, <1>4 DEF KeyInv, ExpiryInv
<1>8. LifeInv(k)'
  <2> SUFFICES ASSUME NEW r \in Requests, CountsIn(k, r, request'[r]),
                      ~FreshIn(k, r, request'[r]), ttl'[k] > 0
               PROVE  MaxHold < ttl'[k] + request'[r].age
    BY DEF LifeInv, CountsIn, FreshIn
  <2>1. ttl[k] > 1 /\ ttl'[k] = ttl[k] - 1
    BY <1>2, <1>3
  <2>2. MaxHold < ttl[k] + request[r].age
    BY <1>1, <1>2, <1>4, <2>1 DEF KeyInv, LifeInv
  <2>3. request[r].phase # "idle"
    BY <1>1 DEF CountsIn, CountedPhases, UserHolding
  <2>4. request'[r].age = request[r].age + 1 /\ request[r].age \in Nat
    BY <2>3, AdmissionAssumption DEF Tick, TypeOK, Phase
  <2> QED
    BY <1>2, <2>1, <2>2, <2>4, AdmissionAssumption
<1> QED
  BY <1>5, <1>6, <1>7, <1>8 DEF KeyInv

-----------------------------------------------------------------------------
(* Types.                                                                  *)

\* The calls of Redis keep the types of the counters.
LEMMA RedisTypes ==
    ASSUME TypeOK, NEW k \in Keys
    PROVE  /\ \A c \in Int : [count EXCEPT ![k] = c] \in [Keys -> Int]
           /\ \A t \in {Missing, NoExpiry} \cup 1..InflightTTL :
                [ttl EXCEPT ![k] = t] \in [Keys -> {Missing, NoExpiry} \cup 1..InflightTTL]
           /\ InflightTTL \in {Missing, NoExpiry} \cup 1..InflightTTL
           /\ count[k] \in Int /\ ttl[k] \in {Missing, NoExpiry} \cup 1..InflightTTL
BY AdmissionAssumption DEF TypeOK

CountersOK ==
    /\ count \in [Keys -> Int]
    /\ ttl \in [Keys -> {Missing, NoExpiry} \cup 1..InflightTTL]
    /\ faults \in 0..MaxFaults
    /\ lost \subseteq Keys
    /\ bare \subseteq Keys
    /\ minute \in [Users -> 0..PerUserRequests]

\* The commands of Redis keep the types of the counters.
LEMMA CommandTypes ==
    ASSUME TypeOK, NEW k \in Keys
    PROVE  /\ \A n \in Int : Add(k, n) => CountersOK'
           /\ EXPIRE(k) => CountersOK'
           /\ SetZero(k) => CountersOK'
<1>1. CountersOK
  BY DEF TypeOK, CountersOK
<1>2. ASSUME NEW n \in Int, Add(k, n) PROVE CountersOK'
  BY <1>1, <1>2, RedisTypes DEF Add, CountersOK
<1>3. ASSUME EXPIRE(k) PROVE CountersOK'
  BY <1>1, <1>3, RedisTypes DEF EXPIRE, CountersOK
<1>4. ASSUME SetZero(k) PROVE CountersOK'
  BY <1>1, <1>4, RedisTypes DEF SetZero, CountersOK
<1> QED
  BY <1>2, <1>3, <1>4

\* Every call of a request keeps the types.
LEMMA StepTypes ==
    ASSUME TypeOK, NEW r \in Requests, CheckRequestRate(r) \/ Step(r) \/ Abandon(r)
    PROVE  TypeOK'
<1>1. \E n \in RequestRecord : request' = [request EXCEPT ![r] = n]
  <2>1. \E n \in RequestRecord : \A j \in Keys : TouchesOne(r, n, j)
    BY StepTouches
  <2> QED
    BY <2>1, KeyTypes DEF TouchesOne, Enters, Renews, Leaves, Zeroes, Dies, PassesBy, Moves
<1>2. request' \in [Requests -> RequestRecord]
  BY <1>1 DEF TypeOK, RequestRecord
<1>3. UserOf[r] \in Keys /\ UserOf[r] \in Users /\ Global \in Keys
  BY KeyTypes, AdmissionAssumption
<1>4. 1 \in Int /\ -1 \in Int
  OBVIOUS
<1>5. CountersOK'
  <2>1. ASSUME Step(r) PROVE CountersOK'
    BY <1>3, <1>4, <2>1, CommandTypes DEF Step, IncrUser, ExpireUser, RejectUser, IncrGlobal,
       ExpireGlobal, RejectGlobal, ReleaseGlobal, ResetGlobal, ReleaseUser, ResetUser, INCR, DECR
  <2>2. ASSUME CheckRequestRate(r) PROVE CountersOK'
    BY <1>3, <2>2, AdmissionAssumption DEF CheckRequestRate, redis, TypeOK, CountersOK
  <2>3. ASSUME Abandon(r) PROVE CountersOK'
    <3>1. bare' \subseteq Keys
      BY <1>3, <2>3 DEF Abandon, TypeOK
    <3> QED
      BY <2>3, <3>1, AdmissionAssumption DEF Abandon, redis, TypeOK, CountersOK
  <2> QED
    BY <2>1, <2>2, <2>3
<1> QED
  BY <1>2, <1>5 DEF TypeOK, CountersOK, RequestRecord

\* So does time.
LEMMA TickTypes ==
    ASSUME TypeOK, Tick
    PROVE  TypeOK'
<1>1. request' \in [Requests -> RequestRecord]
  <2>1. ASSUME NEW r \in Requests, Phase(r) # "idle"
        PROVE  [request[r] EXCEPT !.age = @ + 1] \in RequestRecord
    <3>1. request[r] \in RequestRecord /\ request[r].age < MaxHold
      BY <2>1 DEF Tick, TypeOK, RequestRecord
    <3>2. request[r].age + 1 \in 0..MaxHold
      BY <3>1, AdmissionAssumption DEF RequestRecord
    <3> QED
      BY <3>1, <3>2 DEF RequestRecord
  <2>2. \A r \in Requests : request[r] \in RequestRecord
    BY DEF TypeOK, RequestRecord
  <2> QED
    BY <2>1, <2>2 DEF Tick
<1>2. count' \in [Keys -> Int] /\ lost' \subseteq Keys /\ bare' \subseteq Keys
  BY DEF Tick, TypeOK
<1>3. ttl' \in [Keys -> {Missing, NoExpiry} \cup 1..InflightTTL]
  BY AdmissionAssumption DEF Tick, TypeOK, Missing, NoExpiry
<1> QED
  BY <1>1, <1>2, <1>3 DEF Tick, TypeOK, RequestRecord

\* The minute is of no concern to the counters.
LEMMA IdleKeeps ==
    ASSUME AdmissionInv, NewMinute \/ UNCHANGED vars
    PROVE  AdmissionInv'
<1>1. /\ request' = request /\ count' = count /\ ttl' = ttl
      /\ faults' = faults /\ lost' = lost /\ bare' = bare
      /\ minute' \in [Users -> 0..PerUserRequests]
  BY AdmissionAssumption DEF NewMinute, vars, redis, AdmissionInv, TypeOK
<1>2. TypeOK'
  BY <1>1 DEF AdmissionInv, TypeOK
<1>3. ASSUME NEW k \in Keys PROVE KeyInv(k)'
  <2>1. /\ CountedIn(k)' = CountedIn(k) /\ Fresh(k)' = Fresh(k) /\ Winners(k)' = Winners(k)
    BY <1>1, PhaseSets, PhaseSetsNext DEF Fresh, Winners
  <2>2. KeyInv(k)
    BY <1>3 DEF AdmissionInv
  <2> QED
    BY <1>1, <2>1, <2>2 DEF KeyInv, CountInv, WinInv, ExpiryInv, LifeInv, CountsIn, FreshIn,
       ResetsIn, LimitOf
<1> QED
  BY <1>2, <1>3 DEF AdmissionInv

-----------------------------------------------------------------------------
(* The invariant.                                                          *)

\* Every step keeps it.
LEMMA NextKeeps == AdmissionInv /\ [Next]_vars => AdmissionInv'
<1> SUFFICES ASSUME AdmissionInv, [Next]_vars PROVE AdmissionInv'
  OBVIOUS
<1>1. TypeOK /\ \A k \in Keys : KeyInv(k)
  BY DEF AdmissionInv
<1>2. ASSUME NEW r \in Requests, CheckRequestRate(r) \/ Step(r) \/ Abandon(r)
      PROVE  AdmissionInv'
  BY <1>1, <1>2, StepTypes, StepKeeps DEF AdmissionInv
<1>3. CASE Tick
  BY <1>1, <1>3, TickTypes, TickKeeps DEF AdmissionInv
<1>4. CASE NewMinute \/ UNCHANGED vars
  BY <1>4, IdleKeeps
<1> QED
  BY <1>2, <1>3, <1>4 DEF Next

\* It holds of an empty Redis.
LEMMA InitKeeps == Init => AdmissionInv
<1> SUFFICES ASSUME Init PROVE AdmissionInv
  OBVIOUS
<1>1. TypeOK
  BY AdmissionAssumption DEF Init, TypeOK, Idle, Phases, Missing
<1>2. ASSUME NEW k \in Keys PROVE KeyInv(k)
  <2>1. /\ \A r \in Requests : request[r].phase = "idle"
        /\ count[k] = 0 /\ ttl[k] = Missing
    BY <1>2 DEF Init, Idle
  <2>2. CountedIn(k) = {} /\ Fresh(k) = {} /\ Winners(k) = {}
    BY <2>1, PhaseSets DEF Fresh, Winners, WinsIn, CountsIn, HoldsIn, FreshIn,
       CountedPhases, HoldingPhases, FreshPhase, UserHolding
  <2>3. \A r \in Requests : ~ResetsIn(k, r, request[r]) /\ ~CountsIn(k, r, request[r])
    BY <2>1 DEF ResetsIn, CountsIn, CountedPhases, UserHolding, ResetPhase
  <2>4. LimitOf(k) \in Nat /\ Cardinality({}) = 0
    BY AdmissionAssumption, FS_EmptySet DEF LimitOf
  <2> QED
    BY <2>1, <2>2, <2>3, <2>4 DEF KeyInv, CountInv, WinInv, ExpiryInv, LifeInv
<1> QED
  BY <1>1, <1>2 DEF AdmissionInv

\* The counters, the requests and their expiries are related like this at any time.
THEOREM AdmissionInvariant == Spec => []AdmissionInv
BY InitKeeps, NextKeeps, PTL DEF Spec

\* The type of every variable: a count, an expiry of at most _INFLIGHT_TTL, an age the
\* timeout of the turn bounds.
THEOREM AdmissionTypes == Spec => []TypeOK
<1>1. AdmissionInv => TypeOK
  BY DEF AdmissionInv
<1> QED
  BY <1>1, AdmissionInvariant, PTL

\* ratelimit.py: counting first and comparing the answer of INCR afterwards never lets
\* in more than the limit, in any interleaving of any number of requests.
THEOREM LimitsHold == Spec => []WithinLimits
<1>1. AdmissionInv => WithinLimits
  <2> SUFFICES ASSUME AdmissionInv, NEW k \in Keys \ lost
               PROVE  Cardinality(HoldersOf(k)) <= LimitOf(k)
    BY DEF WithinLimits
  <2>1. Cardinality(Winners(k)) <= LimitOf(k) /\ LimitOf(k) \in Nat
    BY AdmissionAssumption DEF AdmissionInv, KeyInv, WinInv, LimitOf
  <2>2. IsFiniteSet(Winners(k)) /\ Cardinality(Winners(k)) \in Nat
    BY SetsFinite
  <2>3. HoldersOf(k) \subseteq Winners(k)
    BY PhaseSets DEF Winners, WinsIn
  <2>4. Cardinality(HoldersOf(k)) <= Cardinality(Winners(k)) /\ Cardinality(HoldersOf(k)) \in Nat
    BY <2>2, <2>3, FS_Subset, FS_CardinalityType
  <2> QED
    BY <2>1, <2>2, <2>4
<1> QED
  BY <1>1, AdmissionInvariant, PTL

\* Both releases are made on every way out of rate_limit: with nothing running and no
\* fault, every counter reads 0.
THEOREM SlotsComeBack == Spec => []NothingLeaks
<1>1. AdmissionInv => NothingLeaks
  <2> SUFFICES ASSUME AdmissionInv, faults = 0, \A r \in Requests : Phase(r) = "idle",
                      NEW k \in Keys \ lost
               PROVE  count[k] = 0
    BY DEF NothingLeaks
  <2>1. CountedIn(k) = {}
    BY PhaseSets DEF CountsIn, CountedPhases, UserHolding, Phase
  <2> QED
    BY <2>1, FS_EmptySet DEF AdmissionInv, KeyInv, CountInv
<1> QED
  BY <1>1, AdmissionInvariant, PTL

\* _INFLIGHT_TTL: what a crash leaves in a counter goes with its expiry.
THEOREM LeakedSlotsExpire == Spec => []LeaksExpire
<1>1. AdmissionInv => LeaksExpire
  <2> SUFFICES ASSUME AdmissionInv, NEW k \in Keys, count[k] > Cardinality(CountedIn(k)),
                      ~(ttl[k] > 0), k \notin bare
               PROVE  FALSE
    BY DEF LeaksExpire
  <2>1. count[k] <= Cardinality(Fresh(k))
    BY DEF AdmissionInv, KeyInv, ExpiryInv
  <2>2. count[k] \in Int
    BY DEF AdmissionInv, TypeOK
  <2> QED
    BY <2>1, <2>2, SetsFinite
<1> QED
  BY <1>1, AdmissionInvariant, PTL

\* A turn cannot outlive the counter it is counted in: the expiry reaches a request
\* only between its INCR and its EXPIRE.
THEOREM ExpirySparesTheRunning == Spec => ExpiryNeverUnderRunning
<1>1. ASSUME AdmissionInv, [Next]_vars, NEW k \in Keys, ttl[k] = 1, ttl'[k] = Missing,
             NEW r \in CountedIn(k)
      PROVE  Phase(r) = IF k = Global THEN "expire_global" ELSE "expire_user"
  <2> USE DEF Missing, NoExpiry
  <2>1. Tick
    <3>1. ASSUME NEW o \in Requests, CheckRequestRate(o) \/ Step(o) \/ Abandon(o)
          PROVE  FALSE
      <4>1. \E n \in RequestRecord : \A j \in Keys : TouchesOne(o, n, j)
        BY <1>1, <3>1, StepTouches DEF AdmissionInv
      <4>2. InflightTTL \in Nat
        BY AdmissionAssumption
      <4> QED
        BY <1>1, <4>1, <4>2 DEF TouchesOne, Enters, Renews, Leaves, Zeroes, Dies, PassesBy, Moves
    <3>2. ~NewMinute /\ ~UNCHANGED vars
      BY <1>1 DEF NewMinute, vars, redis
    <3> QED
      BY <1>1, <3>1, <3>2 DEF Next
  <2>2. r \in Requests /\ CountsIn(k, r, request[r])
    BY <1>1, PhaseSets
  <2>3. ~FreshIn(k, r, request[r]) => MaxHold < ttl[k] + request[r].age
    BY <1>1, <2>2 DEF AdmissionInv, KeyInv, LifeInv
  <2>4. request[r].age < MaxHold /\ request[r].age \in Nat
    <3>1. request[r].phase # "idle"
      BY <2>2 DEF CountsIn, CountedPhases, UserHolding
    <3>2. request[r].age \in Nat
      BY <1>1, <2>2, AdmissionAssumption DEF AdmissionInv, TypeOK
    <3> QED
      BY <2>1, <2>2, <3>1, <3>2 DEF Tick, Phase
  <2>5. FreshIn(k, r, request[r])
    BY <1>1, <2>3, <2>4, AdmissionAssumption
  <2> QED
    BY <2>5 DEF FreshIn, FreshPhase, Phase
<1>2. AdmissionInv /\ [Next]_vars =>
        \A k \in Keys : ttl[k] = 1 /\ ttl'[k] = Missing =>
          \A r \in CountedIn(k) :
            Phase(r) = IF k = Global THEN "expire_global" ELSE "expire_user"
  BY <1>1
<1>3. AdmissionInv /\ [Next]_vars =>
        [\A k \in Keys : ttl[k] = 1 /\ ttl'[k] = Missing =>
          \A r \in CountedIn(k) :
            Phase(r) = IF k = Global THEN "expire_global" ELSE "expire_user"]_vars
  BY <1>2
<1> QED
  BY <1>3, AdmissionInvariant, PTL DEF Spec, ExpiryNeverUnderRunning

-----------------------------------------------------------------------------
(* The counters implement the semaphores.                                  *)

\* Everybody a key has not lost finds a free slot when it takes one.
LEMMA TakesFreeSlot ==
    ASSUME TypeOK, NEW r \in Requests, NEW n \in RequestRecord, NEW k \in Keys,
           KeyInv(k), Renews(r, n, k), HoldsIn(k, r, n)
    PROVE  r \notin HoldersOf(k) /\ (k \in lost \/ Cardinality(HoldersOf(k)) < LimitOf(k))
<1>1. FreshIn(k, r, request[r]) /\ request[r].current <= LimitOf(k)
  BY DEF Renews
<1>2. ~HoldsIn(k, r, request[r]) /\ WinsIn(k, r, request[r])
  BY <1>1, FreshCounts DEF WinsIn
<1>3. r \notin HoldersOf(k) /\ r \in Winners(k) /\ HoldersOf(k) \subseteq Winners(k) \ {r}
  BY <1>2, PhaseSets DEF Winners, WinsIn
<1>4. IsFiniteSet(Winners(k)) /\ Cardinality(Winners(k)) \in Nat
  BY SetsFinite
<1>5. /\ IsFiniteSet(Winners(k) \ {r})
      /\ Cardinality(Winners(k) \ {r}) = Cardinality(Winners(k)) - 1
  BY <1>3, <1>4, FS_RemoveElement
<1>6. /\ Cardinality(HoldersOf(k)) <= Cardinality(Winners(k) \ {r})
      /\ Cardinality(HoldersOf(k)) \in Nat
  BY <1>3, <1>5, FS_Subset, FS_CardinalityType
<1>7. k \notin lost => Cardinality(Winners(k)) <= LimitOf(k)
  BY DEF KeyInv, WinInv
<1>8. LimitOf(k) \in Nat
  BY AdmissionAssumption DEF LimitOf
<1> QED
  BY <1>3, <1>4, <1>5, <1>6, <1>7, <1>8

held == [k \in Keys |-> HoldersOf(k)]

\* The instance counts as this module does.
LEMMA SlotsCardinality ==
    ASSUME NEW S
    PROVE  Slots!Cardinality(S) = Cardinality(S)
BY DEF Slots!Cardinality, Cardinality, Slots!IsFiniteSet, IsFiniteSet

\* A call is a step of the semaphore of its counter, or none.
LEMMA CallImplements ==
    ASSUME AdmissionInv, NEW r \in Requests, CallsOne(r)
    PROVE  [Slots!Next]_<<held, lost>>
<1>1. PICK n \in RequestRecord, k \in Keys :
        TouchesOne(r, n, k) /\ \A j \in Keys \ {k} : PassesBy(r, n, j)
  BY DEF CallsOne
<1>2. /\ TypeOK /\ KeyInv(k) /\ request \in [Requests -> RequestRecord]
      /\ request' = [request EXCEPT ![r] = n] /\ lost' = lost
  BY <1>1 DEF AdmissionInv, TypeOK, RequestRecord, TouchesOne, Enters, Renews, Leaves, Zeroes,
     Dies, PassesBy, Moves
<1>3. \A j \in Keys : r \in HoldersOf(j) <=> HoldsIn(j, r, request[r])
  BY PhaseSets
<1>4. \A j \in Keys : HoldersOf(j)' = IF HoldsIn(j, r, n) THEN HoldersOf(j) \cup {r}
                                                         ELSE HoldersOf(j) \ {r}
  BY <1>2, OneMoves
<1>5. \A j \in Keys \ {k} : HoldersOf(j)' = HoldersOf(j)
  BY <1>1, <1>3, <1>4 DEF PassesBy
<1>6. held' = [held EXCEPT ![k] = HoldersOf(k)']
  BY <1>5 DEF held
<1>7. CASE HoldsIn(k, r, n) <=> HoldsIn(k, r, request[r])
  <2>1. HoldersOf(k)' = HoldersOf(k)
    BY <1>3, <1>4, <1>7
  <2>2. held' = held
    BY <1>5, <2>1 DEF held
  <2> QED
    BY <1>2, <2>2
<1>8. CASE HoldsIn(k, r, n) /\ ~HoldsIn(k, r, request[r])
  <2>1. Renews(r, n, k)
    <3>1. HoldsIn(k, r, n) => CountsIn(k, r, n) /\ ~FreshIn(k, r, n)
      BY DEF HoldsIn, CountsIn, FreshIn, HoldingPhases, CountedPhases, FreshPhase, UserHolding
    <3> QED
      BY <1>1, <1>8, <3>1 DEF TouchesOne, Enters, Leaves, Zeroes, Dies, PassesBy
  <2>2. r \notin HoldersOf(k) /\ (k \in lost \/ Cardinality(HoldersOf(k)) < LimitOf(k))
    BY <1>2, <1>8, <2>1, TakesFreeSlot
  <2>3. Slots!Take(k, r)
    <3>1. held' = [held EXCEPT ![k] = HoldersOf(k) \cup {r}]
      BY <1>4, <1>6, <1>8
    <3>2. held[k] = HoldersOf(k) /\ [j \in Keys |-> LimitOf(j)][k] = LimitOf(k)
      BY DEF held
    <3>3. held' = [held EXCEPT ![k] = @ \cup {r}]
      BY <3>1, <3>2 DEF held
    <3>4. \/ k \in lost
          \/ Cardinality(held[k]) < [j \in Keys |-> LimitOf(j)][k]
      BY <2>2, <3>2
    <3>5. r \in Requests \ held[k]
      BY <2>2, <3>2
    <3> QED
      BY <1>2, <3>3, <3>4, <3>5, SlotsCardinality DEF Slots!Take, held
  <2> QED
    BY <2>3 DEF Slots!Next
<1>9. CASE ~HoldsIn(k, r, n) /\ HoldsIn(k, r, request[r])
  <2>1. Slots!Put(k, r)
    BY <1>2, <1>3, <1>4, <1>6, <1>9 DEF Slots!Put, held
  <2> QED
    BY <2>1 DEF Slots!Next
<1> QED
  BY <1>7, <1>8, <1>9

\* A request that dies leaves all semaphores at once.
LEMMA DeathImplements ==
    ASSUME AdmissionInv, NEW r \in Requests, NEW n \in RequestRecord,
           \A j \in Keys : Dies(r, n, j)
    PROVE  [Slots!Next]_<<held, lost>>
<1>1. /\ request \in [Requests -> RequestRecord]
      /\ request' = [request EXCEPT ![r] = n] /\ lost' = lost
  BY KeyTypes DEF AdmissionInv, TypeOK, RequestRecord, Dies, Moves
<1>2. \A j \in Keys : ~HoldsIn(j, r, n)
  BY DEF Dies, HoldsIn, CountsIn, HoldingPhases, CountedPhases, UserHolding
<1>3. \A j \in Keys : HoldersOf(j)' = HoldersOf(j) \ {r}
  BY <1>1, <1>2, OneMoves
<1>4. Slots!Die(r)
  BY <1>1, <1>3 DEF Slots!Die, held
<1> QED
  BY <1>4 DEF Slots!Next

\* So every step of rate_limit is one of the semaphores or changes nothing there.
LEMMA StepImplements == AdmissionInv /\ [Next]_vars => [Slots!Next]_<<held, lost>>
<1> SUFFICES ASSUME AdmissionInv, [Next]_vars PROVE [Slots!Next]_<<held, lost>>
  OBVIOUS
<1>1. ASSUME NEW r \in Requests, CheckRequestRate(r) \/ Step(r) \/ Abandon(r)
      PROVE  [Slots!Next]_<<held, lost>>
  BY <1>1, StepTouches, CallImplements, DeathImplements DEF AdmissionInv
<1>2. CASE Tick
  <2>1. held' = held
    BY <1>2, TickSets DEF held, AdmissionInv
  <2>2. \E K \in SUBSET Keys : lost' = lost \cup K
    BY <1>2 DEF Tick
  <2> QED
    BY <2>1, <2>2 DEF Slots!Next, Slots!Lose, held
<1>3. CASE NewMinute \/ UNCHANGED vars
  <2>1. request' = request /\ lost' = lost
    BY <1>3 DEF NewMinute, vars
  <2>2. held' = held
    BY <2>1, PhaseSets, PhaseSetsNext DEF held
  <2> QED
    BY <2>1, <2>2
<1> QED
  BY <1>1, <1>2, <1>3 DEF Next

\* ratelimit.py implements the semaphores, whatever the limits: acquire_inflight and
\* acquire_global_slot take a free slot, the releases put it back, and a slot is handed
\* out beyond the limit only once a counter is lost.
THEOREM AdmissionImplementsSemaphores == Spec => SlotsAreSemaphores
<1>1. Init => Slots!Init
  <2> SUFFICES ASSUME Init PROVE Slots!Init
    OBVIOUS
  <2>1. ASSUME NEW k \in Keys PROVE HoldersOf(k) = {}
    BY <2>1, PhaseSets DEF Init, Idle, HoldsIn, HoldingPhases, UserHolding
  <2> QED
    BY <2>1 DEF Slots!Init, Init
<1>2. AdmissionInv /\ [Next]_vars => [Slots!Next]_<<[k \in Keys |-> HoldersOf(k)], lost>>
  BY StepImplements DEF held
<1> QED
  BY <1>1, <1>2, AdmissionInvariant, PTL DEF Spec, SlotsAreSemaphores, Slots!Spec
==============================================================================
