------------------------------ MODULE Semaphore ------------------------------
(***************************************************************************)
(* What admission limits promise: a semaphore for every key, with at most   *)
(* Limit[k] holders at a time.  A key's promise ends when the counter       *)
(* behind it is lost while somebody is counted in it; from then on a        *)
(* holder may enter at any time.                                            *)
(***************************************************************************)
EXTENDS Naturals, FiniteSets

CONSTANTS Holders, Keys, Limit   \* Limit \in [Keys -> Nat]

VARIABLES held, lost

Take(k, h) ==
  /\ h \in Holders \ held[k]
  /\ k \in lost \/ Cardinality(held[k]) < Limit[k]
  /\ held' = [held EXCEPT ![k] = @ \cup {h}]
  /\ UNCHANGED lost

Put(k, h) ==
  /\ h \in held[k]
  /\ held' = [held EXCEPT ![k] = @ \ {h}]
  /\ UNCHANGED lost

Lose ==
  /\ \E K \in SUBSET Keys : lost' = lost \cup K
  /\ UNCHANGED held

Init ==
  /\ held = [k \in Keys |-> {}]
  /\ lost = {}

\* A holder that dies leaves every key at once.
Die(h) ==
  /\ held' = [k \in Keys |-> held[k] \ {h}]
  /\ UNCHANGED lost

Next ==
  \/ \E h \in Holders : Die(h) \/ \E k \in Keys : Take(k, h) \/ Put(k, h)
  \/ Lose

Spec == Init /\ [][Next]_<<held, lost>>
==============================================================================
