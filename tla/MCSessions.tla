------------------------------ MODULE MCSessions ------------------------------
(* Instances of Sessions.                                                  *)
EXTENDS Sessions, TLC

\* Requests of clients, and of admins, are interchangeable.
Symmetry == Permutations(Requests) \cup Permutations(Admins)

=============================================================================
