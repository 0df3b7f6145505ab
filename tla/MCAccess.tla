------------------------------- MODULE MCAccess -------------------------------
(* Instances of Access: each document in a collection of its own.          *)
EXTENDS Access, FiniteSets, TLC

\* An injective assignment.
MCCollOf == CHOOSE f \in [Docs -> Collections] :
                Cardinality({f[d] : d \in Docs}) = Cardinality(Docs)

Symmetry == Permutations(Users)

=============================================================================
