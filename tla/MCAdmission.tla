----------------------------- MODULE MCAdmission -----------------------------
EXTENDS Admission, TLC

CONSTANT user

\* One user: the global limit below the user's makes both limits bite.
MCUserOf == [r \in Requests |-> user]

Symmetry == Permutations(Requests)
==============================================================================
