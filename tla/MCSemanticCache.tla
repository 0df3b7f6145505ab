--------------------------- MODULE MCSemanticCache ---------------------------
(* Instances of SemanticCache: every document in the one collection.       *)
EXTENDS SemanticCache, TLC

MCCollOf == [d \in Docs |-> CHOOSE c \in Collections : TRUE]

\* Documents of one collection, requests and entry ids are interchangeable.
Symmetry == Permutations(Docs) \cup Permutations(Handlers) \cup Permutations(EntryIds)

=============================================================================
