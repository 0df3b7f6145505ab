---------------------------- MODULE MCKnowledgeGaps ----------------------------
(* Instances of KnowledgeGaps: every turn asks the same question, and one      *)
(* answer is rated by two requests that disagree.                              *)
EXTENDS KnowledgeGaps, TLC

CONSTANTS k1, k2, s1
MCRates == (k1 :> [on |-> s1, rating |-> "down"]) @@ (k2 :> [on |-> s1, rating |-> "up"])

MCTopic == [r \in Requests |-> "topic"]
==============================================================================
