-------------------------- MODULE AgentGraphProofs --------------------------
(***************************************************************************)
(* Proofs about AgentGraph, for every set of questions and collections,    *)
(* every setting and any number of turns.                                  *)
(*                                                                         *)
(* Each invariant is proved with the strengthening that makes it           *)
(* inductive: what holds at each node of the graph, given what the nodes   *)
(* before it wrote and what an earlier turn may have left in the thread.   *)
(***************************************************************************)
EXTENDS AgentGraph, TLAPS

-----------------------------------------------------------------------------
(* Strengthenings.                                                         *)

\* Nodes a turn reaches only with a message that is not blank.
PastInputGuard == GraphNodes \ {"input_guard", "eval_queue"}

QueryInv ==
    /\ node = "input_guard" => query \in Questions \cup {Blank}
    /\ node \in PastInputGuard => query \in Questions

TypeInv == TypeOK /\ QueryInv

\* The iterations at a node, when the counters of the two loops are as they are.
Within(k) == iterations <= k + 3 * retrieval_retries + 3 * generation_retries

RetriesInv ==
    /\ retrieval_retries <= MaxRetrievalRetries
    /\ generation_retries <= MaxGenerationRetries
    /\ node = "idle" => Within(0)
    /\ node = "input_guard" => Within(0)
    /\ node = "semantic_cache" => Within(1)
    /\ node = "router" => Within(2)
    /\ node \in {"planner", "metadata_lookup"} => Within(3)
    /\ node = "retriever" => Within(4)
    /\ node = "retrieval_grader" => Within(5)
    /\ node = "rewrite" => Within(6) /\ retrieval_retries < MaxRetrievalRetries
    /\ node = "generator" => Within(6)
    /\ node = "hallucination_grader" => Within(7)
    /\ node = "retry_generation" => Within(8) /\ generation_retries < MaxGenerationRetries
    /\ node \in {"finalize_answer", "insufficient_answer"} => Within(8)
    /\ node = "cache_writer" => Within(9)
    /\ node = "eval_queue" => Within(10)
    /\ node \in {"END", "raised"} => Within(11)

\* The iterations at a node against the cap: the nodes behind a check are below
\* it, the nodes after them one or two steps further.
CapInv ==
    /\ node \in {"idle", "input_guard"} => iterations = 0
    /\ node = "semantic_cache" => iterations <= MaxGraphIterations + 1
    /\ node = "router" => iterations <= MaxGraphIterations + 2
    /\ node \in {"planner", "metadata_lookup", "rewrite", "retry_generation",
                 "finalize_answer"} => iterations < MaxGraphIterations
    /\ node \in {"retriever", "generator", "cache_writer"} =>
          iterations <= MaxGraphIterations
    /\ node \in {"retrieval_grader", "hallucination_grader"} =>
          iterations <= MaxGraphIterations + 1
    /\ node = "insufficient_answer" => iterations <= MaxGraphIterations + 3
    /\ node = "eval_queue" => iterations <= MaxGraphIterations + 4
    /\ node \in {"END", "raised"} => iterations <= MaxGraphIterations + 5

\* Nodes that run on the chunks this turn has retrieved, and on the citations of
\* this turn's draft.
AfterRetrieval ==
    {"retrieval_grader", "rewrite", "generator", "hallucination_grader",
     "retry_generation", "finalize_answer", "cache_writer"}
AfterDraft == {"hallucination_grader", "finalize_answer", "cache_writer"}

ScopeInv ==
    /\ CacheWithinScope
    /\ node \in AfterRetrieval => chunks \subseteq allowed
    /\ node \in AfterDraft => citations \subseteq chunks

\* `answer` is this turn's only after the node that wrote it.
FreshInv ==
    /\ answer_turn <= turn
    /\ node = "input_guard" => answer_turn < turn

CitedInv ==
    node \in {"eval_queue", "END"} /\ answer_turn = turn /\ answer # "blank_query"
        => citations \subseteq allowed

ReplyInv ==
    /\ node \in GraphNodes \ {"cache_writer", "eval_queue"} => replies = 0
    /\ node = "cache_writer" => replies = 1
    /\ node \in {"eval_queue", "END"} /\ answer_turn = turn => replies = 1

\* From the draft on the answer is this turn's, and the other ways to the end either
\* write one or are taken for the `insufficient` flag.
StaleInv ==
    /\ node \in AfterDraft => answer_turn = turn
    /\ node \in {"eval_queue", "END"} /\ answer_turn # turn => insufficient

\* The path that generates reaches eval_queue with the citations of its own draft.
EvalInv ==
    node \in {"eval_queue", "END"} => cache_hit \/ insufficient \/ OnlyAllowedDocuments

AcceptedInv ==
    /\ OnlyAcceptedAnswersCached
    /\ node = "hallucination_grader" => answer \in {"none", "insufficient_text", "text"}
    /\ node \in {"finalize_answer", "cache_writer"} =>
          answer # "none" /\ (~HallucinationCheck => answer = "text")

-----------------------------------------------------------------------------
(* Type correctness.                                                       *)

\* The three ways a turn begins establish the type invariant: a seeded message is
\* a question or blank, and what a new session resets has its type.
LEMMA AskType == TypeInv /\ Ask => TypeInv'
<1> SUFFICES ASSUME TypeInv,
                    NEW q \in Questions \cup {Blank}, NEW scope \in SUBSET Collections,
                    NewSession(q, scope) \/ ContinueSession(q, scope)
             PROVE  TypeInv'
  BY DEF Ask
<1> USE QuestionsAssumption DEF TypeInv, TypeOK, QueryInv, PastInputGuard, GraphNodes,
                                Quiescent, Seed
<1>1. CASE NewSession(q, scope)
  <2>1. cache_hit' \in BOOLEAN /\ insufficient' \in BOOLEAN
    BY <1>1, Zenon DEF NewSession
  <2> QED
    BY <1>1, <2>1 DEF NewSession, Answers
<1>2. CASE ContinueSession(q, scope)
  BY <1>2 DEF ContinueSession, carried
<1> QED
  BY <1>1, <1>2

\* Every node keeps the type invariant.  The part about `query` is what makes the
\* rewritten query well typed: input_guard stops a blank message before any node
\* that rewrites it.
LEMMA StepType == TypeInv /\ GraphStep => TypeInv'
<1> SUFFICES ASSUME TypeInv, GraphStep
             PROVE  TypeInv'
  OBVIOUS
<1> USE QuestionsAssumption DEF TypeInv, TypeOK, QueryInv, PastInputGuard, GraphNodes,
                                Quiescent
<1>1. CASE input_guard
  <2>1. insufficient' \in BOOLEAN
    BY <1>1, Zenon DEF input_guard
  <2>2. query = Blank => insufficient' = TRUE
    BY <1>1, Zenon DEF input_guard
  <2>3. node' \in {"eval_queue", "semantic_cache"}
    BY <1>1 DEF input_guard, AfterInput
  <2>4. query = Blank => node' = "eval_queue"
    BY <1>1, <2>2, Zenon DEF input_guard, AfterInput
  <2> QED
    BY <1>1, <2>1, <2>3, <2>4 DEF input_guard, Runs, Answers
<1>2. CASE semantic_cache
  <2>1. cache_hit' \in BOOLEAN
    BY <1>2, Zenon DEF semantic_cache, CacheMiss, CacheHit
  <2>2. node' \in {"eval_queue", "router"}
    BY <1>2 DEF semantic_cache, AfterCache
  <2>3. CASE CacheMiss
    BY <1>2, <2>1, <2>2, <2>3 DEF semantic_cache, Runs, CacheMiss
  <2>4. CASE \E e \in Servable : CacheHit(e)
    <3>1. PICK e \in CacheEntries : CacheHit(e)
      BY <2>4 DEF Servable
    <3>2. HitCitations(e) \in SUBSET Collections /\ e.answer \in Answers
      BY <3>1 DEF HitCitations, CacheEntries
    <3>3. /\ answer' = e.answer /\ answer_turn' = turn
          /\ citations' = HitCitations(e) /\ replies' = replies + 1
      BY <3>1, Zenon DEF CacheHit
    <3> QED
      BY <1>2, <2>1, <2>2, <3>2, <3>3 DEF semantic_cache, Runs
  <2> QED
    BY <1>2, <2>3, <2>4 DEF semantic_cache
<1>3. CASE router
  BY <1>3 DEF router, Runs, AfterRouter, OverBudget, Terminal
<1>4. CASE metadata_lookup
  BY <1>4 DEF metadata_lookup, Runs, LookupDocuments, AfterMetadata, OverBudget, Terminal
<1>5. CASE planner
  BY <1>5 DEF planner, Runs, carried
<1>6. CASE retriever
  BY <1>6 DEF retriever, Runs, Search, SearchText
<1>7. CASE retrieval_grader
  BY <1>7 DEF retrieval_grader, Runs, AfterGrade, OverBudget, Terminal
<1>8. CASE rewrite
  BY <1>8 DEF rewrite, Runs
<1>9. CASE generator
  BY <1>9 DEF generator, Runs, Drafts, Packed, ExtractCitations, Answers
<1>10. CASE hallucination_grader
  BY <1>10 DEF hallucination_grader, Runs, AfterHalluc, OverBudget, Terminal
<1>11. CASE retry_generation
  BY <1>11 DEF retry_generation, Runs, carried
<1>12. CASE insufficient_answer
  BY <1>12 DEF insufficient_answer, Runs, Terminal, Answers
<1>13. CASE finalize_answer
  BY <1>13 DEF finalize_answer, Runs, carried
<1>14. CASE cache_writer
  <2>1. Entry \in CacheEntries
    BY <1>14 DEF cache_writer, Runs, Entry, CacheEntries
  <2>2. cache' \subseteq cache \cup {Entry}
    BY <1>14 DEF cache_writer
  <2>3. cache' \in SUBSET CacheEntries
    BY <2>1, <2>2
  <2> QED
    BY <1>14, <2>3 DEF cache_writer, Runs, carried
<1>15. CASE eval_queue
  BY <1>15 DEF eval_queue, Runs, carried
<1>16. CASE QdrantRaises
  BY <1>16 DEF QdrantRaises, seeded, carried
<1> QED
  BY <1>1, <1>2, <1>3, <1>4, <1>5, <1>6, <1>7, <1>8, <1>9, <1>10,
     <1>11, <1>12, <1>13, <1>14, <1>15, <1>16
  DEF GraphStep

\* A state keeps its type when nothing changes.
LEMMA StutterType == TypeInv /\ UNCHANGED vars => TypeInv'
<1>1. UNCHANGED vars => UNCHANGED <<node, turn, prior, replies, cache>>
  BY DEF vars
<1>2. UNCHANGED vars => UNCHANGED <<query, allowed, iterations, retrieval_retries,
                                   generation_retries>>
  BY DEF vars, seeded
<1>3. UNCHANGED vars => UNCHANGED <<rewritten_query, chunks, about, answer, answer_turn,
                                   citations, cache_hit, insufficient>>
  BY DEF vars, carried
<1> QED
  BY <1>1, <1>2, <1>3, Zenon DEF TypeInv, TypeOK, QueryInv

\* A turn that has not begun is well typed.
LEMMA InitType == Init => TypeInv
<1>1. Init => cache_hit \in BOOLEAN /\ insufficient \in BOOLEAN
  BY Zenon DEF Init
<1> QED
  BY <1>1, QuestionsAssumption
  DEF Init, TypeInv, TypeOK, QueryInv, PastInputGuard, GraphNodes, Quiescent, Answers

\* The state of a thread and of the cache is well typed in every behaviour, over
\* any number of turns; and no blank message gets past input_guard.
THEOREM TypeCorrect == Spec => [](TypeOK /\ QueryInv)
<1>1. TypeInv /\ [Next]_vars => TypeInv'
  BY AskType, StepType, StutterType DEF Next
<1> QED
  BY <1>1, InitType, PTL DEF Spec, TypeInv

-----------------------------------------------------------------------------
(* Bounds on a turn.                                                       *)

\* The two nodes that branch on a flag of the checkpointed state.
LEMMA FlagRoutes ==
    /\ input_guard => node' \in {"semantic_cache", "eval_queue"}
    /\ semantic_cache => node' \in {"router", "eval_queue"}
BY DEF input_guard, AfterInput, semantic_cache, AfterCache

\* What an unchanged state leaves alone, variable by variable.
LEMMA Stutter ==
    UNCHANGED vars =>
        /\ UNCHANGED <<node, turn, prior, replies, cache>>
        /\ UNCHANGED <<query, allowed, iterations, retrieval_retries, generation_retries>>
        /\ UNCHANGED <<chunks, answer, answer_turn, citations>>
BY DEF vars, seeded, carried

\* A node adds one iteration, and each time around a loop is paid for by the
\* increment of that loop's counter.
LEMMA RetriesStep == TypeInv /\ RetriesInv /\ [Next]_vars => RetriesInv'
<1> SUFFICES ASSUME TypeInv, RetriesInv, [Next]_vars
             PROVE  RetriesInv'
  OBVIOUS
<1> USE SettingsAssumption DEF TypeInv, TypeOK, RetriesInv, Within
<1>1. CASE input_guard
  BY <1>1, FlagRoutes DEF input_guard, Runs
<1>2. CASE semantic_cache
  BY <1>2, FlagRoutes DEF semantic_cache, Runs
<1>3. CASE router
  BY <1>3 DEF router, Runs, AfterRouter, OverBudget, Terminal
<1>4. CASE metadata_lookup
  BY <1>4 DEF metadata_lookup, Runs, AfterMetadata, OverBudget, Terminal
<1>5. CASE planner
  BY <1>5 DEF planner, Runs
<1>6. CASE retriever
  BY <1>6 DEF retriever, Runs
<1>7. CASE retrieval_grader
  BY <1>7 DEF retrieval_grader, Runs, AfterGrade, OverBudget, Terminal
<1>8. CASE rewrite
  BY <1>8 DEF rewrite, Runs
<1>9. CASE generator
  BY <1>9 DEF generator, Runs
<1>10. CASE hallucination_grader
  BY <1>10 DEF hallucination_grader, Runs, AfterHalluc, OverBudget, Terminal
<1>11. CASE retry_generation
  BY <1>11 DEF retry_generation, Runs
<1>12. CASE insufficient_answer
  BY <1>12 DEF insufficient_answer, Runs, Terminal
<1>13. CASE finalize_answer
  BY <1>13 DEF finalize_answer, Runs
<1>14. CASE cache_writer
  BY <1>14 DEF cache_writer, Runs
<1>15. CASE eval_queue
  BY <1>15 DEF eval_queue, Runs
<1>16. CASE QdrantRaises
  BY <1>16 DEF QdrantRaises, seeded
<1>17. CASE Ask
  BY <1>17 DEF Ask, NewSession, ContinueSession, Seed
<1>18. CASE UNCHANGED vars
  BY <1>18, Stutter
<1> QED
  BY <1>1, <1>2, <1>3, <1>4, <1>5, <1>6, <1>7, <1>8, <1>9, <1>10,
     <1>11, <1>12, <1>13, <1>14, <1>15, <1>16, <1>17, <1>18
  DEF Next, GraphStep

\* The routing functions let a turn continue only below the cap; what is left is
\* the way from the last check to the end.
LEMMA CapStep == TypeInv /\ CapInv /\ [Next]_vars => CapInv'
<1> SUFFICES ASSUME TypeInv, CapInv, [Next]_vars
             PROVE  CapInv'
  OBVIOUS
<1> USE SettingsAssumption DEF TypeInv, TypeOK, CapInv
<1>1. CASE input_guard
  BY <1>1, FlagRoutes DEF input_guard, Runs
<1>2. CASE semantic_cache
  BY <1>2, FlagRoutes DEF semantic_cache, Runs
<1>3. CASE router
  BY <1>3 DEF router, Runs, AfterRouter, OverBudget, Terminal
<1>4. CASE metadata_lookup
  BY <1>4 DEF metadata_lookup, Runs, AfterMetadata, OverBudget, Terminal
<1>5. CASE planner
  BY <1>5 DEF planner, Runs
<1>6. CASE retriever
  BY <1>6 DEF retriever, Runs
<1>7. CASE retrieval_grader
  BY <1>7 DEF retrieval_grader, Runs, AfterGrade, OverBudget, Terminal
<1>8. CASE rewrite
  BY <1>8 DEF rewrite, Runs
<1>9. CASE generator
  BY <1>9 DEF generator, Runs
<1>10. CASE hallucination_grader
  BY <1>10 DEF hallucination_grader, Runs, AfterHalluc, OverBudget, Terminal
<1>11. CASE retry_generation
  BY <1>11 DEF retry_generation, Runs
<1>12. CASE insufficient_answer
  BY <1>12 DEF insufficient_answer, Runs, Terminal
<1>13. CASE finalize_answer
  BY <1>13 DEF finalize_answer, Runs
<1>14. CASE cache_writer
  BY <1>14 DEF cache_writer, Runs
<1>15. CASE eval_queue
  BY <1>15 DEF eval_queue, Runs
<1>16. CASE QdrantRaises
  BY <1>16 DEF QdrantRaises, seeded
<1>17. CASE Ask
  BY <1>17 DEF Ask, NewSession, ContinueSession, Seed
<1>18. CASE UNCHANGED vars
  BY <1>18, Stutter
<1> QED
  BY <1>1, <1>2, <1>3, <1>4, <1>5, <1>6, <1>7, <1>8, <1>9, <1>10,
     <1>11, <1>12, <1>13, <1>14, <1>15, <1>16, <1>17, <1>18
  DEF Next, GraphStep

\* For any settings the retry counters bound a turn by themselves: the loops of the
\* graph cannot run away even with the iteration cap out of reach.
THEOREM TurnBoundedByRetries == Spec => []RetriesBoundTurn
<1>1. Init => RetriesInv
  BY SettingsAssumption DEF Init, RetriesInv, Within
<1>2. TypeInv /\ RetriesInv => RetriesBoundTurn
  BY SettingsAssumption
  DEF TypeInv, TypeOK, GraphNodes, Quiescent, RetriesInv, Within, RetriesBoundTurn
<1> QED
  BY <1>1, <1>2, RetriesStep, TypeCorrect, PTL DEF Spec, TypeInv

\* For any settings a turn runs at most five nodes more than max_graph_iterations,
\* the bound tests/test_graph.py asserts for one configuration.
THEOREM TurnBoundedByCap == Spec => []IterationBound
<1>1. Init => CapInv
  BY DEF Init, CapInv
<1>2. TypeInv /\ CapInv => IterationBound
  BY SettingsAssumption
  DEF TypeInv, TypeOK, GraphNodes, Quiescent, CapInv, IterationBound
<1> QED
  BY <1>1, <1>2, CapStep, TypeCorrect, PTL DEF Spec, TypeInv

-----------------------------------------------------------------------------
(* Access scope.                                                           *)

\* The retriever and the metadata lookup fill `chunks` from the requester's scope,
\* the generator cites from them, and only then can cache_writer store them.
LEMMA ScopeStep == TypeInv /\ ScopeInv /\ [Next]_vars => ScopeInv'
<1> SUFFICES ASSUME TypeInv, ScopeInv, [Next]_vars
             PROVE  ScopeInv'
  OBVIOUS
<1> USE DEF ScopeInv, CacheWithinScope, AfterRetrieval, AfterDraft
<1>1. CASE input_guard
  BY <1>1, FlagRoutes DEF input_guard, Runs
<1>2. CASE semantic_cache
  BY <1>2, FlagRoutes DEF semantic_cache, Runs
<1>3. CASE router
  BY <1>3 DEF router, Runs, AfterRouter, OverBudget, Terminal
<1>4. CASE metadata_lookup
  BY <1>4 DEF metadata_lookup, Runs, LookupDocuments, AfterMetadata, OverBudget, Terminal
<1>5. CASE planner
  BY <1>5 DEF planner, Runs, carried
<1>6. CASE retriever
  BY <1>6 DEF retriever, Runs, Search
<1>7. CASE retrieval_grader
  BY <1>7 DEF retrieval_grader, Runs, AfterGrade, OverBudget, Terminal
<1>8. CASE rewrite
  BY <1>8 DEF rewrite, Runs
<1>9. CASE generator
  BY <1>9 DEF generator, Runs, Packed, ExtractCitations
<1>10. CASE hallucination_grader
  BY <1>10 DEF hallucination_grader, Runs, AfterHalluc, OverBudget, Terminal
<1>11. CASE retry_generation
  BY <1>11 DEF retry_generation, Runs, carried
<1>12. CASE insufficient_answer
  BY <1>12 DEF insufficient_answer, Runs, Terminal
<1>13. CASE finalize_answer
  BY <1>13 DEF finalize_answer, Runs, carried
<1>14. CASE cache_writer
  <2>1. Entry.colls \subseteq Entry.scope /\ Entry.cites \subseteq Entry.colls
    BY <1>14 DEF cache_writer, Runs, Entry
  <2>2. cache' \subseteq cache \cup {Entry}
    BY <1>14 DEF cache_writer
  <2>3. CacheWithinScope'
    BY <2>1, <2>2
  <2> QED
    BY <1>14, <2>3 DEF cache_writer, Runs, carried
<1>15. CASE eval_queue
  BY <1>15 DEF eval_queue, Runs, carried
<1>16. CASE QdrantRaises
  BY <1>16 DEF QdrantRaises, seeded, carried
<1>17. CASE Ask
  BY <1>17 DEF Ask, NewSession, ContinueSession, Seed, carried
<1>18. CASE UNCHANGED vars
  BY <1>18, Stutter
<1> QED
  BY <1>1, <1>2, <1>3, <1>4, <1>5, <1>6, <1>7, <1>8, <1>9, <1>10,
     <1>11, <1>12, <1>13, <1>14, <1>15, <1>16, <1>17, <1>18
  DEF Next, GraphStep

\* An answer carried over from an earlier turn is never mistaken for this turn's.
LEMMA FreshStep == TypeInv /\ FreshInv /\ [Next]_vars => FreshInv'
<1> SUFFICES ASSUME TypeInv, FreshInv, [Next]_vars
             PROVE  FreshInv'
  OBVIOUS
<1> USE DEF TypeInv, TypeOK, FreshInv
<1>1. CASE input_guard
  BY <1>1, FlagRoutes DEF input_guard, Runs
<1>2. CASE semantic_cache
  <2>1. answer_turn' = answer_turn \/ answer_turn' = turn
    BY <1>2, Zenon DEF semantic_cache, CacheMiss, CacheHit
  <2> QED
    BY <1>2, <2>1, FlagRoutes DEF semantic_cache, Runs
<1>3. CASE router
  BY <1>3 DEF router, Runs, AfterRouter, OverBudget, Terminal
<1>4. CASE metadata_lookup
  BY <1>4 DEF metadata_lookup, Runs, AfterMetadata, OverBudget, Terminal
<1>5. CASE planner
  BY <1>5 DEF planner, Runs, carried
<1>6. CASE retriever
  BY <1>6 DEF retriever, Runs
<1>7. CASE retrieval_grader
  BY <1>7 DEF retrieval_grader, Runs, AfterGrade, OverBudget, Terminal
<1>8. CASE rewrite
  BY <1>8 DEF rewrite, Runs
<1>9. CASE generator
  BY <1>9 DEF generator, Runs
<1>10. CASE hallucination_grader
  BY <1>10 DEF hallucination_grader, Runs, AfterHalluc, OverBudget, Terminal
<1>11. CASE retry_generation
  BY <1>11 DEF retry_generation, Runs, carried
<1>12. CASE insufficient_answer
  BY <1>12 DEF insufficient_answer, Runs, Terminal
<1>13. CASE finalize_answer
  BY <1>13 DEF finalize_answer, Runs, carried
<1>14. CASE cache_writer
  BY <1>14 DEF cache_writer, Runs, carried
<1>15. CASE eval_queue
  BY <1>15 DEF eval_queue, Runs, carried
<1>16. CASE QdrantRaises
  BY <1>16 DEF QdrantRaises, seeded, carried
<1>17. CASE Ask
  BY <1>17 DEF Ask, NewSession, ContinueSession, Seed, carried
<1>18. CASE UNCHANGED vars
  BY <1>18, Stutter
<1> QED
  BY <1>1, <1>2, <1>3, <1>4, <1>5, <1>6, <1>7, <1>8, <1>9, <1>10,
     <1>11, <1>12, <1>13, <1>14, <1>15, <1>16, <1>17, <1>18
  DEF Next, GraphStep

\* eval_queue is reached from a generated answer with checked citations, from a
\* served cache entry, from the citation-free refusal, or from input_guard with no
\* answer of this turn.
LEMMA CitedStep == TypeInv /\ ScopeInv /\ FreshInv /\ CitedInv /\ [Next]_vars => CitedInv'
<1> SUFFICES ASSUME TypeInv, ScopeInv, FreshInv, CitedInv, [Next]_vars
             PROVE  CitedInv'
  OBVIOUS
<1> USE DEF CitedInv
<1>1. CASE input_guard
  <2>1. answer_turn < turn
    BY <1>1 DEF input_guard, Runs, FreshInv
  <2>2. answer' = "blank_query" \/ answer_turn' = answer_turn
    BY <1>1 DEF input_guard
  <2>3. turn' = turn /\ node' # "END"
    BY <1>1, FlagRoutes DEF input_guard, Runs
  <2> QED
    BY <2>1, <2>2, <2>3 DEF TypeInv, TypeOK
<1>2. CASE semantic_cache
  <2>1. CASE CacheMiss
    <3>1. cache_hit' = FALSE
      BY <2>1, Zenon DEF CacheMiss
    <3>2. node' = "router"
      BY <1>2, <3>1, Zenon DEF semantic_cache, AfterCache
    <3> QED
      BY <3>2
  <2>2. CASE \E e \in Servable : CacheHit(e)
    <3>1. PICK e \in Servable : CacheHit(e)
      BY <2>2
    <3>2. e \in cache /\ e.colls \subseteq allowed
      BY <3>1 DEF Servable
    <3>3. HitCitations(e) \subseteq allowed
      BY <3>2 DEF HitCitations, ScopeInv, CacheWithinScope
    <3>4. citations' = HitCitations(e)
      BY <3>1, Zenon DEF CacheHit
    <3> QED
      BY <1>2, <3>3, <3>4 DEF semantic_cache, Runs
  <2> QED
    BY <1>2, <2>1, <2>2 DEF semantic_cache
<1>3. CASE router
  BY <1>3 DEF router, Runs, AfterRouter, OverBudget, Terminal
<1>4. CASE metadata_lookup
  BY <1>4 DEF metadata_lookup, Runs, AfterMetadata, OverBudget, Terminal
<1>5. CASE planner
  BY <1>5 DEF planner, Runs, carried
<1>6. CASE retriever
  BY <1>6 DEF retriever, Runs
<1>7. CASE retrieval_grader
  BY <1>7 DEF retrieval_grader, Runs, AfterGrade, OverBudget, Terminal
<1>8. CASE rewrite
  BY <1>8 DEF rewrite, Runs
<1>9. CASE generator
  BY <1>9 DEF generator, Runs
<1>10. CASE hallucination_grader
  BY <1>10 DEF hallucination_grader, Runs, AfterHalluc, OverBudget, Terminal
<1>11. CASE retry_generation
  BY <1>11 DEF retry_generation, Runs, carried
<1>12. CASE insufficient_answer
  BY <1>12 DEF insufficient_answer, Runs, Terminal
<1>13. CASE finalize_answer
  BY <1>13 DEF finalize_answer, Runs, carried
<1>14. CASE cache_writer
  BY <1>14 DEF cache_writer, Runs, carried, ScopeInv, AfterRetrieval, AfterDraft
<1>15. CASE eval_queue
  BY <1>15 DEF eval_queue, Runs, carried
<1>16. CASE QdrantRaises
  BY <1>16 DEF QdrantRaises, seeded, carried
<1>17. CASE Ask
  BY <1>17 DEF Ask, NewSession, ContinueSession, Seed, carried
<1>18. CASE UNCHANGED vars
  BY <1>18, Stutter
<1> QED
  BY <1>1, <1>2, <1>3, <1>4, <1>5, <1>6, <1>7, <1>8, <1>9, <1>10,
     <1>11, <1>12, <1>13, <1>14, <1>15, <1>16, <1>17, <1>18
  DEF Next, GraphStep

\* No sequence of turns, sessions and scopes puts an entry into the shared semantic
\* cache whose sources or citations lie outside the scope it is keyed by.
THEOREM CacheStaysWithinScope == Spec => []CacheWithinScope
<1>1. Init => ScopeInv
  BY DEF Init, ScopeInv, CacheWithinScope, AfterRetrieval, AfterDraft
<1>2. ScopeInv => CacheWithinScope
  BY DEF ScopeInv
<1> QED
  BY <1>1, <1>2, ScopeStep, TypeCorrect, PTL DEF Spec, TypeInv

\* An answer produced in a turn cites only collections of that turn's scope, for
\* every history of the session and of the cache.
THEOREM CitationsStayWithinScope == Spec => []CitedWithinScope
<1>1. Init => ScopeInv /\ FreshInv /\ CitedInv
  BY DEF Init, ScopeInv, CacheWithinScope, AfterRetrieval, AfterDraft, FreshInv, CitedInv
<1>2. CitedInv => CitedWithinScope
  BY DEF CitedInv, CitedWithinScope
<1> QED
  BY <1>1, <1>2, ScopeStep, FreshStep, CitedStep, TypeCorrect, PTL DEF Spec, TypeInv

-----------------------------------------------------------------------------
(* Replies and accepted answers.                                           *)

\* Exactly four nodes add the assistant message, and no path has two of them.
LEMMA ReplyStep == TypeInv /\ FreshInv /\ ReplyInv /\ [Next]_vars => ReplyInv'
<1> SUFFICES ASSUME TypeInv, FreshInv, ReplyInv, [Next]_vars
             PROVE  ReplyInv'
  OBVIOUS
<1> USE DEF ReplyInv, GraphNodes, TypeInv, TypeOK, FreshInv
<1>1. CASE input_guard
  <2>1. query = Blank => replies' = 1
    BY <1>1 DEF input_guard, Runs
  <2>2. query # Blank => UNCHANGED <<answer_turn, replies>>
    BY <1>1 DEF input_guard
  <2>3. query = Blank => node' = "eval_queue"
    <3>1. query = Blank => insufficient' = TRUE
      BY <1>1, Zenon DEF input_guard
    <3> QED
      BY <1>1, <3>1, Zenon DEF input_guard, AfterInput
  <2> QED
    BY <1>1, <2>1, <2>2, <2>3, FlagRoutes DEF input_guard, Runs
<1>2. CASE semantic_cache
  <2>1. CASE CacheMiss
    <3>1. cache_hit' = FALSE
      BY <2>1, Zenon DEF CacheMiss
    <3>2. node' = "router"
      BY <1>2, <3>1, Zenon DEF semantic_cache, AfterCache
    <3> QED
      BY <1>2, <2>1, <3>2 DEF semantic_cache, Runs, CacheMiss
  <2>2. CASE \E e \in Servable : CacheHit(e)
    <3>1. cache_hit' = TRUE /\ replies' = replies + 1
      BY <2>2, Zenon DEF CacheHit
    <3>2. node' = "eval_queue"
      BY <1>2, <3>1, Zenon DEF semantic_cache, AfterCache
    <3>3. replies = 0
      BY <1>2 DEF semantic_cache, Runs
    <3> QED
      BY <3>1, <3>2, <3>3
  <2> QED
    BY <1>2, <2>1, <2>2 DEF semantic_cache
<1>3. CASE router
  BY <1>3 DEF router, Runs, AfterRouter, OverBudget, Terminal
<1>4. CASE metadata_lookup
  BY <1>4 DEF metadata_lookup, Runs, AfterMetadata, OverBudget, Terminal
<1>5. CASE planner
  BY <1>5 DEF planner, Runs, carried
<1>6. CASE retriever
  BY <1>6 DEF retriever, Runs
<1>7. CASE retrieval_grader
  BY <1>7 DEF retrieval_grader, Runs, AfterGrade, OverBudget, Terminal
<1>8. CASE rewrite
  BY <1>8 DEF rewrite, Runs
<1>9. CASE generator
  BY <1>9 DEF generator, Runs
<1>10. CASE hallucination_grader
  BY <1>10 DEF hallucination_grader, Runs, AfterHalluc, OverBudget, Terminal
<1>11. CASE retry_generation
  BY <1>11 DEF retry_generation, Runs, carried
<1>12. CASE insufficient_answer
  BY <1>12 DEF insufficient_answer, Runs, Terminal
<1>13. CASE finalize_answer
  BY <1>13 DEF finalize_answer, Runs, carried
<1>14. CASE cache_writer
  BY <1>14 DEF cache_writer, Runs, carried
<1>15. CASE eval_queue
  BY <1>15 DEF eval_queue, Runs, carried
<1>16. CASE QdrantRaises
  BY <1>16 DEF QdrantRaises, seeded, carried
<1>17. CASE Ask
  BY <1>17 DEF Ask, NewSession, ContinueSession, Seed, carried
<1>18. CASE UNCHANGED vars
  BY <1>18, Stutter
<1> QED
  BY <1>1, <1>2, <1>3, <1>4, <1>5, <1>6, <1>7, <1>8, <1>9, <1>10,
     <1>11, <1>12, <1>13, <1>14, <1>15, <1>16, <1>17, <1>18
  DEF Next, GraphStep

\* semantic_cache reaches the end only with a hit, and input_guard only with the
\* flag set.
LEMMA StaleStep == TypeInv /\ StaleInv /\ [Next]_vars => StaleInv'
<1> SUFFICES ASSUME TypeInv, StaleInv, [Next]_vars
             PROVE  StaleInv'
  OBVIOUS
<1> USE DEF StaleInv, AfterDraft
<1>1. CASE input_guard
  <2>1. node' = "eval_queue" => insufficient'
    BY <1>1 DEF input_guard, AfterInput
  <2> QED
    BY <2>1, <1>1, FlagRoutes
<1>2. CASE semantic_cache
  <2>1. CASE CacheMiss
    <3>1. cache_hit' = FALSE
      BY <2>1, Zenon DEF CacheMiss
    <3>2. node' = "router"
      BY <1>2, <3>1, Zenon DEF semantic_cache, AfterCache
    <3> QED
      BY <3>2
  <2>2. CASE \E e \in Servable : CacheHit(e)
    <3>1. answer_turn' = turn
      BY <2>2, Zenon DEF CacheHit
    <3> QED
      BY <1>2, <3>1, FlagRoutes DEF semantic_cache, Runs
  <2> QED
    BY <1>2, <2>1, <2>2 DEF semantic_cache
<1>3. CASE router
  BY <1>3 DEF router, Runs, AfterRouter, OverBudget, Terminal
<1>4. CASE metadata_lookup
  BY <1>4 DEF metadata_lookup, Runs, AfterMetadata, OverBudget, Terminal
<1>5. CASE planner
  BY <1>5 DEF planner, Runs, carried
<1>6. CASE retriever
  BY <1>6 DEF retriever, Runs
<1>7. CASE retrieval_grader
  BY <1>7 DEF retrieval_grader, Runs, AfterGrade, OverBudget, Terminal
<1>8. CASE rewrite
  BY <1>8 DEF rewrite, Runs
<1>9. CASE generator
  BY <1>9 DEF generator, Runs
<1>10. CASE hallucination_grader
  BY <1>10 DEF hallucination_grader, Runs, AfterHalluc, OverBudget, Terminal
<1>11. CASE retry_generation
  BY <1>11 DEF retry_generation, Runs, carried
<1>12. CASE insufficient_answer
  BY <1>12 DEF insufficient_answer, Runs, Terminal
<1>13. CASE finalize_answer
  BY <1>13 DEF finalize_answer, Runs, carried
<1>14. CASE cache_writer
  BY <1>14 DEF cache_writer, Runs, carried
<1>15. CASE eval_queue
  BY <1>15 DEF eval_queue, Runs, carried
<1>16. CASE QdrantRaises
  BY <1>16 DEF QdrantRaises, seeded, carried
<1>17. CASE Ask
  BY <1>17 DEF Ask, NewSession, ContinueSession, Seed, carried
<1>18. CASE UNCHANGED vars
  <2>1. UNCHANGED insufficient
    BY <1>18 DEF vars, carried
  <2> QED
    BY <1>18, <2>1, Stutter
<1> QED
  BY <1>1, <1>2, <1>3, <1>4, <1>5, <1>6, <1>7, <1>8, <1>9, <1>10,
     <1>11, <1>12, <1>13, <1>14, <1>15, <1>16, <1>17, <1>18
  DEF Next, GraphStep

\* Between the verdict and the store nothing touches `answer`.
LEMMA AcceptedStep == TypeInv /\ AcceptedInv /\ [Next]_vars => AcceptedInv'
<1> SUFFICES ASSUME TypeInv, AcceptedInv, [Next]_vars
             PROVE  AcceptedInv'
  OBVIOUS
<1> USE DEF AcceptedInv, OnlyAcceptedAnswersCached
<1>1. CASE input_guard
  BY <1>1, FlagRoutes DEF input_guard, Runs
<1>2. CASE semantic_cache
  BY <1>2, FlagRoutes DEF semantic_cache, Runs
<1>3. CASE router
  BY <1>3 DEF router, Runs, AfterRouter, OverBudget, Terminal
<1>4. CASE metadata_lookup
  BY <1>4 DEF metadata_lookup, Runs, AfterMetadata, OverBudget, Terminal
<1>5. CASE planner
  BY <1>5 DEF planner, Runs, carried
<1>6. CASE retriever
  BY <1>6 DEF retriever, Runs
<1>7. CASE retrieval_grader
  BY <1>7 DEF retrieval_grader, Runs, AfterGrade, OverBudget, Terminal
<1>8. CASE rewrite
  BY <1>8 DEF rewrite, Runs
<1>9. CASE generator
  BY <1>9 DEF generator, Runs, Drafts
<1>10. CASE hallucination_grader
  <2>1. PICK grounded \in Verdicts : node' = AfterHalluc(iterations', grounded)
    BY <1>10 DEF hallucination_grader
  <2>2. node' = "finalize_answer" => grounded
    BY <2>1 DEF AfterHalluc, Terminal
  <2>3. grounded => answer # "none" /\ (~HallucinationCheck => answer = "text")
    BY <1>10, <2>1 DEF hallucination_grader, Runs, Verdicts
  <2>4. node' \notin {"hallucination_grader", "cache_writer"}
    BY <2>1 DEF AfterHalluc, Terminal
  <2> QED
    BY <1>10, <2>2, <2>3, <2>4 DEF hallucination_grader
<1>11. CASE retry_generation
  BY <1>11 DEF retry_generation, Runs, carried
<1>12. CASE insufficient_answer
  BY <1>12 DEF insufficient_answer, Runs, Terminal
<1>13. CASE finalize_answer
  BY <1>13 DEF finalize_answer, Runs, carried
<1>14. CASE cache_writer
  <2>1. Entry.answer # "none" /\ (~HallucinationCheck => Entry.answer = "text")
    BY <1>14 DEF cache_writer, Runs, Entry
  <2>2. cache' \subseteq cache \cup {Entry}
    BY <1>14 DEF cache_writer
  <2> QED
    BY <1>14, <2>1, <2>2 DEF cache_writer, Runs, carried
<1>15. CASE eval_queue
  BY <1>15 DEF eval_queue, Runs, carried
<1>16. CASE QdrantRaises
  BY <1>16 DEF QdrantRaises, seeded, carried
<1>17. CASE Ask
  BY <1>17 DEF Ask, NewSession, ContinueSession, Seed, carried
<1>18. CASE UNCHANGED vars
  BY <1>18, Stutter
<1> QED
  BY <1>1, <1>2, <1>3, <1>4, <1>5, <1>6, <1>7, <1>8, <1>9, <1>10,
     <1>11, <1>12, <1>13, <1>14, <1>15, <1>16, <1>17, <1>18
  DEF Next, GraphStep

\* A turn that produced an answer added exactly one assistant message to the
\* conversation, on every path through the graph.
THEOREM OneReply == Spec => []OneReplyPerTurn
<1>1. Init => FreshInv /\ ReplyInv
  BY DEF Init, FreshInv, ReplyInv, GraphNodes
<1>2. ReplyInv => OneReplyPerTurn
  BY DEF ReplyInv, OneReplyPerTurn
<1> QED
  BY <1>1, <1>2, FreshStep, ReplyStep, TypeCorrect, PTL DEF Spec, TypeInv

\* Over any number of turns, a reply that is not this turn's is replayed only in a
\* thread whose `insufficient` flag was set before.
THEOREM StaleRepliesExplained == Spec => []StaleReplyOnlyAfterRefusal
<1>1. Init => StaleInv
  BY DEF Init, StaleInv, AfterDraft
<1>2. StaleInv => StaleReplyOnlyAfterRefusal
  BY DEF StaleInv, StaleReplyOnlyAfterRefusal
<1> QED
  BY <1>1, <1>2, StaleStep, TypeCorrect, PTL DEF Spec, TypeInv

\* The semantic cache only ever holds answers the graph accepted: no empty answer
\* of a failed LLM call and, with the grader disabled, no abstention.
THEOREM CacheHoldsAcceptedAnswers == Spec => []OnlyAcceptedAnswersCached
<1>1. Init => AcceptedInv
  BY DEF Init, AcceptedInv, OnlyAcceptedAnswersCached
<1>2. AcceptedInv => OnlyAcceptedAnswersCached
  BY DEF AcceptedInv
<1> QED
  BY <1>1, <1>2, AcceptedStep, TypeCorrect, PTL DEF Spec, TypeInv

-----------------------------------------------------------------------------
(* The security flag of an evaluation.                                     *)

\* Besides cache_writer only a hit and a refusal lead to eval_queue.
LEMMA EvalStep == TypeInv /\ ScopeInv /\ EvalInv /\ [Next]_vars => EvalInv'
<1> SUFFICES ASSUME TypeInv, ScopeInv, EvalInv, [Next]_vars
             PROVE  EvalInv'
  OBVIOUS
<1> USE DEF EvalInv
<1>1. CASE input_guard
  <2>1. node' = "eval_queue" => insufficient'
    BY <1>1 DEF input_guard, AfterInput
  <2> QED
    BY <2>1, <1>1, FlagRoutes
<1>2. CASE semantic_cache
  <2>1. node' = "eval_queue" => cache_hit'
    BY <1>2 DEF semantic_cache, AfterCache
  <2> QED
    BY <2>1, <1>2, FlagRoutes
<1>3. CASE router
  BY <1>3 DEF router, Runs, AfterRouter, OverBudget, Terminal
<1>4. CASE metadata_lookup
  BY <1>4 DEF metadata_lookup, Runs, AfterMetadata, OverBudget, Terminal
<1>5. CASE planner \/ retriever \/ rewrite \/ generator \/ retry_generation \/ finalize_answer
  BY <1>5 DEF planner, retriever, rewrite, generator, retry_generation, finalize_answer, Runs
<1>6. CASE retrieval_grader
  BY <1>6 DEF retrieval_grader, Runs, AfterGrade, OverBudget, Terminal
<1>7. CASE hallucination_grader
  BY <1>7 DEF hallucination_grader, Runs, AfterHalluc, OverBudget, Terminal
<1>8. CASE insufficient_answer
  BY <1>8, Zenon DEF insufficient_answer
<1>9. CASE cache_writer
  BY <1>9 DEF cache_writer, Runs, carried, ScopeInv, AfterDraft, OnlyAllowedDocuments
<1>10. CASE eval_queue
  BY <1>10 DEF eval_queue, Runs, carried, OnlyAllowedDocuments
<1>11. CASE QdrantRaises
  BY <1>11 DEF QdrantRaises
<1>12. CASE Ask
  BY <1>12 DEF Ask, NewSession, ContinueSession, Seed
<1>13. CASE UNCHANGED vars
  BY <1>13 DEF vars, carried, OnlyAllowedDocuments
<1> QED
  BY <1>1, <1>2, <1>3, <1>4, <1>5, <1>6, <1>7, <1>8, <1>9, <1>10, <1>11, <1>12, <1>13
  DEF Next, GraphStep

\* judge.py 57: an answer the turn generated cites only chunks the turn retrieved, so the
\* flag for documents that were not allowed is never raised against it.
THEOREM GeneratedAnswersNotFlagged == Spec => []GeneratedAnswersPassEval
<1>1. Init => ScopeInv /\ EvalInv
  BY DEF Init, ScopeInv, CacheWithinScope, AfterRetrieval, AfterDraft, EvalInv
<1>2. EvalInv => GeneratedAnswersPassEval
  BY DEF EvalInv, GeneratedAnswersPassEval
<1> QED
  BY <1>1, <1>2, ScopeStep, EvalStep, TypeCorrect, PTL DEF Spec, TypeInv

=============================================================================
