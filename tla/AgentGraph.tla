----------------------------- MODULE AgentGraph -----------------------------
(***************************************************************************)
(* The agent graph that answers a chat turn (app/graph/builder.py,         *)
(* app/graph/nodes.py) together with the caller that seeds it              *)
(* (app/api/chat.py).  One variable per key of GraphState; one action per  *)
(* graph node, which contains the node's state update AND the routing      *)
(* function evaluated after it, because LangGraph commits both in one      *)
(* superstep.  The Postgres checkpointer keeps every key of a thread       *)
(* between turns, so a turn starts from what the previous turn of the same *)
(* session left behind, except for the keys the caller seeds.              *)
(*                                                                         *)
(* Data is abstracted to what the properties distinguish: a message is a   *)
(* question (or Blank), a chunk is the collection it belongs to, a search  *)
(* text is the set of questions it is made of.  The answers of the LLM,    *)
(* the rerankers and the vector stores are nondeterministic choices.  The  *)
(* flags relevance_ok, grounded and intent are read only by the routing    *)
(* function of the superstep that writes them and are bound there.         *)
(***************************************************************************)
EXTENDS Naturals, FiniteSets

CONSTANTS
    Questions,              \* messages a user may send
    Blank,                  \* a whitespace-only message
    NoQuery,                \* an absent optional key (None in the code)
    FollowUps,              \* the questions is_follow_up accepts
    Collections,            \* document collections
    MaxGraphIterations,     \* settings.max_graph_iterations
    MaxRetrievalRetries,    \* settings.max_retrieval_retries
    MaxGenerationRetries,   \* settings.max_generation_retries
    HallucinationCheck,     \* settings.hallucination_check_enabled
    QdrantMayFail,          \* whether Qdrant may be unreachable during a turn
    MaxTurns                \* bound on the turns of the model

ASSUME SettingsAssumption ==
    /\ MaxGraphIterations \in Nat
    /\ MaxRetrievalRetries \in Nat
    /\ MaxGenerationRetries \in Nat
    /\ MaxTurns \in Nat
    /\ HallucinationCheck \in BOOLEAN
    /\ QdrantMayFail \in BOOLEAN

ASSUME QuestionsAssumption ==
    /\ Blank \notin Questions
    /\ NoQuery \notin Questions \cup {Blank}
    /\ FollowUps \subseteq Questions

VARIABLES
    node,                   \* the node about to run, or where the turn stopped
    turn,                   \* number of the turn
    query, allowed, iterations, retrieval_retries, generation_retries,
    prior,                  \* the user message before the current one
    rewritten_query,
    chunks,                 \* collections of the retrieved chunks
    about,                  \* the questions the chunks were searched for
    answer,
    answer_turn,            \* the turn that wrote `answer`
    citations,              \* collections of the cited chunks
    cache_hit, insufficient,
    replies,                \* assistant messages this turn added to `messages`
    cache                   \* entries of the semantic cache

\* The keys the caller seeds at every turn (`initial`).
seeded == <<query, allowed, iterations, retrieval_retries, generation_retries>>
\* The keys only nodes write: they survive from turn to turn.
carried == <<rewritten_query, chunks, about, answer, answer_turn, citations,
             cache_hit, insufficient>>
vars == <<node, turn, prior, replies, cache, seeded, carried>>

Intents == {"text", "visual", "metadata", "multi_doc"}
Answers == {"none", "blank_query", "insufficient_text", "text"}
GraphNodes ==
    {"input_guard", "semantic_cache", "router", "metadata_lookup", "planner", "retriever",
     "retrieval_grader", "rewrite", "generator", "hallucination_grader", "retry_generation",
     "finalize_answer", "cache_writer", "insufficient_answer", "eval_queue"}
\* No turn is running: none started yet, the last one ended, or it raised.
Quiescent == {"idle", "END", "raised"}
CacheEntries ==
    [scope: SUBSET Collections, colls: SUBSET Collections, cites: SUBSET Collections,
     answer: Answers]

TypeOK ==
    /\ node \in GraphNodes \cup Quiescent
    /\ turn \in Nat
    /\ query \in Questions \cup {Blank, NoQuery}
    /\ prior \in Questions \cup {Blank, NoQuery}
    /\ allowed \in SUBSET Collections
    /\ iterations \in Nat
    /\ retrieval_retries \in Nat
    /\ generation_retries \in Nat
    /\ rewritten_query \in Questions \cup {NoQuery}
    /\ chunks \in SUBSET Collections
    /\ about \in SUBSET (Questions \cup {Blank})
    /\ answer \in Answers
    /\ answer_turn \in Nat
    /\ citations \in SUBSET Collections
    /\ cache_hit \in BOOLEAN
    /\ insufficient \in BOOLEAN
    /\ replies \in Nat
    /\ cache \in SUBSET CacheEntries

Init ==
    /\ node = "idle" /\ turn = 0
    /\ query = NoQuery /\ prior = NoQuery /\ allowed = {}
    /\ iterations = 0 /\ retrieval_retries = 0 /\ generation_retries = 0
    /\ rewritten_query = NoQuery
    /\ chunks = {} /\ about = {}
    /\ answer = "none" /\ answer_turn = 0 /\ citations = {}
    /\ cache_hit = FALSE /\ insufficient = FALSE
    /\ replies = 0 /\ cache = {}

-----------------------------------------------------------------------------
(* The caller: /chat and /chat/stream.                                     *)

\* A request seeds the context keys and the counters, appends the user message
\* and invokes the graph on the session's thread.
Seed(q, scope) ==
    /\ node \in Quiescent /\ turn < MaxTurns
    /\ node' = "input_guard" /\ turn' = turn + 1
    /\ query' = q /\ allowed' = scope
    /\ iterations' = 0 /\ retrieval_retries' = 0 /\ generation_retries' = 0
    /\ replies' = 0
    /\ UNCHANGED cache

\* A turn of an existing session: every other key keeps its checkpointed value.
ContinueSession(q, scope) ==
    /\ turn > 0
    /\ Seed(q, scope)
    /\ prior' = query
    /\ UNCHANGED carried

\* The first turn of a new session: a new thread has no checkpoint.
NewSession(q, scope) ==
    /\ Seed(q, scope)
    /\ prior' = NoQuery
    /\ rewritten_query' = NoQuery
    /\ chunks' = {} /\ about' = {}
    /\ answer' = "none" /\ answer_turn' = 0 /\ citations' = {}
    /\ cache_hit' = FALSE /\ insufficient' = FALSE

-----------------------------------------------------------------------------
(* Routing.  A routing function reads the state its node has just written, *)
(* so the parameters are the values after the node's update.               *)

Terminal == "insufficient_answer"

\* Mutated OverBudget: the cap compared with the recursion limit.
OverRecursionLimit(its) == its >= 3 * MaxGraphIterations + 10

OverBudget(its) == its >= MaxGraphIterations

AfterInput(insuff) == IF insuff THEN "eval_queue" ELSE "semantic_cache"

AfterCache(hit) == IF hit THEN "eval_queue" ELSE "router"

AfterRouter(its, i) ==
    IF OverBudget(its) THEN Terminal
    ELSE IF i = "multi_doc" THEN "planner"
    ELSE IF i = "metadata" THEN "metadata_lookup"
    ELSE "retriever"

AfterMetadata(its, found) ==
    IF OverBudget(its) THEN Terminal
    ELSE IF found # {} THEN "generator" ELSE "retriever"

AfterGrade(its, ok) ==
    IF OverBudget(its) THEN Terminal
    ELSE IF ok THEN "generator"
    ELSE IF retrieval_retries < MaxRetrievalRetries THEN "rewrite"
    ELSE IF chunks # {} THEN "generator" ELSE Terminal

AfterHalluc(its, ok) ==
    IF OverBudget(its) THEN Terminal
    ELSE IF ok THEN "finalize_answer"
    ELSE IF generation_retries < MaxGenerationRetries THEN "retry_generation"
    ELSE Terminal

-----------------------------------------------------------------------------
(* Nodes.                                                                  *)

\* What every node does: it runs when the graph has reached it and counts
\* itself.  `query`, `allowed` and the turn are never written by a node.
Runs(n) ==
    /\ node = n
    /\ iterations' = iterations + 1
    /\ UNCHANGED <<turn, query, allowed, prior>>

input_guard ==
    /\ Runs("input_guard")
    /\ IF query = Blank
       THEN /\ insufficient' = TRUE /\ answer' = "blank_query" /\ answer_turn' = turn
            /\ replies' = replies + 1
       ELSE UNCHANGED <<insufficient, answer, answer_turn, replies>>
    /\ node' = AfterInput(insufficient')
    /\ UNCHANGED <<retrieval_retries, generation_retries, rewritten_query, chunks,
                   about, citations, cache_hit, cache>>

\* Mutated Servable: the permission component missing from the cache key.
ServableToAnyone == cache

\* The entries SemanticCache.lookup may serve: written under exactly this scope,
\* with sources inside it.  Age and the similarity of the questions decide which of
\* them is served, if any.
Servable == {e \in cache : e.scope = allowed /\ e.colls \subseteq allowed}

\* Citations of a served entry: the stored ones, else its source documents.
HitCitations(e) == IF e.cites # {} THEN e.cites ELSE e.colls

\* Mutated CacheMiss: the flag of an earlier turn's hit stays set.
CacheMissKeepsFlag == UNCHANGED <<cache_hit, answer, answer_turn, citations, replies>>

CacheMiss ==
    /\ cache_hit' = FALSE
    /\ UNCHANGED <<answer, answer_turn, citations, replies>>

CacheHit(e) ==
    /\ cache_hit' = TRUE
    /\ answer' = e.answer /\ answer_turn' = turn
    /\ citations' = HitCitations(e)
    /\ replies' = replies + 1

semantic_cache ==
    /\ Runs("semantic_cache")
    /\ \/ CacheMiss
       \/ allowed # {} /\ \E e \in Servable : CacheHit(e)
    /\ node' = AfterCache(cache_hit')
    /\ UNCHANGED <<retrieval_retries, generation_retries, rewritten_query, chunks,
                   about, insufficient, cache>>

\* IntentRouter.classify: the model's label when it is one of the four, "text"
\* otherwise; either way any of the four intents.
Classify == Intents

router ==
    /\ Runs("router")
    /\ \E intent \in Classify : node' = AfterRouter(iterations', intent)
    /\ UNCHANGED <<retrieval_retries, generation_retries, rewritten_query, chunks,
                   about, answer, answer_turn, citations, cache_hit, insufficient,
                   replies, cache>>

\* lookup_documents: documents of the requester's collections, or none.
LookupDocuments == SUBSET allowed

\* An error of the lookup degrades to no documents.
metadata_lookup ==
    /\ Runs("metadata_lookup")
    /\ chunks' \in LookupDocuments
    /\ about' = {query}
    /\ node' = AfterMetadata(iterations', chunks')
    /\ UNCHANGED <<retrieval_retries, generation_retries, rewritten_query, answer,
                   answer_turn, citations, cache_hit, insufficient, replies, cache>>

\* The plan is stored and never read by another node.
planner ==
    /\ Runs("planner")
    /\ node' = "retriever"
    /\ UNCHANGED <<retrieval_retries, generation_retries, carried, replies, cache>>

\* What the retriever searches for: the rewritten query if there is one, else the
\* question, with the previous user message in front of a follow-up.
SearchText ==
    IF rewritten_query # NoQuery THEN {rewritten_query}
    ELSE IF query \in FollowUps THEN {query, prior} \cap (Questions \cup {Blank})
    ELSE {query}

\* Mutated retriever: a search without the collection filter.
retriever_unfiltered ==
    /\ Runs("retriever")
    /\ chunks' \in SUBSET Collections
    /\ about' = SearchText
    /\ node' = "retrieval_grader"
    /\ UNCHANGED <<retrieval_retries, generation_retries, rewritten_query, answer,
                   answer_turn, citations, cache_hit, insufficient, replies, cache>>

\* Retriever.search filters by collection inside the store, and what it finds,
\* fuses and reranks there is up to the index.
Search == SUBSET allowed

\* The page hits of the visual intent only add images to the prompt and are left
\* out.
retriever ==
    /\ Runs("retriever")
    /\ chunks' \in Search
    /\ about' = SearchText
    /\ node' = "retrieval_grader"
    /\ UNCHANGED <<retrieval_retries, generation_retries, rewritten_query, answer,
                   answer_turn, citations, cache_hit, insufficient, replies, cache>>

\* grade_relevance: the model's opinion, which is not asked without chunks.
Relevance == IF chunks = {} THEN {FALSE} ELSE BOOLEAN

retrieval_grader ==
    /\ Runs("retrieval_grader")
    /\ \E relevance_ok \in Relevance : node' = AfterGrade(iterations', relevance_ok)
    /\ UNCHANGED <<retrieval_retries, generation_retries, rewritten_query, chunks,
                   about, answer, answer_turn, citations, cache_hit, insufficient,
                   replies, cache>>

\* Mutated rewrite: a rewriting restarts the turn's budgets.
rewrite_fresh_budget ==
    /\ node = "rewrite"
    /\ iterations' = 3
    /\ rewritten_query' = query
    /\ node' = "retriever"
    /\ UNCHANGED <<turn, query, allowed, prior, retrieval_retries, generation_retries,
                   chunks, about, answer, answer_turn, citations, cache_hit,
                   insufficient, replies, cache>>

\* Mutated rewrite: the model's blank output is kept.
rewrite_blank ==
    /\ Runs("rewrite")
    /\ retrieval_retries' = retrieval_retries + 1
    /\ rewritten_query' = Blank
    /\ node' = "retriever"
    /\ UNCHANGED <<generation_retries, chunks, about, answer, answer_turn, citations,
                   cache_hit, insufficient, replies, cache>>

\* The model's rewriting of the question, or the question itself.
rewrite ==
    /\ Runs("rewrite")
    /\ retrieval_retries' = retrieval_retries + 1
    /\ rewritten_query' = query
    /\ node' = "retriever"
    /\ UNCHANGED <<generation_retries, chunks, about, answer, answer_turn, citations,
                   cache_hit, insufficient, replies, cache>>

\* generate: an answer, the safe refusal, or the empty text of a failed LLM call.
Drafts == {"text", "insufficient_text", "none"}

\* assemble drops what is outside the scope, whatever retrieval returned.
Packed == chunks \cap allowed

\* Mutated ExtractCitations: a refusal leaves the citations of an earlier turn.
ExtractCitationsKeepsOld(draft) == IF draft = "text" THEN SUBSET Packed ELSE {citations}

\* extract_citations maps the markers the model wrote onto the packed chunks and
\* cites nothing for the safe refusal.
ExtractCitations(draft) == IF draft = "text" THEN SUBSET Packed ELSE {{}}

\* Mutated generator: the draft is already recorded as the assistant message.
generator_replies ==
    /\ Runs("generator")
    /\ answer' \in Drafts /\ answer_turn' = turn
    /\ citations' \in ExtractCitations(answer')
    /\ node' = "hallucination_grader"
    /\ replies' = replies + 1
    /\ UNCHANGED <<retrieval_retries, generation_retries, rewritten_query, chunks,
                   about, cache_hit, insufficient, cache>>

generator ==
    /\ Runs("generator")
    /\ answer' \in Drafts /\ answer_turn' = turn
    /\ citations' \in ExtractCitations(answer')
    /\ node' = "hallucination_grader"
    /\ UNCHANGED <<retrieval_retries, generation_retries, rewritten_query, chunks,
                   about, cache_hit, insufficient, replies, cache>>

\* Mutated Verdicts: with the check disabled every non-empty answer is accepted.
VerdictsAcceptAbstention ==
    IF HallucinationCheck
    THEN IF answer = "none" THEN {FALSE} ELSE BOOLEAN
    ELSE {answer # "none"}

\* The grader's verdicts for an answer, with the check enabled or not.
Verdicts ==
    IF HallucinationCheck
    THEN IF answer = "none" THEN {FALSE} ELSE BOOLEAN
    ELSE {answer \notin {"none", "insufficient_text"}}

hallucination_grader ==
    /\ Runs("hallucination_grader")
    /\ \E grounded \in Verdicts : node' = AfterHalluc(iterations', grounded)
    /\ UNCHANGED <<retrieval_retries, generation_retries, rewritten_query, chunks,
                   about, answer, answer_turn, citations, cache_hit, insufficient,
                   replies, cache>>

\* Mutated retry_generation: the retry is not counted.
retry_generation_uncounted ==
    /\ Runs("retry_generation")
    /\ node' = "generator"
    /\ UNCHANGED <<retrieval_retries, generation_retries, carried, replies, cache>>

retry_generation ==
    /\ Runs("retry_generation")
    /\ generation_retries' = generation_retries + 1
    /\ node' = "generator"
    /\ UNCHANGED <<retrieval_retries, carried, replies, cache>>

insufficient_answer ==
    /\ Runs(Terminal)
    /\ insufficient' = TRUE /\ answer' = "insufficient_text" /\ answer_turn' = turn
    /\ citations' = {}
    /\ replies' = replies + 1
    /\ node' = "eval_queue"
    /\ UNCHANGED <<retrieval_retries, generation_retries, rewritten_query, chunks,
                   about, cache_hit, cache>>

finalize_answer ==
    /\ Runs("finalize_answer")
    /\ replies' = replies + 1
    /\ node' = "cache_writer"
    /\ UNCHANGED <<retrieval_retries, generation_retries, carried, cache>>

Entry == [scope |-> allowed, colls |-> chunks, cites |-> citations, answer |-> answer]

\* The answer is stored under the asker's whole scope; a failing store is only
\* logged.
cache_writer ==
    /\ Runs("cache_writer")
    /\ \/ /\ answer # "none" /\ chunks # {} /\ ~insufficient
          /\ cache' = cache \cup {Entry}
       \/ UNCHANGED cache
    /\ node' = "eval_queue"
    /\ UNCHANGED <<retrieval_retries, generation_retries, carried, replies>>

\* The push to the Redis eval queue is best effort and nothing here reads it.
eval_queue ==
    /\ Runs("eval_queue")
    /\ node' = "END"
    /\ UNCHANGED <<retrieval_retries, generation_retries, carried, replies, cache>>

\* Nothing catches a failing Qdrant call of the cache lookup or of the search: the
\* node's update is lost and the request fails, with the thread as it was.
QdrantRaises ==
    /\ QdrantMayFail
    /\ node \in {"semantic_cache", "retriever"} /\ allowed # {}
    /\ node' = "raised"
    /\ UNCHANGED <<turn, prior, replies, cache, seeded, carried>>

GraphStep ==
    \/ input_guard \/ semantic_cache \/ router \/ metadata_lookup \/ planner \/ retriever
    \/ retrieval_grader \/ rewrite \/ generator \/ hallucination_grader \/ retry_generation
    \/ insufficient_answer \/ finalize_answer \/ cache_writer \/ eval_queue \/ QdrantRaises

Ask ==
    \E q \in Questions \cup {Blank}, scope \in SUBSET Collections :
        NewSession(q, scope) \/ ContinueSession(q, scope)

Next == GraphStep \/ Ask

\* A started turn is driven by a thread that nothing pauses; users may stop asking.
Spec == Init /\ [][Next]_vars /\ WF_vars(GraphStep)

-----------------------------------------------------------------------------
(* Properties.                                                             *)

\* The iteration cap is a backstop that holds for any settings: a turn takes at
\* most five nodes more than max_graph_iterations, whatever the LLM answers and
\* whatever the previous turns left in the thread (the bound that
\* tests/test_graph.py asserts).
IterationBound == iterations <= MaxGraphIterations + 5

\* The retry counters alone already bound a turn, so the cap is a second line of
\* defence: three nodes per retrieval retry, three per generation retry, eleven
\* otherwise.
RetriesBoundTurn ==
    iterations <= 11 + 3 * MaxRetrievalRetries + 3 * MaxGenerationRetries

\* Every entry of the semantic cache, whichever session wrote it, has its sources
\* and citations inside the scope it is keyed by, so serving it to a requester of
\* that scope shows nothing else.
CacheWithinScope ==
    \A e \in cache : e.colls \subseteq e.scope /\ e.cites \subseteq e.colls

\* An answer produced in this turn, generated or served from the cache, cites only
\* collections of this turn's scope, even when the session's scope has shrunk
\* since the chunks of an earlier turn were checkpointed.
CitedWithinScope ==
    node = "END" /\ answer_turn = turn /\ answer # "blank_query" => citations \subseteq allowed

\* The conversation gets exactly one assistant message from a turn that produced
\* an answer, on every path through the retry loops.
OneReplyPerTurn ==
    node = "END" /\ answer_turn = turn => replies = 1

\* A turn that ends without an answer of its own, and so replays the checkpointed
\* one, was short-circuited by the `insufficient` flag of an earlier turn of the
\* session (the defect docs/AUDIT.md section 11 records); no other leftover of the
\* thread, a cache hit included, can do that.
StaleReplyOnlyAfterRefusal ==
    node = "END" /\ answer_turn # turn => insufficient

\* What is stored is what the graph accepted: never the empty answer of a failed
\* LLM call, and with the grader disabled never an abstention.
OnlyAcceptedAnswersCached ==
    \A e \in cache : e.answer # "none" /\ (~HallucinationCheck => e.answer = "text")

\* evaluate's check of the payload that eval_queue pushed.
OnlyAllowedDocuments == citations \subseteq chunks

\* judge.py 57, models/eval.py 15: the security flag of an evaluation never falls on an
\* answer that the turn generated.  It does fall on answers from the cache, whose sources
\* are not the chunks in the thread, and on turns that replay an earlier one.
GeneratedAnswersPassEval ==
    node = "END" /\ ~OnlyAllowedDocuments => cache_hit \/ insufficient

\* Every turn comes to an end ("every path provably finite", builder.py).
TurnTerminates == node \in GraphNodes ~> node \in {"END", "raised"}

\* nodes.py says of the retriever: "A self-contained question is searched as
\* asked".  The rewritten query of an earlier turn refutes it.
SearchedAsAsked ==
    node = "retrieval_grader" /\ query \notin FollowUps => about = {query}
=============================================================================
