------------------------------ MODULE ChatTurns ------------------------------
(***************************************************************************)
(* The turns of one chat session (app/api/chat.py): the request handlers    *)
(* of /chat and /chat/stream, the thread that runs the agent graph for each  *)
(* of them, and what they leave in the three places a conversation lives    *)
(* in: the rows of chat_messages, the checkpoint of the graph thread, and    *)
(* the answer the client was sent.                                          *)
(*                                                                         *)
(* A turn is named by its request.  The graph itself is AgentGraph; here a   *)
(* run of it loads the checkpoint, saves it after every superstep, and ends  *)
(* with an answer or raises.  The admission slot is the semaphore that       *)
(* Admission implements.                                                    *)
(***************************************************************************)
EXTENDS Naturals, FiniteSets, Sequences

CONSTANTS
  Chats, Streams,      \* the requests to /chat and to /chat/stream
  None,                \* no answer
  TurnLimit,           \* the admission limit
  ExecutorThreads,     \* threads of the event loop's default executor
  MaxRestarts          \* bound: restarts of the backend

Requests == Chats \cup Streams

ASSUME ChatTurnsAssumption ==
  /\ Chats \cap Streams = {}
  /\ None \notin Requests
  /\ TurnLimit \in Nat
  /\ ExecutorThreads \in Nat
  /\ MaxRestarts \in Nat

VARIABLES
  session,     \* the chat_sessions row: "open" or "deleted"
  rows,        \* chat_messages of the session
  clock,       \* the last created_at given out
  request,     \* where each handler is
  began,       \* when its transaction began: created_at of the question's row,
               \* until that row is committed
  graph,       \* the graph run of each turn
  memory,      \* the state a running graph holds in memory
  checkpoint,  \* the state saved for the session's thread
  events,      \* asyncio queue between the producer and event_gen
  final,       \* final_state["answer"] of event_gen
  slots,       \* the requests that hold an admission slot
  crossed,     \* turns during whose request another one of the session was open
  overlapped,  \* turns during whose graph run another one was running
  restarts

handlerVars == <<session, rows, clock, request, began, crossed>>
graphVars == <<graph, memory, checkpoint, overlapped>>
vars == <<handlerVars, graphVars, events, final, slots, restarts>>

Ended == {"done", "refused", "failed", "timeout", "left", "killed"}
RequestStates == {"new", "admitted", "checked", "waiting", "streaming", "storing"} \cup Ended
GraphStates == {"none", "queued", "running", "finished", "raised"}

\* What the thread's state tells apart: whose messages it holds and who wrote
\* the answer key.
Thread == [asked : SUBSET Requests, answered : SUBSET Requests,
           answer : Requests \cup {None}]
Row == [role : {"user", "assistant"}, turn : Requests, of : Requests \cup {None}, at : Nat]
Event == {"values", "error", "end"} \X (Requests \cup {None})

EmptyThread == [asked |-> {}, answered |-> {}, answer |-> None]
Open(r) == request[r] \notin Ended \cup {"new"}
Running == {r \in Requests : graph[r] = "running"}

Init ==
  /\ session = "open" /\ rows = {} /\ clock = 0
  /\ request = [r \in Requests |-> "new"]
  /\ began = [r \in Requests |-> 0]
  /\ graph = [r \in Requests |-> "none"]
  /\ memory = [r \in Requests |-> EmptyThread]
  /\ checkpoint = EmptyThread
  /\ events = [r \in Requests |-> <<>>]
  /\ final = [r \in Requests |-> None]
  /\ slots = [k \in {"turns"} |-> {}]
  /\ crossed = {} /\ overlapped = {}
  /\ restarts = 0

Slots == INSTANCE Semaphore WITH
  Holders <- Requests, Keys <- {"turns"}, Limit <- [k \in {"turns"} |-> TurnLimit],
  held <- slots, lost <- {}

StoredAnswers == {m \in rows : m.role = "assistant"}

Goto(r, s) == request' = [request EXCEPT ![r] = s]

\* The path function of r returns or raises: rate_limit's exit code runs.
Return(r, s) == Goto(r, s) /\ Slots!Put("turns", r)

------------------------------------------------------------------------------
(* The common part of both endpoints.                                       *)

\* get_current_user's query begins the transaction; rate_limit takes a slot.
Admit(r) ==
  /\ request[r] = "new"
  /\ Slots!Take("turns", r)
  /\ Goto(r, "admitted")
  /\ clock' = clock + 1
  /\ began' = [began EXCEPT ![r] = clock + 1]
  /\ crossed' = LET others == {o \in Requests \ {r} : Open(o)} IN
                IF others = {} THEN crossed ELSE crossed \cup others \cup {r}
  /\ UNCHANGED <<session, rows, graphVars, events, final, restarts>>

\* 429: no slot is free, or another request of the user's took it.
Refuse(r) ==
  /\ request[r] = "new"
  /\ Goto(r, "refused")
  /\ UNCHANGED <<session, rows, clock, began, crossed, graphVars, events, final, slots, restarts>>

\* The probe of the backend, or the result of the last one if it is not older than its
\* ttl: true or false whatever the backend does now.
llm_available == BOOLEAN

\* 503 when it says no.
FindUnavailable(r) ==
  /\ request[r] = "admitted"
  /\ \E ok \in llm_available : ~ok
  /\ Return(r, "refused")
  /\ UNCHANGED <<session, rows, clock, began, crossed, graphVars, events, final, restarts>>

\* _owned_session: 404 when it is gone.
CheckSession(r) ==
  /\ request[r] = "admitted"
  /\ IF session = "deleted"
     THEN Return(r, "refused")
     ELSE Goto(r, "checked") /\ UNCHANGED slots
  /\ UNCHANGED <<session, rows, clock, began, crossed, graphVars, events, final, restarts>>

\* The commit of the question.  The foreign key fails when the session was
\* deleted since it was read.  /chat hands the graph to the default executor
\* and waits; /chat/stream returns, and with it the slot, before its producer
\* thread starts.
CommitQuestion(r) ==
  /\ request[r] = "checked"
  /\ IF session = "deleted"
     THEN /\ Return(r, "failed")
          /\ UNCHANGED <<rows, graph>>
     ELSE /\ rows' = rows \cup {[role |-> "user", turn |-> r, of |-> r, at |-> began[r]]}
          /\ graph' = [graph EXCEPT ![r] = "queued"]
          /\ IF r \in Chats
             THEN Goto(r, "waiting") /\ UNCHANGED slots
             ELSE Return(r, "streaming")
  /\ began' = [began EXCEPT ![r] = 0]
  /\ UNCHANGED <<session, clock, crossed, memory, checkpoint, overlapped, events, final, restarts>>

\* The assistant's row.  A deleted session makes the insert fail.
StoreAnswer(r, of) ==
  /\ clock' = clock + 1
  /\ rows' = IF session = "deleted" THEN rows
             ELSE rows \cup {[role |-> "assistant", turn |-> r, of |-> of, at |-> clock + 1]}
  /\ UNCHANGED <<session, began, crossed>>

------------------------------------------------------------------------------
(* /chat: wait_for(to_thread(graph.invoke)).                                 *)

ChatAnswered(r) ==
  /\ request[r] = "waiting"
  /\ graph[r] = "finished"
  /\ StoreAnswer(r, memory[r].answer)
  /\ Return(r, IF session = "deleted" THEN "failed" ELSE "done")
  /\ UNCHANGED <<graphVars, events, final, restarts>>

\* Mutated ChatRaised: the handler gives up while its run goes on.
ChatRaisedEarly(r) ==
  /\ request[r] = "waiting"
  /\ graph[r] \in {"running", "raised"}
  /\ Return(r, "failed")
  /\ UNCHANGED <<session, rows, clock, began, crossed, graphVars, events, final, restarts>>

ChatRaised(r) ==
  /\ request[r] = "waiting"
  /\ graph[r] = "raised"
  /\ Return(r, "failed")
  /\ UNCHANGED <<session, rows, clock, began, crossed, graphVars, events, final, restarts>>

\* The 504.  A thread that has started goes on; one that has not is cancelled.
ChatTimesOut(r) ==
  /\ request[r] = "waiting"
  /\ graph[r] \in {"queued", "running"}
  /\ graph' = [graph EXCEPT ![r] = IF @ = "queued" THEN "none" ELSE @]
  /\ Return(r, "timeout")
  /\ UNCHANGED <<session, rows, clock, began, crossed, memory, checkpoint,
                 overlapped, events, final, restarts>>

------------------------------------------------------------------------------
(* The graph run, in a thread of the executor or in _producer's.             *)

\* Nobody reads the queue of a client that left.
Emit(r, es) ==
  events' = IF request[r] = "streaming" THEN [events EXCEPT ![r] = @ \o es] ELSE events

\* Mutated LoadThread: the run does not find its thread and starts empty.
LoadThreadEmpty(r) ==
  /\ graph[r] = "queued"
  /\ r \in Chats => Cardinality(Running \cap Chats) < ExecutorThreads
  /\ LET loaded == [EmptyThread EXCEPT !.asked = {r}] IN
       /\ memory' = [memory EXCEPT ![r] = loaded]
       /\ checkpoint' = loaded
       /\ Emit(r, <<<<"values", loaded.answer>>>>)
  /\ graph' = [graph EXCEPT ![r] = "running"]
  /\ overlapped' = IF Running = {} THEN overlapped ELSE overlapped \cup Running \cup {r}
  /\ UNCHANGED <<handlerVars, final, slots, restarts>>

\* The run loads the checkpoint, appends the question and saves; "values" mode
\* emits this first state, with the answer the thread already had.
LoadThread(r) ==
  /\ graph[r] = "queued"
  /\ r \in Chats => Cardinality(Running \cap Chats) < ExecutorThreads
  /\ LET loaded == [checkpoint EXCEPT !.asked = @ \cup {r}] IN
       /\ memory' = [memory EXCEPT ![r] = loaded]
       /\ checkpoint' = loaded
       /\ Emit(r, <<<<"values", loaded.answer>>>>)
  /\ graph' = [graph EXCEPT ![r] = "running"]
  /\ overlapped' = IF Running = {} THEN overlapped ELSE overlapped \cup Running \cup {r}
  /\ UNCHANGED <<handlerVars, final, slots, restarts>>

\* The last superstep writes the answer and saves the whole state.
FinishGraph(r) ==
  /\ graph[r] = "running"
  /\ checkpoint' = [memory[r] EXCEPT !.answered = @ \cup {r}, !.answer = r]
  /\ memory' = [memory EXCEPT ![r] = [EmptyThread EXCEPT !.answer = r]]
  /\ graph' = [graph EXCEPT ![r] = "finished"]
  /\ Emit(r, <<<<"values", r>>, <<"end", None>>>>)
  /\ UNCHANGED <<handlerVars, overlapped, final, slots, restarts>>

\* Mutated RaiseGraph: no sentinel after an error (not in a finally clause).
RaiseGraphSilently(r) ==
  /\ graph[r] = "running"
  /\ checkpoint' \in {checkpoint, memory[r]}
  /\ memory' = [memory EXCEPT ![r] = EmptyThread]
  /\ graph' = [graph EXCEPT ![r] = "raised"]
  /\ Emit(r, <<<<"error", None>>>>)
  /\ UNCHANGED <<handlerVars, overlapped, final, slots, restarts>>

\* A node raises, before or after supersteps that saved the state.
RaiseGraph(r) ==
  /\ graph[r] = "running"
  /\ checkpoint' \in {checkpoint, memory[r]}
  /\ memory' = [memory EXCEPT ![r] = EmptyThread]
  /\ graph' = [graph EXCEPT ![r] = "raised"]
  /\ Emit(r, <<<<"error", None>>, <<"end", None>>>>)
  /\ UNCHANGED <<handlerVars, overlapped, final, slots, restarts>>

------------------------------------------------------------------------------
(* /chat/stream: event_gen.                                                  *)

\* One event of the queue: remember the last state, pass an error on, stop at
\* the sentinel.
TakeEvent(r) ==
  /\ request[r] = "streaming"
  /\ events[r] # <<>>
  /\ LET kind == Head(events[r])[1] IN
       /\ final' = IF kind = "values" THEN [final EXCEPT ![r] = Head(events[r])[2]] ELSE final
       /\ IF kind = "end" THEN Goto(r, "storing") ELSE UNCHANGED request
  /\ events' = [events EXCEPT ![r] = Tail(@)]
  /\ UNCHANGED <<session, rows, clock, began, crossed, graphVars, slots, restarts>>

\* Mutated StreamStores: the answer is read from the thread, not from the events.
StreamStoresThread(r) ==
  /\ request[r] = "storing"
  /\ StoreAnswer(r, checkpoint.answer)
  /\ Goto(r, IF session = "deleted" THEN "failed" ELSE "done")
  /\ final' = [final EXCEPT ![r] = None]
  /\ UNCHANGED <<graphVars, events, slots, restarts>>

StreamStores(r) ==
  /\ request[r] = "storing"
  /\ StoreAnswer(r, final[r])
  /\ Goto(r, IF session = "deleted" THEN "failed" ELSE "done")
  /\ final' = [final EXCEPT ![r] = None]
  /\ UNCHANGED <<graphVars, events, slots, restarts>>

\* The client closes the connection: event_gen is cancelled, the producer and
\* its graph run are not.
Disconnect(r) ==
  /\ request[r] \in {"streaming", "storing"}
  /\ Goto(r, "left")
  /\ events' = [events EXCEPT ![r] = <<>>]
  /\ final' = [final EXCEPT ![r] = None]
  /\ UNCHANGED <<session, rows, clock, began, crossed, graphVars, slots, restarts>>

------------------------------------------------------------------------------
\* delete_session: the rows go with the session; the checkpoint stays.
DeleteSession ==
  /\ session = "open"
  /\ session' = "deleted"
  /\ rows' = {}
  /\ UNCHANGED <<clock, request, began, crossed, graphVars, events, final, slots, restarts>>

\* The backend restarts: handlers, threads and queues are gone, the rows and the
\* checkpoint stay.  A run that was killed may have saved its state or not.  (Of an
\* idle backend a restart changes nothing.)
Restart ==
  /\ restarts < MaxRestarts
  /\ \E r \in Requests : Open(r) \/ graph[r] \in {"queued", "running"}
  /\ restarts' = restarts + 1
  /\ request' = [r \in Requests |-> IF Open(r) THEN "killed" ELSE request[r]]
  /\ graph' = [r \in Requests |->
       IF graph[r] \in {"queued", "running"} THEN "raised" ELSE graph[r]]
  /\ checkpoint' \in {checkpoint} \cup {memory[r] : r \in Running}
  /\ memory' = [r \in Requests |-> EmptyThread]
  /\ events' = [r \in Requests |-> <<>>]
  /\ slots' = [k \in {"turns"} |-> {}]
  /\ UNCHANGED <<session, rows, clock, began, crossed, overlapped, final>>

Handle(r) ==
  \/ Admit(r) \/ CheckSession(r) \/ CommitQuestion(r)
  \/ ChatAnswered(r) \/ ChatRaised(r)
  \/ TakeEvent(r) \/ StreamStores(r)

RunGraph(r) == LoadThread(r) \/ FinishGraph(r) \/ RaiseGraph(r)

Next ==
  \/ \E r \in Requests : Handle(r) \/ RunGraph(r) \/ Refuse(r)
                        \/ FindUnavailable(r) \/ ChatTimesOut(r) \/ Disconnect(r)
  \/ DeleteSession
  \/ Restart

\* The event loop runs every handler that can go on, and every graph run comes
\* to an end (AgentGraph); nobody is obliged to time out, leave or delete.
Spec ==
  /\ Init /\ [][Next]_vars
  /\ \A r \in Requests : WF_vars(Handle(r)) /\ WF_vars(RunGraph(r))

------------------------------------------------------------------------------
\* The type of every variable.
TypeOK ==
  /\ session \in {"open", "deleted"}
  /\ rows \in SUBSET Row
  /\ clock \in Nat
  /\ request \in [Requests -> RequestStates]
  /\ began \in [Requests -> Nat]
  /\ graph \in [Requests -> GraphStates]
  /\ memory \in [Requests -> Thread]
  /\ checkpoint \in Thread
  /\ events \in [Requests -> Seq(Event)]
  /\ final \in [Requests -> Requests \cup {None}]
  /\ slots \in [{"turns"} -> SUBSET Requests]
  /\ crossed \subseteq Requests
  /\ overlapped \subseteq Requests
  /\ restarts \in 0..MaxRestarts

\* A stored answer was written by its own turn.  The exception is a stream
\* whose graph raised: event_gen goes on after the error and stores the answer
\* the first "values" event carried over from an earlier turn.
StoredAnswerIsOwn ==
  \A a \in StoredAnswers :
    \/ a.of = a.turn
    \/ a.turn \in Streams /\ graph[a.turn] = "raised"

\* When nothing runs, the conversation the model remembers and the history the
\* user sees hold the same answers, but for turns that were cut off (504, a
\* closed connection, a restart) or whose graph runs overlapped: the last one to save
\* overwrites what the others added.
HistoryMatchesMemory ==
  (session = "open" /\ Running = {} /\ \A r \in Requests : ~Open(r) /\ graph[r] # "queued") =>
    \A r \in Requests :
      \/ r \in checkpoint.answered <=> \E a \in StoredAnswers : a.turn = r /\ a.of = r
      \/ request[r] \in {"timeout", "left", "killed"}
      \/ r \in overlapped

\* A client that sends one request at a time never has two runs on its thread,
\* unless one of its requests ended before its run: by a 504 or by leaving.
OverlapNeedsLeftover ==
  (overlapped # {} /\ crossed = {}) =>
    \E r \in overlapped : request[r] \in {"timeout", "left"}

\* Every request that was let in ends, whatever its graph run does: event_gen
\* waits for the queue without a timeout, and the sentinel always comes.
EveryRequestEnds == \A r \in Requests : Open(r) ~> request[r] \in Ended
==============================================================================
