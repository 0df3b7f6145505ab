-------------------------- MODULE KnowledgeGapsProofs --------------------------
(***************************************************************************)
(* Proofs about ChatTurns and KnowledgeGaps, for every set of requests and   *)
(* ratings and every number of restarts: whose answer a stored row holds,    *)
(* when the rows and the checkpoint agree, when two runs of a session        *)
(* overlap, and what the report of the gaps attributes to a question.        *)
(***************************************************************************)
EXTENDS KnowledgeGaps, SequenceTheorems, TLAPS

Before == {"new", "admitted", "checked"}
Live == {"queued", "running"}

\* Where a handler is and where the run of its graph is.
PhaseInv ==
  \A r \in Requests :
    /\ request[r] \in Before \cup {"refused"} => graph[r] = "none"
    /\ request[r] = "waiting" => r \in Chats /\ graph[r] # "none"
    /\ request[r] = "streaming" => r \in Streams /\ graph[r] # "none"
    /\ request[r] = "storing" => r \in Streams /\ graph[r] \in {"finished", "raised"}
    /\ graph[r] \in Live => request[r] \in {"waiting", "streaming", "timeout", "left"}
    /\ request[r] = "done" => graph[r] \in {"finished", "raised"}

\* Whoever is named as the writer of an answer has finished its run.
Known == {r \in Requests : graph[r] = "finished"} \cup {None}
Names(es, K) == \A i \in 1..Len(es) : es[i][2] \in K
NamedInv ==
  /\ checkpoint.answer \in Known
  /\ \A r \in Requests :
       memory[r].answer \in Known /\ final[r] \in Known /\ Names(events[r], Known)
  /\ \A a \in StoredAnswers : a.of \in Known

\* The events a run sends.
Value(x) == <<"values", x>>
Sentinel == <<"end", None>>

\* What event_gen has read and has still to read tells it the answer of a finished run.
Telling(r) ==
  \/ \E x \in Requests \cup {None} : events[r] = <<Value(x), Value(r), Sentinel>>
  \/ events[r] = <<Value(r), Sentinel>>
  \/ events[r] = <<Sentinel>> /\ final[r] = r
EventOf(r) ==
  /\ request[r] \in Before => events[r] = <<>>
  /\ request[r] = "streaming" /\ graph[r] = "queued" => events[r] = <<>>
  /\ request[r] = "streaming" /\ graph[r] = "running" =>
       \/ events[r] = <<>>
       \/ \E x \in Requests \cup {None} : events[r] = <<Value(x)>>
  /\ request[r] = "streaming" /\ graph[r] = "finished" => Telling(r)
  /\ request[r] = "storing" /\ graph[r] = "finished" => final[r] = r
  /\ request[r] = "waiting" /\ graph[r] = "finished" => memory[r].answer = r
EventInv == \A r \in Requests : EventOf(r)

\* Of the turns that overlapped no other, the checkpoint and every run that is going on
\* hold the answers of those that finished.
SerialInv ==
  /\ \A q \in Requests \ overlapped :
       /\ q \in checkpoint.answered <=> graph[q] = "finished"
       /\ \A o \in Running : q \in memory[o].answered <=> graph[q] = "finished"
  /\ \A o, p \in Running : o # p => o \in overlapped

\* Two requests that are open at once are crossed, and where nothing crossed, an overlap
\* has a leftover.
CrossedInv ==
  /\ \A r, o \in Requests : r # o /\ Open(r) /\ Open(o) => r \in crossed
  /\ OverlapNeedsLeftover

\* A deleted session has no rows; an open one has the answer of every turn that is done.
StoreInv ==
  /\ session = "deleted" => rows = {}
  /\ StoredAnswerIsOwn
  /\ \A r \in Requests : session = "open" /\ graph[r] = "finished" =>
       /\ request[r] # "failed"
       /\ request[r] = "done" => \E a \in StoredAnswers : a.turn = r /\ a.of = r
  /\ \A a \in StoredAnswers : request[a.turn] = "done"

\* The instant a turn's question has, or will have when it is committed.
Asked(r, x) ==
  \/ began[r] = x /\ x > 0
  \/ \E q \in rows : q.role = "user" /\ q.turn = r /\ q.at = x

\* Every instant has passed, and a turn's question has one.
AskedInv ==
  /\ \A r \in Requests, x \in Nat : Asked(r, x) => x <= clock
  /\ \A a \in StoredAnswers : a.at <= clock
  /\ \A r \in Requests, x, y \in Nat : Asked(r, x) /\ Asked(r, y) => x = y

\* It is in the handler, then in the rows for as long as it is needed.
QuestionInv ==
  /\ \A q \in rows : q.role = "user" => request[q.turn] \notin Before /\ q.of = q.turn
  /\ \A r \in Requests : request[r] = "new" => began[r] = 0
  /\ \A r \in Requests : request[r] \in {"admitted", "checked"} => began[r] > 0
  /\ \A r \in Requests : session = "open" /\ request[r] \in {"waiting", "streaming", "storing"} =>
       \E q \in rows : q.role = "user" /\ q.turn = r

\* Nothing was asked or answered since the question of an open turn that is not crossed.
AloneInv ==
  \A r \in Requests \ crossed, x \in Nat : Open(r) /\ Asked(r, x) =>
    /\ \A o \in Requests \ {r}, y \in Nat : Asked(o, y) => y < x
    /\ \A b \in StoredAnswers : b.at < x

\* Nor was anything between the question and the answer of one.
PairedInv ==
  \A a \in StoredAnswers : a.turn \notin crossed =>
    /\ \E q \in rows : q.role = "user" /\ q.turn = a.turn
    /\ \A x \in Nat : Asked(a.turn, x) =>
         /\ x < a.at
         /\ \A o \in Requests \ {a.turn}, y \in Nat : Asked(o, y) => y < x \/ a.at < y
         /\ \A b \in StoredAnswers \ {a} : b.at < x \/ a.at < b.at

TurnsInv ==
  /\ TypeOK /\ PhaseInv /\ NamedInv /\ EventInv /\ SerialInv /\ CrossedInv
  /\ StoreInv /\ AskedInv /\ QuestionInv /\ AloneInv /\ PairedInv

------------------------------------------------------------------------------
(* The state of a thread and its events.                                     *)

\* The state the run loads and the one it leaves.
Loaded(t, r) == [t EXCEPT !.asked = @ \cup {r}]
Wrote(t, r) == [t EXCEPT !.answered = @ \cup {r}, !.answer = r]
Credited(t, r) == [t EXCEPT !.answered = @ \cup {r}]
Left(r) == [EmptyThread EXCEPT !.answer = r]

\* Both are states of the thread, with these fields.
LEMMA ThreadFields ==
  ASSUME NEW t \in Thread, NEW r \in Requests
  PROVE  /\ Loaded(t, r) \in Thread
         /\ Loaded(t, r).answered = t.answered /\ Loaded(t, r).answer = t.answer
         /\ Wrote(t, r) \in Thread
         /\ Wrote(t, r).answered = t.answered \cup {r} /\ Wrote(t, r).answer = r
         /\ EmptyThread \in Thread /\ EmptyThread.answer = None
         /\ Left(r) \in Thread /\ Left(r).answer = r
<1>1. /\ Loaded(t, r) \in Thread
      /\ Loaded(t, r).answered = t.answered /\ Loaded(t, r).answer = t.answer
  BY DEF Thread, Loaded
<1>2. Credited(t, r) \in Thread /\ Credited(t, r).answered = t.answered \cup {r}
  BY DEF Thread, Credited
<1>3. Wrote(t, r) = [Credited(t, r) EXCEPT !.answer = r]
  BY DEF Wrote, Credited
<1>4. /\ Wrote(t, r) \in Thread
      /\ Wrote(t, r).answered = t.answered \cup {r} /\ Wrote(t, r).answer = r
  BY <1>2, <1>3 DEF Thread
<1>5. EmptyThread \in Thread /\ EmptyThread.answer = None
  BY DEF EmptyThread, Thread
<1>6. Left(r) \in Thread /\ Left(r).answer = r
  BY DEF Left, EmptyThread, Thread
<1> QED
  BY <1>1, <1>4, <1>5, <1>6

\* An event and the two that end a run are events.
LEMMA EventTypes ==
  ASSUME NEW x \in Requests \cup {None}, NEW r \in Requests
  PROVE  /\ <<<<"values", x>>>> \in Seq(Event)
         /\ <<<<"values", r>>, <<"end", None>>>> \in Seq(Event)
         /\ <<<<"error", None>>, <<"end", None>>>> \in Seq(Event)
<1>1. <<"values", x>> \in Event /\ <<"values", r>> \in Event
      /\ <<"end", None>> \in Event /\ <<"error", None>> \in Event
  BY DEF Event
<1> QED
  BY <1>1

\* Emit appends, or leaves the queue of a client that left.
LEMMA EmitAppends ==
  ASSUME TypeOK, NEW r \in Requests, NEW es \in Seq(Event), Emit(r, es)
  PROVE  /\ events' \in [Requests -> Seq(Event)]
         /\ \A o \in Requests \ {r} : events'[o] = events[o]
         /\ events'[r] = IF request[r] = "streaming" THEN events[r] \o es ELSE events[r]
<1>1. events \in [Requests -> Seq(Event)] /\ events[r] \in Seq(Event)
  BY DEF TypeOK
<1>2. events[r] \o es \in Seq(Event)
  BY <1>1
<1> QED
  BY <1>1, <1>2 DEF Emit

\* What the steps of a handler do to the requests and the slots.
LEMMA SlotTypes ==
  ASSUME TypeOK, NEW r \in Requests, Slots!Put("turns", r) \/ Slots!Take("turns", r)
  PROVE  slots' \in [{"turns"} -> SUBSET Requests]
<1>1. slots \in [{"turns"} -> SUBSET Requests]
  BY DEF TypeOK
<1>2. CASE Slots!Put("turns", r)
  BY <1>1, <1>2 DEF Slots!Put
<1>3. CASE Slots!Take("turns", r)
  BY <1>1, <1>3 DEF Slots!Take
<1> QED
  BY <1>2, <1>3

\* The names of a queue that has been appended to, or read from.
LEMMA NamesAppend ==
  ASSUME NEW S, NEW es \in Seq(S), NEW fs \in Seq(S), NEW K, Names(es, K), Names(fs, K)
  PROVE  Names(es \o fs, K)
BY DEF Names

\* The names of what is left of a queue after its head is read, and of that head.
LEMMA NamesRead ==
  ASSUME NEW S, NEW es \in Seq(S), NEW K, Names(es, K), es # <<>>
  PROVE  Names(Tail(es), K) /\ Head(es)[2] \in K
BY DEF Names

------------------------------------------------------------------------------
(* The steps of a turn, and their types.                                     *)

\* The steps of Next, one by one: what holds after each of them holds after Next.
TurnStep(r) ==
  \/ Admit(r) \/ CheckSession(r) \/ CommitQuestion(r) \/ ChatAnswered(r) \/ ChatRaised(r)
  \/ TakeEvent(r) \/ StreamStores(r) \/ LoadThread(r) \/ FinishGraph(r) \/ RaiseGraph(r)
  \/ Refuse(r) \/ FindUnavailable(r) \/ ChatTimesOut(r) \/ Disconnect(r)

\* A step of the module is a step of some turn, the deletion of the session or a restart.
LEMMA NextIsTurnStep ==
  ASSUME Next
  PROVE  (\E r \in Requests : TurnStep(r)) \/ DeleteSession \/ Restart
BY DEF Next, Handle, RunGraph, TurnStep

\* A row of the question, and of the answer.
LEMMA RowTypes ==
  ASSUME NEW r \in Requests, NEW of \in Requests \cup {None}, NEW x \in Nat
  PROVE  /\ [role |-> "user", turn |-> r, of |-> of, at |-> x] \in Row
         /\ [role |-> "assistant", turn |-> r, of |-> of, at |-> x] \in Row
BY DEF Row

\* Storing an answer adds one well-typed row and one tick.
LEMMA StoreTypes ==
  ASSUME TypeOK, NEW r \in Requests, NEW of \in Requests \cup {None}, StoreAnswer(r, of)
  PROVE  clock' \in Nat /\ rows' \in SUBSET Row
<1>1. clock \in Nat /\ rows \in SUBSET Row
  BY DEF TypeOK
<1>2. clock + 1 \in Nat
  BY <1>1
<1>3. [role |-> "assistant", turn |-> r, of |-> of, at |-> clock + 1] \in Row
  BY <1>2, RowTypes
<1> QED
  BY <1>1, <1>2, <1>3 DEF StoreAnswer

\* A handler's step leaves the types.
LEMMA HandlerTypes ==
  ASSUME TypeOK, NEW r \in Requests,
         Admit(r) \/ CheckSession(r) \/ CommitQuestion(r) \/ ChatAnswered(r) \/ ChatRaised(r)
           \/ Refuse(r) \/ FindUnavailable(r) \/ ChatTimesOut(r)
  PROVE  TypeOK'
<1>0. /\ request \in [Requests -> RequestStates] /\ graph \in [Requests -> GraphStates]
      /\ clock \in Nat /\ began \in [Requests -> Nat] /\ rows \in SUBSET Row
      /\ began[r] \in Nat
  BY DEF TypeOK
<1>1. \A s \in RequestStates : Goto(r, s) => request' \in [Requests -> RequestStates]
  BY <1>0 DEF Goto
<1>2. /\ "admitted" \in RequestStates /\ "checked" \in RequestStates
      /\ "waiting" \in RequestStates /\ "streaming" \in RequestStates
      /\ "done" \in RequestStates /\ "refused" \in RequestStates
      /\ "failed" \in RequestStates /\ "timeout" \in RequestStates
  BY DEF RequestStates, Ended
<1>3. CASE Admit(r)
  <2>1. clock + 1 \in Nat
    BY <1>0
  <2>2. clock' \in Nat /\ began' \in [Requests -> Nat]
    BY <1>0, <1>3, <2>1 DEF Admit
  <2>3. crossed' \subseteq Requests
    BY <1>3 DEF Admit, TypeOK
  <2>4. request' \in [Requests -> RequestStates]
    BY <1>1, <1>2, <1>3 DEF Admit
  <2>5. slots' \in [{"turns"} -> SUBSET Requests]
    BY <1>3, SlotTypes DEF Admit
  <2> QED
    BY <1>3, <2>2, <2>3, <2>4, <2>5 DEF Admit, TypeOK, graphVars
<1>4. CASE CheckSession(r)
  <2>1. request' \in [Requests -> RequestStates]
    BY <1>1, <1>2, <1>4 DEF CheckSession, Return
  <2>2. slots' \in [{"turns"} -> SUBSET Requests]
    BY <1>4, SlotTypes DEF CheckSession, Return, TypeOK
  <2> QED
    BY <1>4, <2>1, <2>2 DEF CheckSession, TypeOK, graphVars
<1>5. CASE CommitQuestion(r)
  <2>1. request' \in [Requests -> RequestStates]
    BY <1>1, <1>2, <1>5 DEF CommitQuestion, Return
  <2>2. slots' \in [{"turns"} -> SUBSET Requests]
    BY <1>5, SlotTypes DEF CommitQuestion, Return, TypeOK
  <2>3. [role |-> "user", turn |-> r, of |-> r, at |-> began[r]] \in Row
    BY <1>0, RowTypes
  <2>4. rows' \in SUBSET Row
    BY <1>0, <1>5, <2>3 DEF CommitQuestion
  <2>5. graph' \in [Requests -> GraphStates]
    BY <1>0, <1>5 DEF CommitQuestion, GraphStates
  <2>6. began' \in [Requests -> Nat]
    BY <1>0, <1>5 DEF CommitQuestion
  <2> QED
    BY <1>5, <2>1, <2>2, <2>4, <2>5, <2>6 DEF CommitQuestion, TypeOK
<1>6. CASE ChatAnswered(r)
  <2>1. memory[r].answer \in Requests \cup {None}
    BY DEF TypeOK, Thread
  <2>2. clock' \in Nat /\ rows' \in SUBSET Row
    BY <1>6, <2>1, StoreTypes DEF ChatAnswered
  <2>3. request' \in [Requests -> RequestStates]
    BY <1>1, <1>2, <1>6 DEF ChatAnswered, Return
  <2>4. slots' \in [{"turns"} -> SUBSET Requests]
    BY <1>6, SlotTypes DEF ChatAnswered, Return
  <2> QED
    BY <1>6, <2>2, <2>3, <2>4 DEF ChatAnswered, StoreAnswer, TypeOK, graphVars
<1>7. CASE ChatRaised(r) \/ FindUnavailable(r)
  <2>1. request' \in [Requests -> RequestStates]
    BY <1>1, <1>2, <1>7 DEF ChatRaised, FindUnavailable, Return
  <2>2. slots' \in [{"turns"} -> SUBSET Requests]
    BY <1>7, SlotTypes DEF ChatRaised, FindUnavailable, Return
  <2> QED
    BY <1>7, <2>1, <2>2 DEF ChatRaised, FindUnavailable, TypeOK, graphVars
<1>8. CASE Refuse(r)
  <2>1. request' \in [Requests -> RequestStates]
    BY <1>1, <1>2, <1>8 DEF Refuse
  <2> QED
    BY <1>8, <2>1 DEF Refuse, TypeOK, graphVars
<1>9. CASE ChatTimesOut(r)
  <2>1. request' \in [Requests -> RequestStates]
    BY <1>1, <1>2, <1>9 DEF ChatTimesOut, Return
  <2>2. slots' \in [{"turns"} -> SUBSET Requests]
    BY <1>9, SlotTypes DEF ChatTimesOut, Return
  <2>3. graph' \in [Requests -> GraphStates]
    BY <1>0, <1>9 DEF ChatTimesOut, GraphStates
  <2> QED
    BY <1>9, <2>1, <2>2, <2>3 DEF ChatTimesOut, TypeOK
<1> QED
  BY <1>3, <1>4, <1>5, <1>6, <1>7, <1>8, <1>9

\* So does a step of the graph run, of event_gen and of the backend.
LEMMA RunTypes ==
  ASSUME TypeOK, NEW r \in Requests,
         LoadThread(r) \/ FinishGraph(r) \/ RaiseGraph(r)
           \/ TakeEvent(r) \/ StreamStores(r) \/ Disconnect(r)
  PROVE  TypeOK'
<1>0. /\ request \in [Requests -> RequestStates] /\ graph \in [Requests -> GraphStates]
      /\ memory \in [Requests -> Thread] /\ checkpoint \in Thread /\ memory[r] \in Thread
      /\ events \in [Requests -> Seq(Event)] /\ events[r] \in Seq(Event)
      /\ final \in [Requests -> Requests \cup {None}]
      /\ overlapped \subseteq Requests /\ checkpoint.answer \in Requests \cup {None}
  BY DEF TypeOK, Thread
<1>1. /\ EmptyThread \in Thread /\ Left(r) \in Thread
      /\ \A t \in Thread : /\ Loaded(t, r) \in Thread /\ Loaded(t, r).answer = t.answer
                           /\ Wrote(t, r) \in Thread
  BY <1>0, ThreadFields
<1>2. CASE LoadThread(r)
  <2>1. /\ memory' = [memory EXCEPT ![r] = Loaded(checkpoint, r)]
        /\ checkpoint' = Loaded(checkpoint, r)
        /\ Emit(r, <<<<"values", checkpoint.answer>>>>)
    BY <1>0, <1>1, <1>2 DEF LoadThread, Loaded
  <2>2. memory' \in [Requests -> Thread] /\ checkpoint' \in Thread
    BY <1>0, <1>1, <2>1
  <2>3. <<<<"values", checkpoint.answer>>>> \in Seq(Event)
    BY <1>0, EventTypes
  <2>4. events' \in [Requests -> Seq(Event)]
    BY <2>1, <2>3, EmitAppends
  <2>5. graph' \in [Requests -> GraphStates] /\ overlapped' \subseteq Requests
    BY <1>0, <1>2 DEF LoadThread, GraphStates, Running
  <2> QED
    BY <1>2, <2>2, <2>4, <2>5 DEF LoadThread, TypeOK, handlerVars
<1>3. CASE FinishGraph(r)
  <2>1. memory' = [memory EXCEPT ![r] = Left(r)] /\ checkpoint' = Wrote(memory[r], r)
    BY <1>3 DEF FinishGraph, Wrote, Left
  <2>2. memory' \in [Requests -> Thread] /\ checkpoint' \in Thread
    BY <1>0, <1>1, <2>1
  <2>3. <<<<"values", r>>, <<"end", None>>>> \in Seq(Event)
    BY EventTypes
  <2>4. events' \in [Requests -> Seq(Event)]
    BY <1>3, <2>3, EmitAppends DEF FinishGraph
  <2>5. graph' \in [Requests -> GraphStates]
    BY <1>0, <1>3 DEF FinishGraph, GraphStates
  <2> QED
    BY <1>3, <2>2, <2>4, <2>5 DEF FinishGraph, TypeOK, handlerVars
<1>4. CASE RaiseGraph(r)
  <2>1. memory' \in [Requests -> Thread] /\ checkpoint' \in Thread
    BY <1>0, <1>1, <1>4 DEF RaiseGraph
  <2>2. <<<<"error", None>>, <<"end", None>>>> \in Seq(Event)
    BY EventTypes
  <2>3. events' \in [Requests -> Seq(Event)]
    BY <1>4, <2>2, EmitAppends DEF RaiseGraph
  <2>4. graph' \in [Requests -> GraphStates]
    BY <1>0, <1>4 DEF RaiseGraph, GraphStates
  <2> QED
    BY <1>4, <2>1, <2>3, <2>4 DEF RaiseGraph, TypeOK, handlerVars
<1>5. CASE TakeEvent(r)
  <2>1. Head(events[r]) \in Event /\ Tail(events[r]) \in Seq(Event)
    BY <1>0, <1>5 DEF TakeEvent
  <2>2. Head(events[r])[2] \in Requests \cup {None}
    BY <2>1 DEF Event
  <2>3. events' \in [Requests -> Seq(Event)]
    BY <1>0, <1>5, <2>1 DEF TakeEvent
  <2>4. final' \in [Requests -> Requests \cup {None}]
    BY <1>0, <1>5, <2>2 DEF TakeEvent
  <2>5. request' \in [Requests -> RequestStates]
    BY <1>0, <1>5 DEF TakeEvent, Goto, RequestStates
  <2> QED
    BY <1>5, <2>3, <2>4, <2>5 DEF TakeEvent, TypeOK, graphVars
<1>6. CASE StreamStores(r)
  <2>1. clock' \in Nat /\ rows' \in SUBSET Row
    BY <1>0, <1>6, StoreTypes DEF StreamStores
  <2>2. request' \in [Requests -> RequestStates]
    BY <1>0, <1>6 DEF StreamStores, Goto, RequestStates, Ended
  <2>3. final' \in [Requests -> Requests \cup {None}]
    BY <1>0, <1>6 DEF StreamStores
  <2> QED
    BY <1>6, <2>1, <2>2, <2>3 DEF StreamStores, StoreAnswer, TypeOK, graphVars
<1>7. CASE Disconnect(r)
  <2>1. request' \in [Requests -> RequestStates]
    BY <1>0, <1>7 DEF Disconnect, Goto, RequestStates, Ended
  <2>2. final' \in [Requests -> Requests \cup {None}] /\ events' \in [Requests -> Seq(Event)]
    BY <1>0, <1>7 DEF Disconnect
  <2> QED
    BY <1>7, <2>1, <2>2 DEF Disconnect, TypeOK, graphVars
<1> QED
  BY <1>2, <1>3, <1>4, <1>5, <1>6, <1>7

\* And the steps of the session and of the backend.
LEMMA SessionTypes ==
  ASSUME TypeOK, DeleteSession \/ Restart
  PROVE  TypeOK'
<1>1. CASE DeleteSession
  BY <1>1 DEF DeleteSession, TypeOK, graphVars
<1>2. CASE Restart
  <2>1. /\ request \in [Requests -> RequestStates] /\ graph \in [Requests -> GraphStates]
        /\ memory \in [Requests -> Thread] /\ checkpoint \in Thread
        /\ restarts \in 0..MaxRestarts /\ MaxRestarts \in Nat
    BY ChatTurnsAssumption DEF TypeOK
  <2>2. EmptyThread \in Thread
    BY DEF EmptyThread, Thread
  <2>3. memory' \in [Requests -> Thread] /\ checkpoint' \in Thread
    BY <1>2, <2>1, <2>2 DEF Restart, Running
  <2>4. restarts' \in 0..MaxRestarts
    BY <1>2, <2>1 DEF Restart
  <2>5. request' \in [Requests -> RequestStates] /\ graph' \in [Requests -> GraphStates]
    BY <1>2, <2>1 DEF Restart, RequestStates, GraphStates, Ended
  <2>6. events' \in [Requests -> Seq(Event)]
    BY <1>2 DEF Restart
  <2>7. slots' \in [{"turns"} -> SUBSET Requests]
    BY <1>2 DEF Restart
  <2> QED
    BY <1>2, <2>3, <2>4, <2>5, <2>6, <2>7 DEF Restart, TypeOK
<1> QED
  BY <1>1, <1>2

\* Every step keeps the types.
LEMMA NextTypes ==
  ASSUME TypeOK, Next
  PROVE  TypeOK'
BY NextIsTurnStep, HandlerTypes, RunTypes, SessionTypes DEF TurnStep

------------------------------------------------------------------------------
(* The phases of a turn and the events of its stream.                        *)

\* Head and tail of the queues a stream can have.
LEMMA TellingTails ==
  ASSUME NEW x, NEW y, NEW z
  PROVE  /\ <<x>> # <<>> /\ Head(<<x>>) = x /\ Tail(<<x>>) = <<>>
         /\ <<x, y>> # <<>> /\ Head(<<x, y>>) = x /\ Tail(<<x, y>>) = <<y>>
         /\ <<x, y, z>> # <<>> /\ Head(<<x, y, z>>) = x /\ Tail(<<x, y, z>>) = <<y, z>>
         /\ <<>> \o <<x>> = <<x>> /\ <<>> \o <<x, y>> = <<x, y>>
<1>1. <<x>> # <<>> /\ Head(<<x>>) = x /\ Tail(<<x>>) = <<>>
  OBVIOUS
<1>2. <<x, y>> # <<>> /\ Head(<<x, y>>) = x /\ Tail(<<x, y>>) = <<y>>
  OBVIOUS
<1>3. <<x, y, z>> # <<>> /\ Head(<<x, y, z>>) = x
  OBVIOUS
<1>6. Tail(<<x, y, z>>) = <<y, z>>
  OBVIOUS
<1>4. <<>> \o <<x>> = <<x>> /\ <<>> \o <<x, y>> = <<x, y>>
  OBVIOUS
<1> QED
  BY <1>1, <1>2, <1>3, <1>4, <1>6

\* Two events appended to one.
LEMMA AppendTwo ==
  ASSUME NEW x, NEW y, NEW z, NEW s, NEW t, NEW u,
         s = <<x>>, t = <<y, z>>, u = <<x, y, z>>
  PROVE  s \o t = u
<1> DEFINE S == {x, y, z}
<1>1. s \in Seq(S) /\ Len(s) = 1 /\ s[1] = x
  OBVIOUS
<1>2. t \in Seq(S) /\ Len(t) = 2 /\ t[1] = y /\ t[2] = z
  OBVIOUS
<1>3. u \in Seq(S) /\ Len(u) = 3 /\ u[1] = x /\ u[2] = y /\ u[3] = z
  OBVIOUS
<1> HIDE DEF S
<1>4. /\ s \o t \in Seq(S) /\ Len(s \o t) = Len(s) + Len(t)
      /\ \A i \in 1 .. Len(s) + Len(t) :
           (s \o t)[i] = IF i <= Len(s) THEN s[i] ELSE t[i - Len(s)]
  BY <1>1, <1>2, ConcatProperties
<1>5. Len(s \o t) = Len(u)
  BY <1>1, <1>2, <1>3, <1>4
<1>6. (s \o t)[1] = s[1] /\ (s \o t)[2] = t[1] /\ (s \o t)[3] = t[2]
  BY <1>1, <1>2, <1>4
<1>7. \A i \in 1..3 : i = 1 \/ i = 2 \/ i = 3
  OBVIOUS
<1>8. \A i \in 1..Len(s \o t) : (s \o t)[i] = u[i]
  BY <1>1, <1>2, <1>3, <1>5, <1>6, <1>7
<1> QED
  BY <1>3, <1>4, <1>5, <1>8, SeqEqual

\* What an event tells event_gen, by the state of the run.
LEMMA TakeEffect ==
  ASSUME TypeOK, PhaseInv, EventInv, NEW r \in Requests, TakeEvent(r)
  PROVE  /\ r \in Streams /\ graph[r] \in {"running", "finished", "raised"}
         /\ graph' = graph /\ memory' = memory
         /\ request' = request \/ request' = [request EXCEPT ![r] = "storing"]
         /\ graph[r] = "running" => request' = request /\ events'[r] = <<>>
         /\ graph[r] = "finished" =>
              \/ request' = request /\ Telling(r)'
              \/ request'[r] = "storing" /\ final'[r] = r
         /\ \A o \in Requests \ {r} : events'[o] = events[o] /\ final'[o] = final[o]
<1>1. /\ request[r] = "streaming" /\ events[r] # <<>> /\ graph' = graph /\ memory' = memory
      /\ request \in [Requests -> RequestStates]
      /\ events \in [Requests -> Seq(Event)] /\ final \in [Requests -> Requests \cup {None}]
      /\ events' = [events EXCEPT ![r] = Tail(events[r])]
  BY DEF TakeEvent, TypeOK, graphVars
<1>2. /\ r \in Streams /\ graph[r] # "none" /\ graph[r] \in GraphStates
      /\ graph[r] = "queued" => events[r] = <<>>
      /\ graph[r] = "running" =>
           events[r] = <<>> \/ \E x \in Requests \cup {None} : events[r] = <<Value(x)>>
      /\ graph[r] = "finished" => Telling(r)
  BY <1>1 DEF PhaseInv, EventInv, EventOf, TypeOK
<1>3. graph[r] \in {"running", "finished", "raised"}
  BY <1>1, <1>2 DEF GraphStates
<1> DEFINE head == Head(events[r])
<1>4. /\ head[1] = "values" => final' = [final EXCEPT ![r] = head[2]]
      /\ head[1] # "values" => final' = final
      /\ head[1] = "end" => request' = [request EXCEPT ![r] = "storing"]
      /\ head[1] # "end" => request' = request
  BY DEF TakeEvent, Goto
<1>5. events'[r] = Tail(events[r]) /\ \A o \in Requests \ {r} : events'[o] = events[o]
  BY <1>1
<1>6. \A o \in Requests \ {r} : final'[o] = final[o]
  BY <1>1, <1>4
<1>7. request' = request \/ request' = [request EXCEPT ![r] = "storing"]
  BY <1>4
<1>8. ASSUME graph[r] = "running" PROVE request' = request /\ events'[r] = <<>>
  <2>1. PICK x \in Requests \cup {None} : events[r] = <<Value(x)>>
    BY <1>1, <1>2, <1>8
  <2>2. head = Value(x) /\ Tail(events[r]) = <<>>
    BY <2>1, TellingTails
  <2> QED
    BY <1>4, <1>5, <2>2 DEF Value
<1>9. ASSUME graph[r] = "finished"
      PROVE  \/ request' = request /\ Telling(r)'
             \/ request'[r] = "storing" /\ final'[r] = r
  <2>1. CASE \E x \in Requests \cup {None} :
               events[r] = <<Value(x), Value(r), Sentinel>>
    <3>1. PICK x \in Requests \cup {None} :
            events[r] = <<Value(x), Value(r), Sentinel>>
      BY <2>1
    <3>2. head = Value(x) /\ Tail(events[r]) = <<Value(r), Sentinel>>
      BY <3>1, TellingTails
    <3>3. request' = request
      BY <1>4, <3>2 DEF Value
    <3>4. events'[r] = <<Value(r), Sentinel>>
      BY <1>5, <3>2
    <3> QED
      BY <3>3, <3>4 DEF Telling
  <2>2. CASE events[r] = <<Value(r), Sentinel>>
    <3>1. head = Value(r) /\ Tail(events[r]) = <<Sentinel>>
      BY <2>2, TellingTails
    <3>2. request' = request /\ final'[r] = r
      BY <1>1, <1>4, <3>1 DEF Value
    <3>3. events'[r] = <<Sentinel>>
      BY <1>5, <3>1
    <3> QED
      BY <3>2, <3>3 DEF Telling
  <2>3. CASE events[r] = <<Sentinel>> /\ final[r] = r
    <3>1. head = Sentinel
      BY <2>3, TellingTails
    <3> QED
      BY <1>1, <1>4, <2>3, <3>1 DEF Sentinel
  <2> QED
    BY <1>2, <1>9, <2>1, <2>2, <2>3 DEF Telling
<1> QED
  BY <1>1, <1>2, <1>3, <1>5, <1>6, <1>7, <1>8, <1>9

\* The phases: each step moves the handler or the run of one turn.
LEMMA PhaseStep ==
  ASSUME TypeOK, PhaseInv, EventInv, Next
  PROVE  PhaseInv'
<1>0. request \in [Requests -> RequestStates] /\ graph \in [Requests -> GraphStates]
  BY DEF TypeOK
<1>1. ASSUME NEW r \in Requests, TurnStep(r) PROVE PhaseInv'
  <2>1. CASE Admit(r) \/ Refuse(r) \/ FindUnavailable(r) \/ CheckSession(r)
    <3>1. /\ request[r] \in {"new", "admitted"} /\ graph' = graph
          /\ \E s \in {"admitted", "checked", "refused"} : request' = [request EXCEPT ![r] = s]
      BY <2>1 DEF Admit, Refuse, FindUnavailable, CheckSession, Return, Goto, graphVars
    <3> QED
      BY <1>0, <3>1 DEF PhaseInv, Before, Live
  <2>2. CASE CommitQuestion(r)
    <3>1. request[r] = "checked"
      BY <2>2 DEF CommitQuestion
    <3>2. \/ request' = [request EXCEPT ![r] = "failed"] /\ graph' = graph
          \/ /\ request' = [request EXCEPT ![r] = IF r \in Chats THEN "waiting" ELSE "streaming"]
             /\ graph' = [graph EXCEPT ![r] = "queued"]
      BY <2>2 DEF CommitQuestion, Return, Goto
    <3>3. r \in Chats \/ r \in Streams
      BY DEF Requests
    <3> QED
      BY <1>0, <3>1, <3>2, <3>3 DEF PhaseInv, Before, Live
  <2>3. CASE ChatAnswered(r) \/ ChatRaised(r)
    <3>1. /\ request[r] = "waiting" /\ graph[r] \in {"finished", "raised"} /\ graph' = graph
          /\ \E s \in {"failed", "done"} : request' = [request EXCEPT ![r] = s]
      BY <2>3 DEF ChatAnswered, ChatRaised, Return, Goto, graphVars
    <3> QED
      BY <1>0, <3>1 DEF PhaseInv, Before, Live
  <2>4. CASE ChatTimesOut(r)
    <3>1. /\ request[r] = "waiting" /\ graph[r] \in {"queued", "running"}
          /\ graph' = [graph EXCEPT ![r] = IF graph[r] = "queued" THEN "none" ELSE graph[r]]
          /\ request' = [request EXCEPT ![r] = "timeout"]
      BY <2>4 DEF ChatTimesOut, Return, Goto
    <3> QED
      BY <1>0, <3>1 DEF PhaseInv, Before, Live
  <2>5. CASE TakeEvent(r)
    <3>1. /\ r \in Streams /\ graph[r] \in {"running", "finished", "raised"} /\ graph' = graph
          /\ request' = request \/ request' = [request EXCEPT ![r] = "storing"]
          /\ graph[r] = "running" => request' = request
      BY <2>5, TakeEffect
    <3> QED
      BY <1>0, <3>1 DEF PhaseInv, Before, Live
  <2>6. CASE StreamStores(r)
    <3>1. /\ request[r] = "storing" /\ graph' = graph
          /\ \E s \in {"failed", "done"} : request' = [request EXCEPT ![r] = s]
      BY <2>6 DEF StreamStores, Goto, graphVars
    <3> QED
      BY <1>0, <3>1 DEF PhaseInv, Before, Live
  <2>7. CASE Disconnect(r)
    <3>1. /\ request[r] \in {"streaming", "storing"} /\ graph' = graph
          /\ request' = [request EXCEPT ![r] = "left"]
      BY <2>7 DEF Disconnect, Goto, graphVars
    <3> QED
      BY <1>0, <3>1 DEF PhaseInv, Before, Live
  <2>8. CASE LoadThread(r) \/ FinishGraph(r) \/ RaiseGraph(r)
    <3>1. /\ graph[r] \in Live /\ request' = request
          /\ \E s \in {"running", "finished", "raised"} : graph' = [graph EXCEPT ![r] = s]
      BY <2>8 DEF LoadThread, FinishGraph, RaiseGraph, Live, handlerVars
    <3> QED
      BY <1>0, <3>1 DEF PhaseInv, Before, Live
  <2> QED
    BY <1>1, <2>1, <2>2, <2>3, <2>4, <2>5, <2>6, <2>7, <2>8 DEF TurnStep
<1>2. CASE DeleteSession
  BY <1>2 DEF DeleteSession, PhaseInv, graphVars
<1>3. CASE Restart
  <2>1. /\ request' = [r \in Requests |-> IF Open(r) THEN "killed" ELSE request[r]]
        /\ graph' = [r \in Requests |->
             IF graph[r] \in {"queued", "running"} THEN "raised" ELSE graph[r]]
    BY <1>3 DEF Restart
  <2>2. \A r \in Requests : Open(r) <=> request[r] \in
          {"admitted", "checked", "waiting", "streaming", "storing"}
    BY <1>0 DEF Open, RequestStates, Ended
  <2> QED
    BY <2>1, <2>2, <1>0 DEF PhaseInv, Before, Live
<1> QED
  BY <1>1, <1>2, <1>3, NextIsTurnStep

\* A turn whose own state stays is told what it was.
LEMMA EventFrame ==
  ASSUME NEW o \in Requests, EventOf(o),
         request'[o] = request[o], graph'[o] = graph[o], events'[o] = events[o],
         final'[o] = final[o], memory'[o] = memory[o]
  PROVE  EventOf(o)'
BY DEF EventOf, Telling

\* What the stream is told of a run: each step changes the state of one turn.
LEMMA EventStep ==
  ASSUME TypeOK, PhaseInv, EventInv, Next
  PROVE  EventInv'
<1>0. /\ request \in [Requests -> RequestStates] /\ graph \in [Requests -> GraphStates]
      /\ memory \in [Requests -> Thread] /\ events \in [Requests -> Seq(Event)]
      /\ final \in [Requests -> Requests \cup {None}]
      /\ checkpoint.answer \in Requests \cup {None}
  BY DEF TypeOK, Thread
<1>1. ASSUME NEW r \in Requests, TurnStep(r) PROVE EventInv'
  <2>0. EventOf(r) /\ \A o \in Requests \ {r} : EventOf(o)
    BY DEF EventInv
  <2>1. /\ \A o \in Requests \ {r} : /\ request'[o] = request[o] /\ graph'[o] = graph[o]
                                     /\ events'[o] = events[o] /\ final'[o] = final[o]
                                     /\ memory'[o] = memory[o]
        /\ EventOf(r)'
    <3>1. CASE Admit(r) \/ Refuse(r) \/ FindUnavailable(r) \/ CheckSession(r)
      <4>1. /\ request[r] \in Before /\ UNCHANGED <<graph, memory, events, final>>
            /\ \E s \in {"admitted", "checked", "refused"} : request' = [request EXCEPT ![r] = s]
        BY <3>1 DEF Admit, Refuse, FindUnavailable, CheckSession, Return, Goto, graphVars, Before
      <4> QED
        BY <1>0, <2>0, <4>1 DEF EventOf
    <3>2. CASE ChatAnswered(r) \/ ChatRaised(r) \/ ChatTimesOut(r)
      <4>1. /\ UNCHANGED <<memory, events, final>>
            /\ graph' = graph \/ graph' = [graph EXCEPT ![r] = IF @ = "queued" THEN "none" ELSE @]
            /\ \E s \in {"failed", "done", "timeout"} : request' = [request EXCEPT ![r] = s]
        BY <3>2 DEF ChatAnswered, ChatRaised, ChatTimesOut, Return, Goto, graphVars
      <4> QED
        BY <1>0, <2>0, <4>1 DEF EventOf, Before
    <3>3. CASE CommitQuestion(r)
      <4>1. request[r] = "checked" /\ UNCHANGED <<memory, events, final>>
        BY <3>3 DEF CommitQuestion
      <4>2. \/ request' = [request EXCEPT ![r] = "failed"] /\ graph' = graph
            \/ /\ request' = [request EXCEPT ![r] = IF r \in Chats THEN "waiting" ELSE "streaming"]
               /\ graph' = [graph EXCEPT ![r] = "queued"]
        BY <3>3 DEF CommitQuestion, Return, Goto
      <4> QED
        BY <1>0, <2>0, <4>1, <4>2 DEF EventOf, Before
    <3>4. CASE LoadThread(r)
      <4>1. /\ graph[r] = "queued" /\ UNCHANGED <<request, final>>
            /\ graph' = [graph EXCEPT ![r] = "running"]
            /\ memory' = [memory EXCEPT ![r] = Loaded(checkpoint, r)]
            /\ Emit(r, <<Value(Loaded(checkpoint, r).answer)>>)
        BY <3>4 DEF LoadThread, handlerVars, Loaded, Value
      <4>2. Loaded(checkpoint, r).answer = checkpoint.answer
        BY ThreadFields DEF TypeOK
      <4>3. <<Value(checkpoint.answer)>> \in Seq(Event)
        BY <1>0, EventTypes DEF Value
      <4>4. /\ \A o \in Requests \ {r} : events'[o] = events[o]
            /\ events'[r] = IF request[r] = "streaming"
                            THEN events[r] \o <<Value(checkpoint.answer)>> ELSE events[r]
        BY <4>1, <4>2, <4>3, EmitAppends
      <4>5. request[r] = "streaming" => events'[r] = <<Value(checkpoint.answer)>>
        BY <2>0, <4>1, <4>4, TellingTails DEF EventOf
      <4>6. request[r] \notin Before
        BY <4>1 DEF PhaseInv
      <4> QED
        BY <1>0, <4>1, <4>4, <4>5, <4>6 DEF EventOf
    <3>5. CASE FinishGraph(r)
      <4>1. /\ graph[r] = "running" /\ UNCHANGED <<request, final>>
            /\ graph' = [graph EXCEPT ![r] = "finished"]
            /\ memory' = [memory EXCEPT ![r] = Left(r)]
            /\ Emit(r, <<Value(r), Sentinel>>)
        BY <3>5 DEF FinishGraph, handlerVars, Left, Value, Sentinel
      <4>2. Left(r).answer = r
        BY ThreadFields DEF TypeOK
      <4>3. <<Value(r), Sentinel>> \in Seq(Event)
        BY EventTypes DEF Value, Sentinel
      <4>4. /\ \A o \in Requests \ {r} : events'[o] = events[o]
            /\ events'[r] = IF request[r] = "streaming"
                            THEN events[r] \o <<Value(r), Sentinel>> ELSE events[r]
        BY <4>1, <4>3, EmitAppends
      <4>5. ASSUME request[r] = "streaming"
            PROVE  \/ events'[r] = <<Value(r), Sentinel>>
                   \/ \E x \in Requests \cup {None} :
                        events'[r] = <<Value(x), Value(r), Sentinel>>
        <5>1. CASE events[r] = <<>>
          BY <4>4, <4>5, <5>1, TellingTails
        <5>2. ASSUME NEW x \in Requests \cup {None}, events[r] = <<Value(x)>>
              PROVE  events'[r] = <<Value(x), Value(r), Sentinel>>
          <6> DEFINE s == events[r]
                     t == <<Value(r), Sentinel>>
                     u == <<Value(x), Value(r), Sentinel>>
          <6>1. s = <<Value(x)>> /\ t = <<Value(r), Sentinel>> /\ u = <<Value(x), Value(r), Sentinel>>
            BY <5>2
          <6>2. events'[r] = s \o t
            BY <4>4, <4>5
          <6> HIDE DEF s, t, u
          <6>3. s \o t = u
            BY <6>1, AppendTwo
          <6> QED
            BY <6>2, <6>3 DEF u
        <5> QED
          BY <2>0, <4>1, <4>5, <5>1, <5>2 DEF EventOf
      <4>6. request[r] = "streaming" => Telling(r)'
        BY <4>5 DEF Telling
      <4>7. request[r] \notin Before
        BY <4>1 DEF PhaseInv
      <4>8. request[r] # "storing"
        BY <4>1 DEF PhaseInv
      <4> QED
        BY <1>0, <4>1, <4>2, <4>4, <4>6, <4>7, <4>8 DEF EventOf
    <3>6. CASE RaiseGraph(r)
      <4>1. /\ graph[r] = "running" /\ UNCHANGED <<request, final>>
            /\ graph' = [graph EXCEPT ![r] = "raised"]
            /\ memory' = [memory EXCEPT ![r] = EmptyThread]
            /\ Emit(r, <<<<"error", None>>, <<"end", None>>>>)
        BY <3>6 DEF RaiseGraph, handlerVars
      <4>2. <<<<"error", None>>, <<"end", None>>>> \in Seq(Event)
        BY EventTypes
      <4>3. \A o \in Requests \ {r} : events'[o] = events[o]
        BY <4>1, <4>2, EmitAppends
      <4>4. request[r] \notin Before
        BY <4>1 DEF PhaseInv
      <4> QED
        BY <1>0, <4>1, <4>3, <4>4 DEF EventOf
    <3>7. CASE TakeEvent(r)
      <4>1. /\ r \in Streams /\ graph[r] \in {"running", "finished", "raised"}
            /\ graph' = graph /\ memory' = memory
            /\ request' = request \/ request' = [request EXCEPT ![r] = "storing"]
            /\ graph[r] = "running" => request' = request /\ events'[r] = <<>>
            /\ graph[r] = "finished" =>
                 \/ request' = request /\ Telling(r)'
                 \/ request'[r] = "storing" /\ final'[r] = r
            /\ \A o \in Requests \ {r} : events'[o] = events[o] /\ final'[o] = final[o]
        BY <3>7, TakeEffect
      <4>2. request[r] = "streaming"
        BY <3>7 DEF TakeEvent
      <4> QED
        BY <1>0, <4>1, <4>2 DEF EventOf, Before
    <3>8. CASE StreamStores(r) \/ Disconnect(r)
      <4>1. /\ UNCHANGED <<graph, memory>>
            /\ events' = events \/ events' = [events EXCEPT ![r] = <<>>]
            /\ final' = [final EXCEPT ![r] = None]
            /\ \E s \in {"failed", "done", "left"} : request' = [request EXCEPT ![r] = s]
        BY <3>8 DEF StreamStores, Disconnect, Goto, graphVars
      <4> QED
        BY <1>0, <4>1 DEF EventOf, Before
    <3> QED
      BY <1>1, <3>1, <3>2, <3>3, <3>4, <3>5, <3>6, <3>7, <3>8 DEF TurnStep
  <2> QED
    BY <2>0, <2>1, EventFrame DEF EventInv
<1>2. CASE DeleteSession
  BY <1>2, EventFrame DEF DeleteSession, EventInv, graphVars
<1>3. CASE Restart
  <2>1. /\ request' = [r \in Requests |-> IF Open(r) THEN "killed" ELSE request[r]]
        /\ events' = [r \in Requests |-> <<>>]
    BY <1>3 DEF Restart
  <2>2. \A r \in Requests : Open(r) <=> request[r] \in
          {"admitted", "checked", "waiting", "streaming", "storing"}
    BY <1>0 DEF Open, RequestStates, Ended
  <2>3. \A r \in Requests : events'[r] = <<>> /\ request'[r] \notin {"waiting", "streaming", "storing"}
    BY <2>1, <2>2
  <2> QED
    BY <2>3 DEF EventInv, EventOf
<1> QED
  BY <1>1, <1>2, <1>3, NextIsTurnStep

------------------------------------------------------------------------------
(* Who wrote what a thread, a queue or a row holds.                          *)

\* The rows of answers after the steps that touch the rows.
LEMMA StoredAfterCommit ==
  ASSUME NEW r \in Requests, CommitQuestion(r)
  PROVE  StoredAnswers' = StoredAnswers
BY DEF CommitQuestion, StoredAnswers

\* StoreAnswer adds the turn's row, now, when the session is open.
LEMMA StoredAfterStore ==
  ASSUME NEW r \in Requests, NEW of, StoreAnswer(r, of)
  PROVE  /\ session' = session /\ clock' = clock + 1 /\ StoredAnswers \subseteq StoredAnswers'
         /\ session = "deleted" => rows' = rows
         /\ {q \in rows' : q.role = "user"} = {q \in rows : q.role = "user"}
         /\ \A a \in StoredAnswers' \ StoredAnswers :
              session # "deleted" /\ a.turn = r /\ a.of = of /\ a.at = clock + 1
         /\ \A a, b \in StoredAnswers' \ StoredAnswers : a = b
         /\ session # "deleted" =>
              \E a \in StoredAnswers' : a.turn = r /\ a.of = of /\ a.at = clock + 1
<1> DEFINE a == [role |-> "assistant", turn |-> r, of |-> of, at |-> clock + 1]
<1>1. /\ session' = session /\ clock' = clock + 1
      /\ rows' = IF session = "deleted" THEN rows ELSE rows \cup {a}
  BY DEF StoreAnswer
<1>2. a.role = "assistant" /\ a.turn = r /\ a.of = of /\ a.at = clock + 1
  OBVIOUS
<1> HIDE DEF a
<1> QED
  BY <1>1, <1>2 DEF StoredAnswers

\* A run that has finished stays finished.
LEMMA KnownGrows ==
  ASSUME TypeOK, PhaseInv, Next
  PROVE  Known \subseteq Known'
<1>0. graph \in [Requests -> GraphStates]
  BY DEF TypeOK
<1>1. ASSUME NEW r \in Requests, TurnStep(r) PROVE Known \subseteq Known'
  <2>1. CASE CommitQuestion(r)
    <3>1. graph[r] = "none"
      BY <2>1 DEF CommitQuestion, PhaseInv, Before
    <3> QED
      BY <1>0, <2>1, <3>1 DEF CommitQuestion, Known
  <2>2. CASE ~CommitQuestion(r)
    BY <1>0, <1>1, <2>2 DEF TurnStep, Known, Admit, CheckSession, ChatAnswered, ChatRaised, TakeEvent,
       StreamStores, LoadThread, FinishGraph, RaiseGraph, Refuse, FindUnavailable, ChatTimesOut,
       Disconnect, graphVars
  <2> QED
    BY <2>1, <2>2
<1>2. CASE DeleteSession
  BY <1>2 DEF DeleteSession, graphVars, Known
<1>3. CASE Restart
  BY <1>0, <1>3 DEF Restart, Known
<1> QED
  BY <1>1, <1>2, <1>3, NextIsTurnStep

\* Each step copies names from where they are, or names the run that finishes.
LEMMA NamedStep ==
  ASSUME TypeOK, PhaseInv, EventInv, NamedInv, Next
  PROVE  NamedInv'
<1>0. /\ request \in [Requests -> RequestStates] /\ graph \in [Requests -> GraphStates]
      /\ memory \in [Requests -> Thread] /\ events \in [Requests -> Seq(Event)]
      /\ final \in [Requests -> Requests \cup {None}] /\ checkpoint \in Thread
      /\ checkpoint.answer \in Requests \cup {None} /\ None \in Known
  BY DEF TypeOK, Thread, Known
<1>1. Known \subseteq Known'
  BY KnownGrows
<1>2. /\ checkpoint.answer \in Known'
      /\ \A r \in Requests :
           memory[r].answer \in Known' /\ final[r] \in Known' /\ Names(events[r], Known')
      /\ \A a \in StoredAnswers : a.of \in Known'
  BY <1>1 DEF NamedInv, Names
<1>3. None \in Known' /\ EmptyThread.answer = None
  BY DEF Known, EmptyThread
<1>4. Names(<<>>, Known')
  BY DEF Names
<1>5. ASSUME NEW r \in Requests, TurnStep(r) PROVE NamedInv'
  <2>1. CASE Admit(r) \/ Refuse(r) \/ FindUnavailable(r) \/ CheckSession(r)
               \/ ChatRaised(r) \/ ChatTimesOut(r)
    <3>1. UNCHANGED <<rows, memory, checkpoint, events, final>>
      BY <2>1 DEF Admit, Refuse, FindUnavailable, CheckSession, ChatRaised, ChatTimesOut, graphVars
    <3>2. StoredAnswers' = StoredAnswers
      BY <3>1 DEF StoredAnswers
    <3> QED
      BY <1>2, <3>1, <3>2 DEF NamedInv
  <2>2. CASE CommitQuestion(r)
    <3>1. UNCHANGED <<memory, checkpoint, events, final>>
      BY <2>2 DEF CommitQuestion
    <3> QED
      BY <1>2, <2>2, <3>1, StoredAfterCommit DEF NamedInv
  <2>3. CASE ChatAnswered(r)
    <3>1. UNCHANGED <<memory, checkpoint, events, final>> /\ StoreAnswer(r, memory[r].answer)
      BY <2>3 DEF ChatAnswered, graphVars
    <3>2. \A a \in StoredAnswers' : a \in StoredAnswers \/ a.of = memory[r].answer
      BY <3>1, StoredAfterStore
    <3> QED
      BY <1>2, <3>1, <3>2 DEF NamedInv
  <2>4. CASE StreamStores(r)
    <3>1. /\ UNCHANGED <<memory, checkpoint, events>> /\ StoreAnswer(r, final[r])
          /\ final' = [final EXCEPT ![r] = None]
      BY <2>4 DEF StreamStores, graphVars
    <3>2. \A a \in StoredAnswers' : a \in StoredAnswers \/ a.of = final[r]
      BY <3>1, StoredAfterStore
    <3>3. \A o \in Requests : final'[o] \in Known'
      BY <1>0, <1>2, <1>3, <3>1
    <3> QED
      BY <1>2, <3>1, <3>2, <3>3 DEF NamedInv
  <2>5. CASE Disconnect(r)
    <3>1. /\ UNCHANGED <<rows, memory, checkpoint>>
          /\ final' = [final EXCEPT ![r] = None] /\ events' = [events EXCEPT ![r] = <<>>]
      BY <2>5 DEF Disconnect, graphVars
    <3>2. \A o \in Requests : final'[o] \in Known' /\ Names(events'[o], Known')
      BY <1>0, <1>2, <1>3, <1>4, <3>1
    <3>3. StoredAnswers' = StoredAnswers
      BY <3>1 DEF StoredAnswers
    <3> QED
      BY <1>2, <3>1, <3>2, <3>3 DEF NamedInv
  <2>6. CASE TakeEvent(r)
    <3>1. /\ UNCHANGED <<rows, memory, checkpoint>> /\ events[r] # <<>> /\ events[r] \in Seq(Event)
          /\ final' = [final EXCEPT ![r] = Head(events[r])[2]] \/ final' = final
          /\ events' = [events EXCEPT ![r] = Tail(events[r])]
      BY <1>0, <2>6 DEF TakeEvent, graphVars
    <3>2. Names(events[r], Known')
      BY <1>2
    <3>3. Names(Tail(events[r]), Known') /\ Head(events[r])[2] \in Known'
      BY <3>1, <3>2, NamesRead
    <3>4. \A o \in Requests : final'[o] \in Known' /\ Names(events'[o], Known')
      BY <1>0, <1>2, <3>1, <3>3
    <3>5. StoredAnswers' = StoredAnswers
      BY <3>1 DEF StoredAnswers
    <3> QED
      BY <1>2, <3>1, <3>4, <3>5 DEF NamedInv
  <2>7. CASE LoadThread(r) \/ FinishGraph(r) \/ RaiseGraph(r)
    <3>0. /\ rows' = rows /\ final' = final /\ StoredAnswers' = StoredAnswers
          /\ memory[r] \in Thread /\ memory[r].answer \in Known'
      BY <1>0, <1>2, <2>7 DEF LoadThread, FinishGraph, RaiseGraph, handlerVars, StoredAnswers
    <3>1. PICK es \in Seq(Event), t \in Thread :
            /\ Emit(r, es) /\ Names(es, Known')
            /\ memory' = [memory EXCEPT ![r] = t] /\ t.answer \in Known'
            /\ checkpoint'.answer \in Known'
      <4>1. CASE LoadThread(r)
        <5>1. /\ Emit(r, <<<<"values", checkpoint.answer>>>>) /\ Loaded(checkpoint, r) \in Thread
              /\ memory' = [memory EXCEPT ![r] = Loaded(checkpoint, r)]
              /\ checkpoint' = Loaded(checkpoint, r)
              /\ Loaded(checkpoint, r).answer = checkpoint.answer
          BY <1>0, <4>1, ThreadFields DEF LoadThread, Loaded
        <5>2. <<<<"values", checkpoint.answer>>>> \in Seq(Event)
          BY <1>0, EventTypes
        <5>3. Names(<<<<"values", checkpoint.answer>>>>, Known')
          BY <1>2 DEF Names
        <5> QED
          BY <1>2, <5>1, <5>2, <5>3
      <4>2. CASE FinishGraph(r)
        <5>1. /\ Emit(r, <<<<"values", r>>, <<"end", None>>>>) /\ Left(r) \in Thread
              /\ memory' = [memory EXCEPT ![r] = Left(r)] /\ checkpoint' = Wrote(memory[r], r)
          BY <4>2, <3>0, ThreadFields DEF FinishGraph, Wrote, Left
        <5>2. Left(r).answer = r /\ Wrote(memory[r], r).answer = r
          BY <3>0, ThreadFields
        <5>3. <<<<"values", r>>, <<"end", None>>>> \in Seq(Event)
          BY EventTypes
        <5>4. r \in Known'
          BY <1>0, <4>2 DEF FinishGraph, Known
        <5>5. Names(<<<<"values", r>>, <<"end", None>>>>, Known')
          BY <1>3, <5>4 DEF Names
        <5> QED
          BY <5>1, <5>2, <5>3, <5>4, <5>5
      <4>3. CASE RaiseGraph(r)
        <5>1. /\ Emit(r, <<<<"error", None>>, <<"end", None>>>>) /\ EmptyThread \in Thread
              /\ memory' = [memory EXCEPT ![r] = EmptyThread]
              /\ checkpoint' \in {checkpoint, memory[r]}
          BY <3>0, <4>3, ThreadFields DEF RaiseGraph
        <5>2. <<<<"error", None>>, <<"end", None>>>> \in Seq(Event)
          BY EventTypes
        <5>3. Names(<<<<"error", None>>, <<"end", None>>>>, Known')
          BY <1>3 DEF Names
        <5>4. checkpoint'.answer \in Known'
          BY <1>2, <3>0, <5>1
        <5> QED
          BY <1>3, <5>1, <5>2, <5>3, <5>4
      <4> QED
        BY <2>7, <4>1, <4>2, <4>3
    <3>2. /\ \A o \in Requests \ {r} : events'[o] = events[o]
          /\ events'[r] = IF request[r] = "streaming" THEN events[r] \o es ELSE events[r]
      BY <3>1, EmitAppends
    <3>3. Names(events[r] \o es, Known')
      BY <1>0, <1>2, <3>1, NamesAppend
    <3>4. \A o \in Requests : Names(events'[o], Known')
      BY <1>2, <3>2, <3>3
    <3>5. \A o \in Requests : memory'[o].answer \in Known'
      BY <1>0, <1>2, <3>1
    <3> QED
      BY <1>2, <3>0, <3>1, <3>4, <3>5 DEF NamedInv
  <2> QED
    BY <1>5, <2>1, <2>2, <2>3, <2>4, <2>5, <2>6, <2>7 DEF TurnStep
<1>6. CASE DeleteSession
  <2>1. UNCHANGED <<memory, checkpoint, events, final>> /\ StoredAnswers' = {}
    BY <1>6 DEF DeleteSession, StoredAnswers, graphVars
  <2> QED
    BY <1>2, <2>1 DEF NamedInv
<1>7. CASE Restart
  <2>1. /\ memory' = [r \in Requests |-> EmptyThread] /\ events' = [r \in Requests |-> <<>>]
        /\ UNCHANGED <<rows, final>> /\ checkpoint' \in {checkpoint} \cup {memory[r] : r \in Running}
    BY <1>7 DEF Restart
  <2>2. checkpoint'.answer \in Known'
    BY <1>2, <2>1 DEF Running
  <2>3. StoredAnswers' = StoredAnswers
    BY <2>1 DEF StoredAnswers
  <2>4. \A r \in Requests : memory'[r].answer \in Known' /\ Names(events'[r], Known')
    BY <1>3, <1>4, <2>1
  <2> QED
    BY <1>2, <2>1, <2>2, <2>3, <2>4 DEF NamedInv
<1> QED
  BY <1>5, <1>6, <1>7, NextIsTurnStep

------------------------------------------------------------------------------
(* Runs that overlap, and what the checkpoint holds of the others.            *)

\* Only the runs of the graph touch it.
LEMMA SerialStep ==
  ASSUME TypeOK, PhaseInv, SerialInv, Next
  PROVE  SerialInv'
<1>0. /\ graph \in [Requests -> GraphStates] /\ memory \in [Requests -> Thread]
      /\ checkpoint \in Thread /\ overlapped \subseteq Requests
      /\ \A o \in Requests : memory[o] \in Thread
  BY DEF TypeOK
<1>1. ASSUME NEW r \in Requests, TurnStep(r) PROVE SerialInv'
  <2>1. CASE Admit(r) \/ Refuse(r) \/ FindUnavailable(r) \/ CheckSession(r) \/ ChatRaised(r)
               \/ ChatAnswered(r) \/ StreamStores(r) \/ TakeEvent(r) \/ Disconnect(r)
    <3>1. UNCHANGED <<graph, memory, checkpoint, overlapped>>
      BY <2>1 DEF Admit, Refuse, FindUnavailable, CheckSession, ChatRaised, ChatAnswered, StreamStores,
         TakeEvent, Disconnect, graphVars
    <3> QED
      BY <3>1 DEF SerialInv, Running
  <2>2. CASE CommitQuestion(r) \/ ChatTimesOut(r)
    <3>1. /\ UNCHANGED <<memory, checkpoint, overlapped>>
          /\ graph[r] \notin {"running", "finished"} \/ graph' = graph
          /\ graph' = graph \/ \E s \in {"queued", "none"} : graph' = [graph EXCEPT ![r] = s]
      BY <1>0, <2>2 DEF CommitQuestion, ChatTimesOut, PhaseInv, Before
    <3>2. Running' = Running /\ \A q \in Requests : graph'[q] = "finished" <=> graph[q] = "finished"
      BY <1>0, <3>1 DEF Running
    <3> QED
      BY <3>1, <3>2 DEF SerialInv
  <2>3. CASE LoadThread(r)
    <3>1. /\ graph[r] = "queued" /\ graph' = [graph EXCEPT ![r] = "running"]
          /\ memory' = [memory EXCEPT ![r] = Loaded(checkpoint, r)]
          /\ checkpoint' = Loaded(checkpoint, r)
          /\ overlapped' = IF Running = {} THEN overlapped ELSE overlapped \cup Running \cup {r}
      BY <2>3 DEF LoadThread, Loaded
    <3>2. Loaded(checkpoint, r).answered = checkpoint.answered
      BY <1>0, ThreadFields
    <3>3. Running' = Running \cup {r} /\ \A q \in Requests : graph'[q] = "finished" <=> graph[q] = "finished"
      BY <1>0, <3>1 DEF Running
    <3>4. /\ memory'[r].answered = checkpoint.answered
          /\ checkpoint'.answered = checkpoint.answered
          /\ \A o \in Requests \ {r} : memory'[o] = memory[o]
      BY <1>0, <3>1, <3>2
    <3>5. overlapped \subseteq overlapped'
      BY <3>1
    <3>6. ASSUME NEW q \in Requests \ overlapped'
          PROVE  /\ q \in checkpoint'.answered <=> graph'[q] = "finished"
                 /\ \A o \in Running' : q \in memory'[o].answered <=> graph'[q] = "finished"
      <4>1. /\ q \in checkpoint.answered <=> graph[q] = "finished"
            /\ \A o \in Running : q \in memory[o].answered <=> graph[q] = "finished"
        BY <3>5 DEF SerialInv
      <4> QED
        BY <3>3, <3>4, <4>1 DEF Running
    <3>7. \A o, p \in Running' : o # p => o \in overlapped'
      BY <3>1, <3>3 DEF SerialInv
    <3> QED
      BY <3>6, <3>7 DEF SerialInv
  <2>4. CASE FinishGraph(r)
    <3>1. /\ graph[r] = "running" /\ graph' = [graph EXCEPT ![r] = "finished"]
          /\ checkpoint' = Wrote(memory[r], r) /\ overlapped' = overlapped
          /\ \A o \in Requests \ {r} : memory'[o] = memory[o]
      BY <1>0, <2>4 DEF FinishGraph, Wrote
    <3>2. checkpoint'.answered = memory[r].answered \cup {r}
      BY <1>0, <3>1, ThreadFields
    <3>3. Running' = Running \ {r} /\ r \in Running
      BY <1>0, <3>1 DEF Running
    <3>4. ASSUME NEW q \in Requests \ overlapped'
          PROVE  /\ q \in checkpoint'.answered <=> graph'[q] = "finished"
                 /\ \A o \in Running' : q \in memory'[o].answered <=> graph'[q] = "finished"
      <4>1. \A o \in Running : q \in memory[o].answered <=> graph[q] = "finished"
        BY <3>1 DEF SerialInv
      <4>2. CASE q = r
        <5>1. Running' = {}
          BY <3>1, <3>3, <4>2 DEF SerialInv
        <5> QED
          BY <1>0, <3>1, <3>2, <4>2, <5>1
      <4>3. CASE q # r
        <5>1. graph'[q] = graph[q]
          BY <1>0, <3>1, <4>3
        <5> QED
          BY <3>1, <3>2, <3>3, <4>1, <4>3, <5>1 DEF Running
      <4> QED
        BY <4>2, <4>3
    <3>5. \A o, p \in Running' : o # p => o \in overlapped'
      BY <3>1, <3>3 DEF SerialInv
    <3> QED
      BY <3>4, <3>5 DEF SerialInv
  <2>5. CASE RaiseGraph(r)
    <3>1. /\ graph[r] = "running" /\ graph' = [graph EXCEPT ![r] = "raised"]
          /\ checkpoint' \in {checkpoint, memory[r]} /\ overlapped' = overlapped
          /\ \A o \in Requests \ {r} : memory'[o] = memory[o]
      BY <1>0, <2>5 DEF RaiseGraph
    <3>2. /\ Running' = Running \ {r} /\ r \in Running
          /\ \A q \in Requests : graph'[q] = "finished" <=> graph[q] = "finished"
      BY <1>0, <3>1 DEF Running
    <3>3. ASSUME NEW q \in Requests \ overlapped'
          PROVE  /\ q \in checkpoint'.answered <=> graph'[q] = "finished"
                 /\ \A o \in Running' : q \in memory'[o].answered <=> graph'[q] = "finished"
      <4>1. /\ q \in checkpoint.answered <=> graph[q] = "finished"
            /\ \A o \in Running : q \in memory[o].answered <=> graph[q] = "finished"
        BY <3>1 DEF SerialInv
      <4> QED
        BY <3>1, <3>2, <4>1 DEF Running
    <3>4. \A o, p \in Running' : o # p => o \in overlapped'
      BY <3>1, <3>2 DEF SerialInv
    <3> QED
      BY <3>3, <3>4 DEF SerialInv
  <2> QED
    BY <1>1, <2>1, <2>2, <2>3, <2>4, <2>5 DEF TurnStep
<1>2. CASE DeleteSession
  BY <1>2 DEF DeleteSession, graphVars, SerialInv, Running
<1>3. CASE Restart
  <2>1. /\ checkpoint' \in {checkpoint} \cup {memory[r] : r \in Running} /\ overlapped' = overlapped
        /\ graph' = [r \in Requests |->
             IF graph[r] \in {"queued", "running"} THEN "raised" ELSE graph[r]]
    BY <1>3 DEF Restart
  <2>2. Running' = {} /\ \A q \in Requests : graph'[q] = "finished" <=> graph[q] = "finished"
    BY <1>0, <2>1 DEF Running
  <2>3. \A q \in Requests \ overlapped : q \in checkpoint'.answered <=> graph[q] = "finished"
    BY <2>1 DEF SerialInv
  <2> QED
    BY <2>1, <2>2, <2>3 DEF SerialInv
<1> QED
  BY <1>1, <1>2, <1>3, NextIsTurnStep

\* Requests that are open at once are crossed; an overlap without one has a leftover.
LEMMA CrossedStep ==
  ASSUME TypeOK, PhaseInv, CrossedInv, Next
  PROVE  CrossedInv'
<1>0. /\ request \in [Requests -> RequestStates] /\ graph \in [Requests -> GraphStates]
      /\ crossed \subseteq Requests /\ overlapped \subseteq Requests
  BY DEF TypeOK
<1>a. \A r \in Requests : Open(r) <=> request[r] \in
        {"admitted", "checked", "waiting", "streaming", "storing"}
  BY <1>0 DEF Open, RequestStates, Ended
\* Steps that open no request, and keep a leftover a leftover.
<1>1. ASSUME crossed' = crossed, overlapped' = overlapped,
             \A r \in Requests : Open(r)' => Open(r),
             \A r \in Requests : request[r] \in {"timeout", "left"} => request'[r] = request[r]
      PROVE  CrossedInv'
  <2>1. \A r, o \in Requests : r # o /\ Open(r)' /\ Open(o)' => r \in crossed'
    BY <1>1 DEF CrossedInv, Open
  <2>2. OverlapNeedsLeftover'
    BY <1>0, <1>1 DEF CrossedInv, OverlapNeedsLeftover
  <2> QED
    BY <2>1, <2>2 DEF CrossedInv, Open
<1>2. ASSUME NEW r \in Requests, TurnStep(r) PROVE CrossedInv'
  <2>1. CASE Admit(r)
    <3>1. /\ request[r] = "new" /\ request' = [request EXCEPT ![r] = "admitted"]
          /\ overlapped' = overlapped
      BY <2>1 DEF Admit, Goto, graphVars
    <3> DEFINE others == {o \in Requests \ {r} : Open(o)}
    <3>2. crossed' = IF others = {} THEN crossed ELSE crossed \cup others \cup {r}
      BY <2>1 DEF Admit
    <3>3. \A o \in Requests \ {r} : Open(o)' = Open(o)
      BY <1>0, <3>1 DEF Open
    <3>4. \A p, o \in Requests : p # o /\ Open(p)' /\ Open(o)' => p \in crossed'
      BY <3>2, <3>3 DEF CrossedInv
    <3>5. \A o \in Requests : request[o] \in {"timeout", "left"} => request'[o] = request[o]
      BY <1>0, <3>1
    <3>6. crossed \subseteq crossed'
      BY <3>2
    <3> QED
      BY <3>1, <3>4, <3>5, <3>6 DEF CrossedInv, OverlapNeedsLeftover
  <2>2. CASE LoadThread(r)
    <3>1. /\ graph[r] = "queued" /\ UNCHANGED <<request, crossed>>
          /\ overlapped' = IF Running = {} THEN overlapped ELSE overlapped \cup Running \cup {r}
      BY <2>2 DEF LoadThread, handlerVars
    <3>2. CASE Running = {}
      BY <3>1, <3>2, <1>1 DEF Open
    <3>3. CASE Running # {}
      <4>1. PICK o \in Requests : graph[o] = "running"
        BY <3>3 DEF Running
      <4>2. o # r /\ o \in overlapped' /\ r \in overlapped'
        BY <3>1, <3>3, <4>1 DEF Running
      <4>3. request[o] \in {"waiting", "streaming", "timeout", "left"}
            /\ request[r] \in {"waiting", "streaming", "timeout", "left"}
        BY <3>1, <4>1 DEF PhaseInv, Live
      <4>4. crossed = {} => request[o] \in {"timeout", "left"} \/ request[r] \in {"timeout", "left"}
        BY <1>a, <4>2, <4>3 DEF CrossedInv
      <4> QED
        BY <3>1, <4>2, <4>4 DEF CrossedInv, OverlapNeedsLeftover, Open
    <3> QED
      BY <3>2, <3>3
  <2>3. CASE ~Admit(r) /\ ~LoadThread(r)
    <3>1. crossed' = crossed /\ overlapped' = overlapped
      BY <1>2, <2>3 DEF TurnStep, CheckSession, CommitQuestion, ChatAnswered, ChatRaised, TakeEvent,
         StreamStores, FinishGraph, RaiseGraph, Refuse, FindUnavailable, ChatTimesOut, Disconnect,
         StoreAnswer, graphVars, handlerVars
    <3>2. \/ request' = request
          \/ /\ request[r] = "new" /\ request' = [request EXCEPT ![r] = "refused"]
          \/ /\ Open(r)
             /\ \E s \in RequestStates : request' = [request EXCEPT ![r] = s]
      <4>1. CASE CheckSession(r) \/ FindUnavailable(r) \/ CommitQuestion(r)
        BY <4>1, <1>a DEF CheckSession, FindUnavailable, CommitQuestion, Return, Goto, RequestStates, Ended
      <4>2. CASE ChatAnswered(r) \/ ChatRaised(r) \/ ChatTimesOut(r)
        BY <4>2, <1>a DEF ChatAnswered, ChatRaised, ChatTimesOut, Return, Goto, RequestStates, Ended
      <4>3. CASE TakeEvent(r) \/ StreamStores(r) \/ Disconnect(r)
        BY <4>3, <1>a DEF TakeEvent, StreamStores, Disconnect, Goto, RequestStates, Ended
      <4>4. CASE FinishGraph(r) \/ RaiseGraph(r) \/ Refuse(r)
        BY <4>4 DEF FinishGraph, RaiseGraph, Refuse, Goto, handlerVars
      <4> QED
        BY <1>2, <2>3, <4>1, <4>2, <4>3, <4>4 DEF TurnStep
    <3>3. \A o \in Requests : Open(o)' => Open(o)
      BY <1>0, <3>2 DEF Open, Ended
    <3>4. \A o \in Requests : request[o] \in {"timeout", "left"} => request'[o] = request[o]
      BY <1>0, <1>a, <3>2
    <3> QED
      BY <1>1, <3>1, <3>3, <3>4
  <2> QED
    BY <2>1, <2>2, <2>3
<1>3. CASE DeleteSession
  BY <1>3, <1>1 DEF DeleteSession, graphVars, Open
<1>4. CASE Restart
  <2>1. /\ request' = [r \in Requests |-> IF Open(r) THEN "killed" ELSE request[r]]
        /\ UNCHANGED <<crossed, overlapped>>
    BY <1>4 DEF Restart
  <2>2. \A r \in Requests : Open(r)' => Open(r)
    BY <2>1 DEF Open, Ended
  <2>3. \A r \in Requests : request[r] \in {"timeout", "left"} => request'[r] = request[r]
    BY <1>a, <2>1
  <2> QED
    BY <1>1, <2>1, <2>2, <2>3
<1> QED
  BY <1>2, <1>3, <1>4, NextIsTurnStep

------------------------------------------------------------------------------
(* The stored answers.                                                       *)

\* A step that stores no answer keeps what is said of them.
LEMMA StoreFrame ==
  ASSUME TypeOK, StoreInv, session' = session, StoredAnswers' = StoredAnswers,
         session = "deleted" => rows' = rows,
         \A o \in Requests : graph[o] = "raised" => graph'[o] = "raised",
         \A o \in Requests : request[o] = "done" => request'[o] = "done",
         \A o \in Requests :
           session = "open" /\ graph'[o] = "finished" /\ request'[o] \in {"done", "failed"} =>
             graph[o] = "finished" /\ request[o] = request'[o]
  PROVE  StoreInv'
<1>0. \A a \in StoredAnswers : a.turn \in Requests
  BY DEF TypeOK, StoredAnswers, Row
<1>1. session' = "deleted" => rows' = {}
  BY DEF StoreInv
<1>2. StoredAnswerIsOwn'
  BY <1>0 DEF StoreInv, StoredAnswerIsOwn
<1>3. \A r \in Requests : session' = "open" /\ graph'[r] = "finished" =>
        /\ request'[r] # "failed"
        /\ request'[r] = "done" => \E a \in StoredAnswers' : a.turn = r /\ a.of = r
  BY DEF StoreInv
<1>4. \A a \in StoredAnswers' : request'[a.turn] = "done"
  BY <1>0 DEF StoreInv
<1> QED
  BY <1>1, <1>2, <1>3, <1>4 DEF StoreInv

\* The step that stores one stores its own, but for a stream whose graph raised.
LEMMA StoreOwn ==
  ASSUME TypeOK, StoreInv, NEW r \in Requests, NEW of, StoreAnswer(r, of),
         of = r \/ (r \in Streams /\ graph[r] = "raised"),
         graph' = graph,
         request' = [request EXCEPT ![r] = IF session = "deleted" THEN "failed" ELSE "done"]
  PROVE  StoreInv'
<1>0. /\ \A a \in StoredAnswers : a.turn \in Requests
      /\ request \in [Requests -> RequestStates] /\ session \in {"open", "deleted"}
  BY DEF TypeOK, StoredAnswers, Row
<1>1. /\ session' = session /\ StoredAnswers \subseteq StoredAnswers'
      /\ session = "deleted" => rows' = rows
      /\ \A a \in StoredAnswers' \ StoredAnswers : session # "deleted" /\ a.turn = r /\ a.of = of
      /\ session # "deleted" => \E a \in StoredAnswers' : a.turn = r /\ a.of = of
  BY StoredAfterStore
<1>2. session' = "deleted" => rows' = {}
  BY <1>1 DEF StoreInv
<1>3. ASSUME NEW a \in StoredAnswers'
      PROVE  a.of = a.turn \/ (a.turn \in Streams /\ graph'[a.turn] = "raised")
  <2>1. CASE a \in StoredAnswers
    BY <2>1 DEF StoreInv, StoredAnswerIsOwn
  <2>2. CASE a \notin StoredAnswers
    BY <1>1, <2>2
  <2> QED
    BY <2>1, <2>2
<1>4. ASSUME NEW o \in Requests, session' = "open", graph'[o] = "finished"
      PROVE  /\ request'[o] # "failed"
             /\ request'[o] = "done" => \E a \in StoredAnswers' : a.turn = o /\ a.of = o
  <2>1. CASE o = r
    BY <1>0, <1>1, <1>4, <2>1
  <2>2. CASE o # r
    BY <1>0, <1>1, <1>4, <2>2 DEF StoreInv
  <2> QED
    BY <2>1, <2>2
<1>5. ASSUME NEW a \in StoredAnswers' PROVE request'[a.turn] = "done"
  <2>1. CASE a \in StoredAnswers
    <3>1. request[a.turn] = "done" /\ a.turn \in Requests /\ session # "deleted"
      BY <1>0, <2>1 DEF StoreInv, StoredAnswers
    <3> QED
      BY <1>0, <3>1
  <2>2. CASE a \notin StoredAnswers
    BY <1>0, <1>1, <2>2
  <2> QED
    BY <2>1, <2>2
<1>6. StoredAnswerIsOwn'
  BY <1>3 DEF StoredAnswerIsOwn
<1> QED
  BY <1>2, <1>4, <1>5, <1>6 DEF StoreInv

\* The answers of the rows are those of the runs that finished.
LEMMA StoreStep ==
  ASSUME TypeOK, PhaseInv, EventInv, StoreInv, Next
  PROVE  StoreInv'
<1>0. /\ request \in [Requests -> RequestStates] /\ graph \in [Requests -> GraphStates]
      /\ session \in {"open", "deleted"}
  BY DEF TypeOK
<1>1. ASSUME NEW r \in Requests, TurnStep(r) PROVE StoreInv'
  <2>1. CASE Admit(r) \/ Refuse(r) \/ FindUnavailable(r) \/ CheckSession(r) \/ ChatRaised(r)
               \/ TakeEvent(r) \/ Disconnect(r) \/ ChatTimesOut(r)
    <3>1. /\ UNCHANGED <<session, rows>>
          /\ graph' = graph
             \/ (graph[r] = "queued" /\ graph' = [graph EXCEPT ![r] = "none"])
      BY <1>0, <2>1 DEF Admit, Refuse, FindUnavailable, CheckSession, ChatRaised, TakeEvent, Disconnect,
         ChatTimesOut, graphVars
    <3>2. /\ request[r] # "done"
          /\ request' = request \/ \E s \in RequestStates \ {"done"} :
               /\ request' = [request EXCEPT ![r] = s]
               /\ s = "failed" => graph[r] = "raised"
      <4>1. CASE Admit(r) \/ Refuse(r) \/ FindUnavailable(r) \/ CheckSession(r)
        BY <4>1 DEF Admit, Refuse, FindUnavailable, CheckSession, Return, Goto, RequestStates, Ended
      <4>2. CASE ChatRaised(r) \/ ChatTimesOut(r) \/ TakeEvent(r) \/ Disconnect(r)
        BY <4>2 DEF ChatRaised, ChatTimesOut, TakeEvent, Disconnect, Return, Goto, RequestStates, Ended
      <4> QED
        BY <2>1, <4>1, <4>2
    <3>3. StoredAnswers' = StoredAnswers
      BY <3>1 DEF StoredAnswers
    <3>4. \A o \in Requests : graph[o] = "raised" => graph'[o] = "raised"
      BY <1>0, <3>1
    <3>5. \A o \in Requests : request[o] = "done" => request'[o] = "done"
      BY <1>0, <3>2
    <3>6. \A o \in Requests : graph'[o] = "finished" => graph[o] = "finished"
      BY <1>0, <3>1
    <3>7. \A o \in Requests :
            graph[o] = "finished" /\ request'[o] \in {"done", "failed"} => request[o] = request'[o]
      BY <1>0, <3>2
    <3> QED
      BY <3>1, <3>3, <3>4, <3>5, <3>6, <3>7, StoreFrame
  <2>2. CASE CommitQuestion(r)
    <3>1. /\ request[r] = "checked" /\ graph[r] = "none" /\ session' = session
          /\ \/ /\ session = "deleted" /\ UNCHANGED <<rows, graph>>
                /\ request' = [request EXCEPT ![r] = "failed"]
             \/ /\ session # "deleted" /\ graph' = [graph EXCEPT ![r] = "queued"]
                /\ \E s \in {"waiting", "streaming"} : request' = [request EXCEPT ![r] = s]
      BY <2>2 DEF CommitQuestion, Return, Goto, PhaseInv, Before
    <3>2. StoredAnswers' = StoredAnswers
      BY <2>2, StoredAfterCommit
    <3>3. \A o \in Requests : graph[o] = "raised" => graph'[o] = "raised"
      BY <1>0, <3>1
    <3>4. \A o \in Requests : request[o] = "done" => request'[o] = "done"
      BY <1>0, <3>1
    <3>5. ASSUME NEW o \in Requests, session = "open", graph'[o] = "finished",
                 request'[o] \in {"done", "failed"}
          PROVE  graph[o] = "finished" /\ request[o] = request'[o]
      BY <1>0, <3>1, <3>5
    <3> QED
      BY <3>1, <3>2, <3>3, <3>4, <3>5, StoreFrame
  <2>3. CASE LoadThread(r) \/ FinishGraph(r) \/ RaiseGraph(r)
    <3>1. /\ UNCHANGED <<session, rows, request>>
          /\ graph[r] \in Live /\ \E s \in GraphStates : graph' = [graph EXCEPT ![r] = s]
      BY <2>3 DEF LoadThread, FinishGraph, RaiseGraph, handlerVars, Live, GraphStates
    <3>2. StoredAnswers' = StoredAnswers
      BY <3>1 DEF StoredAnswers
    <3>3. request[r] \notin {"done", "failed"}
      BY <3>1 DEF PhaseInv
    <3>4. \A o \in Requests : graph[o] = "raised" => graph'[o] = "raised"
      BY <1>0, <3>1 DEF Live
    <3>5. \A o \in Requests : graph'[o] = "finished" /\ request'[o] \in {"done", "failed"} =>
            graph[o] = "finished"
      BY <1>0, <3>1, <3>3
    <3> QED
      BY <3>1, <3>2, <3>4, <3>5, StoreFrame
  <2>4. CASE ChatAnswered(r)
    <3>1. /\ StoreAnswer(r, memory[r].answer) /\ graph' = graph
          /\ request' = [request EXCEPT ![r] = IF session = "deleted" THEN "failed" ELSE "done"]
      BY <2>4 DEF ChatAnswered, Return, Goto, graphVars
    <3>2. memory[r].answer = r
      BY <2>4 DEF ChatAnswered, EventInv, EventOf
    <3> QED
      BY <3>1, <3>2, StoreOwn
  <2>5. CASE StreamStores(r)
    <3>1. /\ StoreAnswer(r, final[r]) /\ graph' = graph /\ request[r] = "storing"
          /\ request' = [request EXCEPT ![r] = IF session = "deleted" THEN "failed" ELSE "done"]
      BY <2>5 DEF StreamStores, Goto, graphVars
    <3>2. r \in Streams /\ graph[r] \in {"finished", "raised"}
      BY <3>1 DEF PhaseInv
    <3>3. graph[r] = "finished" => final[r] = r
      BY <3>1 DEF EventInv, EventOf
    <3> QED
      BY <3>1, <3>2, <3>3, StoreOwn
  <2> QED
    BY <1>1, <2>1, <2>2, <2>3, <2>4, <2>5 DEF TurnStep
<1>2. CASE DeleteSession
  BY <1>0, <1>2 DEF DeleteSession, StoreInv, StoredAnswerIsOwn, StoredAnswers
<1>3. CASE Restart
  <2>1. /\ UNCHANGED <<session, rows>>
        /\ request' = [r \in Requests |-> IF Open(r) THEN "killed" ELSE request[r]]
        /\ graph' = [r \in Requests |->
             IF graph[r] \in {"queued", "running"} THEN "raised" ELSE graph[r]]
    BY <1>3 DEF Restart
  <2>2. StoredAnswers' = StoredAnswers
    BY <2>1 DEF StoredAnswers
  <2>3. \A o \in Requests : request[o] = "done" => request'[o] = "done"
    BY <2>1 DEF Open, Ended
  <2>4. \A o \in Requests : graph[o] = "raised" => graph'[o] = "raised"
    BY <2>1
  <2>5. \A o \in Requests : graph'[o] = "finished" /\ request'[o] \in {"done", "failed"} =>
          graph[o] = "finished" /\ request[o] = request'[o]
    BY <2>1
  <2> QED
    BY <2>1, <2>2, <2>3, <2>4, <2>5, StoreFrame
<1> QED
  BY <1>1, <1>2, <1>3, NextIsTurnStep

------------------------------------------------------------------------------
(* The instants of the questions and of the answers.                          *)

\* A turn's question is in the rows from its commit on, until the session goes.
LEMMA QuestionStep ==
  ASSUME TypeOK, QuestionInv, Next
  PROVE  QuestionInv'
<1>0. /\ request \in [Requests -> RequestStates] /\ began \in [Requests -> Nat] /\ clock \in Nat
      /\ session \in {"open", "deleted"} /\ \A q \in rows : q.turn \in Requests
  BY DEF TypeOK, Row
<1>1. ASSUME NEW r \in Requests, TurnStep(r) PROVE QuestionInv'
  <2>1. CASE Admit(r)
    <3>1. /\ request[r] = "new" /\ request' = [request EXCEPT ![r] = "admitted"]
          /\ began' = [began EXCEPT ![r] = clock + 1] /\ UNCHANGED <<session, rows>>
      BY <2>1 DEF Admit, Goto
    <3>2. \A q \in rows : q.role = "user" => request'[q.turn] \notin Before /\ q.of = q.turn
      BY <1>0, <3>1 DEF QuestionInv, Before
    <3> QED
      BY <1>0, <3>1, <3>2 DEF QuestionInv
  <2>2. CASE CommitQuestion(r) /\ session = "deleted"
    <3>1. /\ request[r] = "checked" /\ request' = [request EXCEPT ![r] = "failed"]
          /\ began' = [began EXCEPT ![r] = 0] /\ UNCHANGED <<session, rows>>
      BY <2>2 DEF CommitQuestion, Return, Goto
    <3>2. \A q \in rows : q.role = "user" => request'[q.turn] \notin Before /\ q.of = q.turn
      BY <1>0, <3>1 DEF QuestionInv, Before
    <3> QED
      BY <1>0, <2>2, <3>1, <3>2 DEF QuestionInv
  <2>3. CASE CommitQuestion(r) /\ session # "deleted"
    <3> DEFINE c == [role |-> "user", turn |-> r, of |-> r, at |-> began[r]]
    <3>1. /\ request[r] = "checked" /\ session' = session
          /\ request' = [request EXCEPT ![r] = IF r \in Chats THEN "waiting" ELSE "streaming"]
          /\ began' = [began EXCEPT ![r] = 0] /\ rows' = rows \cup {c}
      BY <2>3 DEF CommitQuestion, Return, Goto
    <3>2. c.role = "user" /\ c.turn = r /\ c.of = r
      OBVIOUS
    <3> HIDE DEF c
    <3>3. \A q \in rows' : q.role = "user" => request'[q.turn] \notin Before /\ q.of = q.turn
      BY <1>0, <3>1, <3>2 DEF QuestionInv, Before
    <3>4. \A o \in Requests : session' = "open" /\ request'[o] \in {"waiting", "streaming", "storing"} =>
            \E q \in rows' : q.role = "user" /\ q.turn = o
      BY <1>0, <3>1, <3>2 DEF QuestionInv
    <3> QED
      BY <1>0, <3>1, <3>3, <3>4 DEF QuestionInv
  <2>4. CASE ~Admit(r) /\ ~CommitQuestion(r)
    <3>1. /\ UNCHANGED <<session, began>>
          /\ \A q : q.role = "user" => (q \in rows' <=> q \in rows)
      <4>1. CASE \E of : StoreAnswer(r, of)
        BY <4>1 DEF StoreAnswer
      <4>2. CASE rows' = rows /\ session' = session /\ began' = began
        BY <4>2
      <4> QED
        BY <1>1, <2>4, <4>1, <4>2 DEF TurnStep, CheckSession, ChatAnswered, ChatRaised, TakeEvent,
           StreamStores, LoadThread, FinishGraph, RaiseGraph, Refuse, FindUnavailable, ChatTimesOut,
           Disconnect, handlerVars
    <3>2. \/ request' = request
          \/ request[r] = "admitted" /\ request' = [request EXCEPT ![r] = "checked"]
          \/ request[r] = "streaming" /\ request' = [request EXCEPT ![r] = "storing"]
          \/ \E s \in Ended : request' = [request EXCEPT ![r] = s]
      <4>1. CASE CheckSession(r) \/ FindUnavailable(r) \/ Refuse(r)
        BY <4>1 DEF CheckSession, FindUnavailable, Refuse, Return, Goto, Ended
      <4>2. CASE ChatAnswered(r) \/ ChatRaised(r) \/ ChatTimesOut(r)
        BY <4>2 DEF ChatAnswered, ChatRaised, ChatTimesOut, Return, Goto, Ended
      <4>3. CASE TakeEvent(r) \/ StreamStores(r) \/ Disconnect(r)
        BY <4>3 DEF TakeEvent, StreamStores, Disconnect, Goto, Ended
      <4>4. CASE LoadThread(r) \/ FinishGraph(r) \/ RaiseGraph(r)
        BY <4>4 DEF LoadThread, FinishGraph, RaiseGraph, handlerVars
      <4> QED
        BY <1>1, <2>4, <4>1, <4>2, <4>3, <4>4 DEF TurnStep
    <3>3. \A q \in rows' : q.role = "user" => request'[q.turn] \notin Before /\ q.of = q.turn
      BY <1>0, <3>1, <3>2 DEF QuestionInv, Before, Ended
    <3>4. \A o \in Requests : request'[o] = "new" => began'[o] = 0
      BY <1>0, <3>1, <3>2 DEF QuestionInv, Ended
    <3>5. \A o \in Requests : request'[o] \in {"admitted", "checked"} => began'[o] > 0
      BY <1>0, <3>1, <3>2 DEF QuestionInv, Ended
    <3>6. ASSUME NEW o \in Requests, session' = "open",
                 request'[o] \in {"waiting", "streaming", "storing"}
          PROVE  \E q \in rows' : q.role = "user" /\ q.turn = o
      <4>1. request[o] \in {"waiting", "streaming", "storing"}
        BY <1>0, <3>2, <3>6 DEF Ended
      <4> QED
        BY <3>1, <3>6, <4>1 DEF QuestionInv
    <3> QED
      BY <3>3, <3>4, <3>5, <3>6 DEF QuestionInv
  <2> QED
    BY <2>1, <2>2, <2>3, <2>4
<1>2. CASE DeleteSession
  BY <1>0, <1>2 DEF DeleteSession, QuestionInv
<1>3. CASE Restart
  <2>1. /\ request' = [r \in Requests |-> IF Open(r) THEN "killed" ELSE request[r]]
        /\ UNCHANGED <<session, rows, began>>
    BY <1>3 DEF Restart
  <2> QED
    BY <1>0, <2>1 DEF QuestionInv, Before
<1> QED
  BY <1>1, <1>2, <1>3, NextIsTurnStep

\* The invariants that relate instants.
ClockInv == AskedInv /\ AloneInv /\ PairedInv

\* A step that asks and answers nothing.
Quiet ==
  /\ clock <= clock'
  /\ \A o \in Requests, x \in Nat : Asked(o, x)' => Asked(o, x)
  /\ StoredAnswers' \subseteq StoredAnswers
  /\ StoredAnswers' # {} => \A q \in rows : q.role = "user" => q \in rows'
  /\ \A o \in Requests : Open(o)' => Open(o)
  /\ crossed' = crossed

\* Answers are of turns, at instants.
LEMMA AnswerTypes ==
  ASSUME TypeOK
  PROVE  \A a \in StoredAnswers : a \in rows /\ a.turn \in Requests /\ a.at \in Nat
BY DEF TypeOK, StoredAnswers, Row

\* Such a step keeps the order of what was asked and answered.
LEMMA QuietKeeps ==
  ASSUME TypeOK, TypeOK', ClockInv, Quiet
  PROVE  ClockInv'
<1>0. clock \in Nat /\ clock' \in Nat
  BY DEF TypeOK
<1>1. AskedInv'
  <2>1. \A r \in Requests, x \in Nat : Asked(r, x)' => x <= clock'
    BY <1>0 DEF ClockInv, AskedInv, Quiet
  <2>2. \A a \in StoredAnswers' : a.at <= clock'
    BY <1>0, AnswerTypes DEF ClockInv, AskedInv, Quiet
  <2>3. \A r \in Requests, x, y \in Nat : Asked(r, x)' /\ Asked(r, y)' => x = y
    BY DEF ClockInv, AskedInv, Quiet
  <2> QED
    BY <2>1, <2>2, <2>3 DEF AskedInv
<1>2. AloneInv'
  <2>1. ASSUME NEW r \in Requests \ crossed', NEW x \in Nat, Open(r)', Asked(r, x)'
        PROVE  /\ \A o \in Requests \ {r}, y \in Nat : Asked(o, y)' => y < x
               /\ \A b \in StoredAnswers' : b.at < x
    <3>1. r \in Requests \ crossed /\ Open(r) /\ Asked(r, x)
      BY <2>1 DEF Quiet
    <3>2. /\ \A o \in Requests \ {r}, y \in Nat : Asked(o, y) => y < x
          /\ \A b \in StoredAnswers : b.at < x
      BY <3>1 DEF ClockInv, AloneInv
    <3> QED
      BY <3>2 DEF Quiet
  <2> QED
    BY <2>1 DEF AloneInv
<1>3. PairedInv'
  <2>1. ASSUME NEW a \in StoredAnswers', a.turn \notin crossed'
        PROVE  /\ \E q \in rows' : q.role = "user" /\ q.turn = a.turn
               /\ \A x \in Nat : Asked(a.turn, x)' =>
                    /\ x < a.at
                    /\ \A o \in Requests \ {a.turn}, y \in Nat : Asked(o, y)' => y < x \/ a.at < y
                    /\ \A b \in StoredAnswers' \ {a} : b.at < x \/ a.at < b.at
    <3>1. a \in StoredAnswers /\ a.turn \notin crossed /\ a.turn \in Requests
      BY <2>1, AnswerTypes DEF Quiet
    <3>2. \E q \in rows' : q.role = "user" /\ q.turn = a.turn
      BY <2>1, <3>1 DEF ClockInv, PairedInv, Quiet
    <3>3. ASSUME NEW x \in Nat, Asked(a.turn, x)'
          PROVE  /\ x < a.at
                 /\ \A o \in Requests \ {a.turn}, y \in Nat : Asked(o, y)' => y < x \/ a.at < y
                 /\ \A b \in StoredAnswers' \ {a} : b.at < x \/ a.at < b.at
      <4>1. Asked(a.turn, x)
        BY <3>1, <3>3 DEF Quiet
      <4>2. /\ x < a.at
            /\ \A o \in Requests \ {a.turn}, y \in Nat : Asked(o, y) => y < x \/ a.at < y
            /\ \A b \in StoredAnswers \ {a} : b.at < x \/ a.at < b.at
        BY <3>1, <4>1 DEF ClockInv, PairedInv
      <4> QED
        BY <4>2 DEF Quiet
    <3> QED
      BY <3>2, <3>3
  <2> QED
    BY <2>1 DEF PairedInv
<1> QED
  BY <1>1, <1>2, <1>3 DEF ClockInv

\* A request that is let in has the last instant, and crosses whatever is open.
LEMMA AdmitKeeps ==
  ASSUME TypeOK, TypeOK', QuestionInv, StoreInv, ClockInv, NEW r \in Requests, Admit(r)
  PROVE  ClockInv'
<1>0. clock \in Nat /\ request \in [Requests -> RequestStates] /\ began \in [Requests -> Nat]
  BY DEF TypeOK
<1> DEFINE others == {o \in Requests \ {r} : Open(o)}
<1>1. /\ request[r] = "new" /\ request' = [request EXCEPT ![r] = "admitted"]
      /\ clock' = clock + 1 /\ began' = [began EXCEPT ![r] = clock + 1] /\ rows' = rows
      /\ crossed' = IF others = {} THEN crossed ELSE crossed \cup others \cup {r}
  BY DEF Admit, Goto
<1>2. StoredAnswers' = StoredAnswers
  BY <1>1 DEF StoredAnswers
<1>3. /\ \A o \in Requests \ {r}, x \in Nat : Asked(o, x)' => Asked(o, x)
      /\ \A x \in Nat : Asked(r, x)' => x = clock + 1
  BY <1>0, <1>1 DEF Asked, QuestionInv, Before
<1>4. \A o \in Requests \ {r} : Open(o)' => Open(o)
  BY <1>0, <1>1 DEF Open
<1>5. AskedInv'
  <2>1. \A o \in Requests, x \in Nat : Asked(o, x)' => x <= clock'
    BY <1>0, <1>1, <1>3 DEF ClockInv, AskedInv
  <2>2. \A a \in StoredAnswers' : a.at <= clock'
    BY <1>0, <1>1, <1>2, AnswerTypes DEF ClockInv, AskedInv
  <2>3. \A o \in Requests, x, y \in Nat : Asked(o, x)' /\ Asked(o, y)' => x = y
    BY <1>3 DEF ClockInv, AskedInv
  <2> QED
    BY <2>1, <2>2, <2>3 DEF AskedInv
<1>6. AloneInv'
  <2>1. ASSUME NEW o \in Requests \ crossed', NEW x \in Nat, Open(o)', Asked(o, x)'
        PROVE  /\ \A p \in Requests \ {o}, y \in Nat : Asked(p, y)' => y < x
               /\ \A b \in StoredAnswers' : b.at < x
    <3>1. o = r
      BY <1>1, <1>4, <2>1
    <3>2. x = clock + 1
      BY <1>3, <2>1, <3>1
    <3>3. \A p \in Requests \ {o}, y \in Nat : Asked(p, y)' => y <= clock
      BY <1>3, <3>1 DEF ClockInv, AskedInv
    <3>4. \A b \in StoredAnswers' : b.at <= clock /\ b.at \in Nat
      BY <1>2, AnswerTypes DEF ClockInv, AskedInv
    <3> QED
      BY <1>0, <3>2, <3>3, <3>4
  <2> QED
    BY <2>1 DEF AloneInv
<1>7. PairedInv'
  <2>1. ASSUME NEW a \in StoredAnswers', a.turn \notin crossed'
        PROVE  /\ \E q \in rows' : q.role = "user" /\ q.turn = a.turn
               /\ \A x \in Nat : Asked(a.turn, x)' =>
                    /\ x < a.at
                    /\ \A o \in Requests \ {a.turn}, y \in Nat : Asked(o, y)' => y < x \/ a.at < y
                    /\ \A b \in StoredAnswers' \ {a} : b.at < x \/ a.at < b.at
    <3>1. /\ a \in StoredAnswers /\ a.turn \notin crossed /\ a.turn \in Requests \ {r}
          /\ a.at \in Nat /\ a.at <= clock
      BY <1>1, <1>2, <2>1, AnswerTypes DEF StoreInv, ClockInv, AskedInv
    <3>2. \E q \in rows' : q.role = "user" /\ q.turn = a.turn
      BY <1>1, <3>1 DEF ClockInv, PairedInv
    <3>3. ASSUME NEW x \in Nat, Asked(a.turn, x)'
          PROVE  /\ x < a.at
                 /\ \A o \in Requests \ {a.turn}, y \in Nat : Asked(o, y)' => y < x \/ a.at < y
                 /\ \A b \in StoredAnswers' \ {a} : b.at < x \/ a.at < b.at
      <4>1. Asked(a.turn, x)
        BY <1>3, <3>1, <3>3
      <4>2. /\ x < a.at
            /\ \A o \in Requests \ {a.turn}, y \in Nat : Asked(o, y) => y < x \/ a.at < y
            /\ \A b \in StoredAnswers \ {a} : b.at < x \/ a.at < b.at
        BY <3>1, <4>1 DEF ClockInv, PairedInv
      <4>3. \A y \in Nat : Asked(r, y)' => a.at < y
        BY <1>0, <1>3, <3>1
      <4> QED
        BY <1>2, <1>3, <4>2, <4>3
    <3> QED
      BY <3>2, <3>3
  <2> QED
    BY <2>1 DEF PairedInv
<1> QED
  BY <1>5, <1>6, <1>7 DEF ClockInv

\* An answer that is stored comes after everything else.  If another request is open, the
\* turn is crossed; if none is, nothing came after its question.
LEMMA AnswerKeeps ==
  ASSUME TypeOK, TypeOK', QuestionInv, CrossedInv, ClockInv, NEW r \in Requests, NEW of,
         StoreAnswer(r, of), session = "open", request[r] \in {"waiting", "storing"},
         request' = [request EXCEPT ![r] = "done"]
  PROVE  ClockInv'
<1>0. clock \in Nat /\ request \in [Requests -> RequestStates] /\ began \in [Requests -> Nat]
  BY DEF TypeOK
<1>1. /\ clock' = clock + 1 /\ began' = began /\ crossed' = crossed
      /\ StoredAnswers \subseteq StoredAnswers'
      /\ {q \in rows' : q.role = "user"} = {q \in rows : q.role = "user"}
      /\ \A a \in StoredAnswers' \ StoredAnswers : a.turn = r /\ a.at = clock + 1
      /\ \A a, b \in StoredAnswers' \ StoredAnswers : a = b
  BY StoredAfterStore DEF StoreAnswer
<1>2. \A o \in Requests, x \in Nat : Asked(o, x)' => Asked(o, x)
  BY <1>1 DEF Asked
<1>3. \A o \in Requests : Open(o)' => o # r /\ Open(o)
  BY <1>0 DEF Open, Ended
<1>4. Open(r)
  BY DEF Open, Ended
<1>5. AskedInv'
  <2>1. \A o \in Requests, x \in Nat : Asked(o, x)' => x <= clock'
    BY <1>0, <1>1, <1>2 DEF ClockInv, AskedInv
  <2>2. \A a \in StoredAnswers' : a.at <= clock'
    BY <1>0, <1>1, AnswerTypes DEF ClockInv, AskedInv
  <2>3. \A o \in Requests, x, y \in Nat : Asked(o, x)' /\ Asked(o, y)' => x = y
    BY <1>2 DEF ClockInv, AskedInv
  <2> QED
    BY <2>1, <2>2, <2>3 DEF AskedInv
<1>6. AloneInv'
  <2>1. \A o \in Requests : Open(o)' => o \in crossed'
    BY <1>1, <1>3, <1>4 DEF CrossedInv
  <2> QED
    BY <2>1 DEF AloneInv
<1>7. PairedInv'
  <2>1. ASSUME NEW a \in StoredAnswers', a.turn \notin crossed'
        PROVE  /\ \E q \in rows' : q.role = "user" /\ q.turn = a.turn
               /\ \A x \in Nat : Asked(a.turn, x)' =>
                    /\ x < a.at
                    /\ \A o \in Requests \ {a.turn}, y \in Nat : Asked(o, y)' => y < x \/ a.at < y
                    /\ \A b \in StoredAnswers' \ {a} : b.at < x \/ a.at < b.at
    <3>1. CASE a \in StoredAnswers
      <4>1. /\ a.turn \notin crossed /\ a.turn \in Requests /\ a.at \in Nat /\ a.at <= clock
        BY <1>1, <2>1, <3>1, AnswerTypes DEF ClockInv, AskedInv
      <4>2. PICK q \in rows : q.role = "user" /\ q.turn = a.turn
        BY <3>1, <4>1 DEF ClockInv, PairedInv
      <4>3. q \in rows'
        BY <1>1, <4>2
      <4>4. ASSUME NEW x \in Nat, Asked(a.turn, x)'
            PROVE  /\ x < a.at
                   /\ \A o \in Requests \ {a.turn}, y \in Nat : Asked(o, y)' => y < x \/ a.at < y
                   /\ \A b \in StoredAnswers' \ {a} : b.at < x \/ a.at < b.at
        <5>1. Asked(a.turn, x)
          BY <1>2, <4>1, <4>4
        <5>2. /\ x < a.at
              /\ \A o \in Requests \ {a.turn}, y \in Nat : Asked(o, y) => y < x \/ a.at < y
              /\ \A b \in StoredAnswers \ {a} : b.at < x \/ a.at < b.at
          BY <3>1, <4>1, <5>1 DEF ClockInv, PairedInv
        <5>3. \A b \in StoredAnswers' \ StoredAnswers : a.at < b.at
          BY <1>0, <1>1, <4>1
        <5> QED
          BY <1>2, <5>2, <5>3
      <4> QED
        BY <4>2, <4>3, <4>4
    <3>2. CASE a \notin StoredAnswers
      <4>1. a.turn = r /\ a.at = clock + 1 /\ r \notin crossed
        BY <1>1, <2>1, <3>2
      <4>2. PICK q \in rows : q.role = "user" /\ q.turn = r
        BY DEF QuestionInv
      <4>3. q \in rows'
        BY <1>1, <4>2
      <4>4. ASSUME NEW x \in Nat, Asked(a.turn, x)'
            PROVE  /\ x < a.at
                   /\ \A o \in Requests \ {a.turn}, y \in Nat : Asked(o, y)' => y < x \/ a.at < y
                   /\ \A b \in StoredAnswers' \ {a} : b.at < x \/ a.at < b.at
        <5>1. Asked(r, x)
          BY <1>2, <4>1, <4>4
        <5>2. x <= clock
          BY <5>1 DEF ClockInv, AskedInv
        <5>3. /\ \A o \in Requests \ {r}, y \in Nat : Asked(o, y) => y < x
              /\ \A b \in StoredAnswers : b.at < x
          BY <1>4, <4>1, <5>1 DEF ClockInv, AloneInv
        <5>4. StoredAnswers' \ {a} \subseteq StoredAnswers
          BY <1>1, <2>1, <3>2
        <5> QED
          BY <1>0, <1>2, <4>1, <5>2, <5>3, <5>4
      <4> QED
        BY <4>1, <4>2, <4>3, <4>4
    <3> QED
      BY <3>1, <3>2
  <2> QED
    BY <2>1 DEF PairedInv
<1> QED
  BY <1>5, <1>6, <1>7 DEF ClockInv

\* Every step is one of the three.
LEMMA ClockStep ==
  ASSUME TypeOK, TypeOK', PhaseInv, QuestionInv, CrossedInv, StoreInv, ClockInv, Next
  PROVE  ClockInv'
<1>0. /\ clock \in Nat /\ request \in [Requests -> RequestStates] /\ began \in [Requests -> Nat]
      /\ session \in {"open", "deleted"}
  BY DEF TypeOK
<1>a. clock <= clock
  BY <1>0
<1>1. ASSUME NEW r \in Requests, TurnStep(r) PROVE ClockInv'
  <2>1. CASE Admit(r)
    BY <2>1, AdmitKeeps
  <2>2. CASE ChatAnswered(r) \/ StreamStores(r)
    <3>1. PICK of : StoreAnswer(r, of)
      BY <2>2 DEF ChatAnswered, StreamStores
    <3>2. /\ request[r] \in {"waiting", "storing"}
          /\ request' = [request EXCEPT ![r] = IF session = "deleted" THEN "failed" ELSE "done"]
      BY <2>2 DEF ChatAnswered, StreamStores, Return, Goto
    <3>3. CASE session = "open"
      BY <3>1, <3>2, <3>3, AnswerKeeps
    <3>4. CASE session = "deleted"
      <4>1. rows' = rows /\ clock' = clock + 1 /\ began' = began /\ crossed' = crossed
        BY <3>1, <3>4 DEF StoreAnswer
      <4>2. StoredAnswers' = StoredAnswers
        BY <4>1 DEF StoredAnswers
      <4>3. \A o \in Requests, x \in Nat : Asked(o, x)' => Asked(o, x)
        BY <4>1 DEF Asked
      <4>4. \A o \in Requests : Open(o)' => Open(o)
        BY <1>0, <3>2, <3>4 DEF Open, Ended
      <4>5. clock <= clock'
        BY <1>0, <4>1
      <4>6. Quiet
        BY <4>1, <4>2, <4>3, <4>4, <4>5 DEF Quiet
      <4> QED
        BY <4>6, QuietKeeps
    <3> QED
      BY <1>0, <3>3, <3>4
  <2>3. CASE CommitQuestion(r)
    <3>1. /\ request[r] = "checked" /\ began[r] > 0 /\ clock' = clock /\ crossed' = crossed
          /\ began' = [began EXCEPT ![r] = 0]
          /\ \E s \in {"failed", "waiting", "streaming"} : request' = [request EXCEPT ![r] = s]
      BY <2>3 DEF CommitQuestion, Return, Goto, QuestionInv
    <3> DEFINE c == [role |-> "user", turn |-> r, of |-> r, at |-> began[r]]
    <3>2. rows' \in {rows, rows \cup {c}}
      BY <2>3 DEF CommitQuestion
    <3>3. c.role = "user" /\ c.turn = r /\ c.at = began[r]
      OBVIOUS
    <3> HIDE DEF c
    <3>4. ASSUME NEW o \in Requests, NEW x \in Nat, Asked(o, x)' PROVE Asked(o, x)
      <4>1. CASE began'[o] = x /\ x > 0
        BY <1>0, <3>1, <4>1 DEF Asked
      <4>2. CASE \E q \in rows' : q.role = "user" /\ q.turn = o /\ q.at = x
        BY <3>1, <3>2, <3>3, <4>2 DEF Asked
      <4> QED
        BY <3>4, <4>1, <4>2 DEF Asked
    <3>5. StoredAnswers' = StoredAnswers
      BY <2>3, StoredAfterCommit
    <3>6. \A o \in Requests : Open(o)' => Open(o)
      BY <1>0, <3>1 DEF Open, Ended
    <3>7. \A q \in rows : q \in rows'
      BY <3>2
    <3>8. Quiet
      BY <1>a, <3>1, <3>4, <3>5, <3>6, <3>7 DEF Quiet
    <3> QED
      BY <3>8, QuietKeeps
  <2>4. CASE ~Admit(r) /\ ~ChatAnswered(r) /\ ~StreamStores(r) /\ ~CommitQuestion(r)
    <3>1. UNCHANGED <<rows, clock, began, crossed>>
      BY <1>1, <2>4 DEF TurnStep, CheckSession, ChatRaised, TakeEvent, LoadThread, FinishGraph,
         RaiseGraph, Refuse, FindUnavailable, ChatTimesOut, Disconnect, handlerVars
    <3>2. \/ request' = request
          \/ request[r] = "new" /\ request' = [request EXCEPT ![r] = "refused"]
          \/ Open(r) /\ \E s \in RequestStates : request' = [request EXCEPT ![r] = s]
      <4>1. CASE CheckSession(r) \/ FindUnavailable(r) \/ Refuse(r)
        BY <4>1 DEF CheckSession, FindUnavailable, Refuse, Return, Goto, Open, RequestStates, Ended
      <4>2. CASE ChatRaised(r) \/ ChatTimesOut(r)
        BY <4>2 DEF ChatRaised, ChatTimesOut, Return, Goto, Open, RequestStates, Ended
      <4>3. CASE TakeEvent(r) \/ Disconnect(r)
        BY <4>3 DEF TakeEvent, Disconnect, Goto, Open, RequestStates, Ended
      <4>4. CASE LoadThread(r) \/ FinishGraph(r) \/ RaiseGraph(r)
        BY <4>4 DEF LoadThread, FinishGraph, RaiseGraph, handlerVars
      <4> QED
        BY <1>1, <2>4, <4>1, <4>2, <4>3, <4>4 DEF TurnStep
    <3>3. \A o \in Requests : Open(o)' => Open(o)
      BY <1>0, <3>2 DEF Open, Ended
    <3>4. StoredAnswers' = StoredAnswers
      BY <3>1 DEF StoredAnswers
    <3>5. \A o \in Requests, x \in Nat : Asked(o, x)' => Asked(o, x)
      BY <3>1 DEF Asked
    <3>6. Quiet
      BY <1>a, <3>1, <3>3, <3>4, <3>5 DEF Quiet
    <3> QED
      BY <3>6, QuietKeeps
  <2> QED
    BY <2>1, <2>2, <2>3, <2>4
<1>2. CASE DeleteSession
  <2>1. rows' = {} /\ UNCHANGED <<clock, began, crossed, request>>
    BY <1>2 DEF DeleteSession
  <2>2. StoredAnswers' = {}
    BY <2>1 DEF StoredAnswers
  <2>3. \A o \in Requests, x \in Nat : Asked(o, x)' => Asked(o, x)
    BY <2>1 DEF Asked
  <2>4. \A o \in Requests : Open(o)' => Open(o)
    BY <2>1 DEF Open
  <2>5. Quiet
    BY <1>a, <2>1, <2>2, <2>3, <2>4 DEF Quiet
  <2> QED
    BY <2>5, QuietKeeps
<1>3. CASE Restart
  <2>1. /\ request' = [r \in Requests |-> IF Open(r) THEN "killed" ELSE request[r]]
        /\ UNCHANGED <<rows, clock, began, crossed>>
    BY <1>3 DEF Restart
  <2>2. StoredAnswers' = StoredAnswers
    BY <2>1 DEF StoredAnswers
  <2>3. \A o \in Requests, x \in Nat : Asked(o, x)' => Asked(o, x)
    BY <2>1 DEF Asked
  <2>4. \A o \in Requests : Open(o)' => Open(o)
    BY <2>1 DEF Open, Ended
  <2>5. Quiet
    BY <1>a, <2>1, <2>2, <2>3, <2>4 DEF Quiet
  <2> QED
    BY <2>5, QuietKeeps
<1> QED
  BY <1>1, <1>2, <1>3, NextIsTurnStep

------------------------------------------------------------------------------
(* The invariant.                                                            *)

\* It holds at first.
LEMMA InitTurns ==
  ASSUME Init
  PROVE  TurnsInv
<1> USE ChatTurnsAssumption
<1>1. /\ session = "open" /\ rows = {} /\ clock = 0 /\ restarts = 0
      /\ request = [r \in Requests |-> "new"] /\ began = [r \in Requests |-> 0]
      /\ graph = [r \in Requests |-> "none"] /\ memory = [r \in Requests |-> EmptyThread]
      /\ checkpoint = EmptyThread /\ events = [r \in Requests |-> <<>>]
      /\ final = [r \in Requests |-> None] /\ slots = [k \in {"turns"} |-> {}]
      /\ crossed = {} /\ overlapped = {}
  BY DEF Init
<1>2. StoredAnswers = {} /\ Running = {}
  BY <1>1 DEF StoredAnswers, Running
<1>3. EmptyThread \in Thread /\ EmptyThread.answer = None /\ EmptyThread.answered = {}
  BY DEF EmptyThread, Thread
<1>4. TypeOK
  <2>1. request \in [Requests -> RequestStates] /\ graph \in [Requests -> GraphStates]
    BY <1>1 DEF RequestStates, GraphStates
  <2>2. began \in [Requests -> Nat] /\ memory \in [Requests -> Thread] /\ checkpoint \in Thread
    BY <1>1, <1>3
  <2>3. events \in [Requests -> Seq(Event)]
    BY <1>1
  <2>4. final \in [Requests -> Requests \cup {None}] /\ slots \in [{"turns"} -> SUBSET Requests]
    BY <1>1
  <2>5. session \in {"open", "deleted"} /\ rows \in SUBSET Row /\ clock \in Nat
        /\ crossed \subseteq Requests /\ overlapped \subseteq Requests /\ restarts \in 0..MaxRestarts
    BY <1>1
  <2> QED
    BY <2>1, <2>2, <2>3, <2>4, <2>5 DEF TypeOK
<1>5. PhaseInv
  BY <1>1 DEF PhaseInv, Live
<1>6. NamedInv
  BY <1>1, <1>2, <1>3 DEF NamedInv, Known, Names
<1>7. EventInv
  BY <1>1 DEF EventInv, EventOf
<1>8. SerialInv
  BY <1>1, <1>2, <1>3 DEF SerialInv
<1>9. CrossedInv
  BY <1>1 DEF CrossedInv, OverlapNeedsLeftover, Open
<1>10. StoreInv
  BY <1>1, <1>2 DEF StoreInv, StoredAnswerIsOwn
<1>11. QuestionInv
  BY <1>1 DEF QuestionInv
<1>12. \A r \in Requests, x \in Nat : ~Asked(r, x)
  BY <1>1 DEF Asked
<1>13. AskedInv /\ AloneInv /\ PairedInv
  BY <1>2, <1>12 DEF AskedInv, AloneInv, PairedInv
<1> QED
  BY <1>4, <1>5, <1>6, <1>7, <1>8, <1>9, <1>10, <1>11, <1>13 DEF TurnsInv

\* Every step keeps it.
LEMMA NextTurns ==
  ASSUME TurnsInv, [Next]_vars
  PROVE  TurnsInv'
<1>1. CASE Next
  <2>1. /\ TypeOK /\ PhaseInv /\ NamedInv /\ EventInv /\ SerialInv /\ CrossedInv
        /\ StoreInv /\ AskedInv /\ QuestionInv /\ AloneInv /\ PairedInv /\ ClockInv
    BY DEF TurnsInv, ClockInv
  <2>2. TypeOK'
    BY <1>1, <2>1, NextTypes
  <2>3. PhaseInv' /\ NamedInv' /\ EventInv'
    BY <1>1, <2>1, <2>2, PhaseStep, NamedStep, EventStep
  <2>4. SerialInv' /\ CrossedInv' /\ StoreInv' /\ QuestionInv'
    BY <1>1, <2>1, SerialStep, CrossedStep, StoreStep, QuestionStep
  <2>5. ClockInv'
    BY <1>1, <2>1, <2>2, ClockStep
  <2> QED
    BY <2>2, <2>3, <2>4, <2>5 DEF TurnsInv, ClockInv
<1>2. CASE UNCHANGED vars
  <2>1. /\ UNCHANGED <<session, rows, clock, request, began, crossed, graph, memory>>
        /\ UNCHANGED <<checkpoint, overlapped, events, final, slots, restarts>>
    BY <1>2 DEF vars, handlerVars, graphVars
  <2>2. UNCHANGED <<StoredAnswers, Running, Known>>
    BY <2>1 DEF StoredAnswers, Running, Known
  <2>3. TypeOK' /\ PhaseInv' /\ NamedInv' /\ SerialInv'
    BY <2>1, <2>2 DEF TurnsInv, TypeOK, PhaseInv, NamedInv, SerialInv
  <2>4. EventInv'
    BY <2>1 DEF TurnsInv, EventInv, EventOf, Telling
  <2>5. CrossedInv' /\ StoreInv' /\ QuestionInv'
    BY <2>1, <2>2 DEF TurnsInv, CrossedInv, OverlapNeedsLeftover, Open, StoreInv, StoredAnswerIsOwn,
       QuestionInv
  <2>6. AskedInv' /\ AloneInv' /\ PairedInv'
    BY <2>1, <2>2 DEF TurnsInv, AskedInv, AloneInv, PairedInv, Asked, Open
  <2> QED
    BY <2>3, <2>4, <2>5, <2>6 DEF TurnsInv
<1> QED
  BY <1>1, <1>2

\* The turns of a session keep, at every step, what relates the handlers, the runs of the
\* graph, the thread's checkpoint, the rows and the instants.
THEOREM TurnsInvariant == Spec => []TurnsInv
<1>1. Init => TurnsInv
  BY InitTurns
<1>2. TurnsInv /\ [Next]_vars => TurnsInv'
  BY NextTurns
<1> QED
  BY <1>1, <1>2, PTL DEF Spec

\* A rating changes nothing a turn reads or writes: a session whose answers are rated
\* runs its turns as one whose answers are not.
THEOREM RatedTurnsAreTurns == GapsSpec => Spec
<1>1. GapsInit => Init
  BY DEF GapsInit
<1>2. [GapsNext]_<<vars, gapVars>> => [Next]_vars
  BY DEF GapsNext, Rate
<1> QED
  BY <1>1, <1>2, PTL DEF GapsSpec, Spec

------------------------------------------------------------------------------
(* What the turns promise.                                                   *)

\* The variables always have their types.
THEOREM TurnsTypes == Spec => []TypeOK
<1>1. TurnsInv => TypeOK
  BY DEF TurnsInv
<1> QED
  BY <1>1, TurnsInvariant, PTL

\* chat.py stores for a turn the answer its own run of the graph wrote, however the turns
\* of the session interleave, except for a stream whose graph raised.
THEOREM AnswersAreOwn == Spec => []StoredAnswerIsOwn
<1>1. TurnsInv => StoredAnswerIsOwn
  BY DEF TurnsInv, StoreInv
<1> QED
  BY <1>1, TurnsInvariant, PTL

\* Two runs on the thread of a client that sends one request at a time mean that one of its
\* requests ended before its run: with a 504, or because the client left.
THEOREM OverlapsHaveLeftovers == Spec => []OverlapNeedsLeftover
<1>1. TurnsInv => OverlapNeedsLeftover
  BY DEF TurnsInv, CrossedInv
<1> QED
  BY <1>1, TurnsInvariant, PTL

\* When nothing runs, chat_messages and the checkpoint hold the answers of the same turns,
\* but for those that were cut off or whose runs overlapped.
THEOREM HistoriesAgree == Spec => []HistoryMatchesMemory
<1>1. TurnsInv => HistoryMatchesMemory
  <2> SUFFICES ASSUME TurnsInv, session = "open", Running = {},
                      \A r \in Requests : ~Open(r) /\ graph[r] # "queued",
                      NEW r \in Requests, request[r] \notin {"timeout", "left", "killed"},
                      r \notin overlapped
               PROVE  r \in checkpoint.answered <=> \E a \in StoredAnswers : a.turn = r /\ a.of = r
    BY DEF HistoryMatchesMemory
  <2>1. request \in [Requests -> RequestStates]
    BY DEF TurnsInv, TypeOK
  <2>2. request[r] \in {"new", "done", "refused", "failed"}
    BY <2>1 DEF Open, Ended
  <2>3. r \in checkpoint.answered <=> graph[r] = "finished"
    BY DEF TurnsInv, SerialInv
  <2>4. ASSUME graph[r] = "finished" PROVE \E a \in StoredAnswers : a.turn = r /\ a.of = r
    <3>1. request[r] \notin {"new", "refused"}
      BY <2>4 DEF TurnsInv, PhaseInv, Before
    <3> QED
      BY <2>2, <2>4, <3>1 DEF TurnsInv, StoreInv
  <2>5. ASSUME NEW a \in StoredAnswers, a.turn = r, a.of = r PROVE graph[r] = "finished"
    BY <2>5, ChatTurnsAssumption DEF TurnsInv, NamedInv, Known
  <2> QED
    BY <2>3, <2>4, <2>5
<1> QED
  BY <1>1, TurnsInvariant, PTL

------------------------------------------------------------------------------
(* What the report promises.                                                 *)

\* An answer of a turn that is not crossed is paired with its own question when the window
\* holds it, and with none when it does not.
LEMMA OwnQuestion ==
  ASSUME TurnsInv, NEW a \in StoredAnswers, a.turn \notin crossed, NEW since \in Nat
  PROVE  /\ PairedWith(a, since) \in {a.turn, None}
         /\ (\A q \in rows : q.role = "user" /\ q.turn = a.turn => since <= q.at) =>
              PairedWith(a, since) = a.turn
<1> DEFINE asked == {q \in rows : q.role = "user" /\ since <= q.at /\ q.at <= a.at}
           last == CHOOSE q \in asked : \A o \in asked : o.at <= q.at
           taken == \E b \in rows : b.role = "assistant" /\ last.at < b.at /\ b.at < a.at
<1>0. /\ \A q \in rows : q.at \in Nat /\ q.turn \in Requests
      /\ a.turn \in Requests /\ a.at \in Nat
  BY AnswerTypes DEF TurnsInv, TypeOK, Row
<1>1. PICK q0 \in rows : q0.role = "user" /\ q0.turn = a.turn
  BY DEF TurnsInv, PairedInv
<1>2. \A q \in rows : q.role = "user" => Asked(q.turn, q.at)
  BY DEF Asked
<1>3. Asked(a.turn, q0.at) /\ q0.at \in Nat
  BY <1>0, <1>1, <1>2
<1>4. /\ q0.at < a.at
      /\ \A o \in Requests \ {a.turn}, y \in Nat : Asked(o, y) => y < q0.at \/ a.at < y
      /\ \A b \in StoredAnswers \ {a} : b.at < q0.at \/ a.at < b.at
  BY <1>3 DEF TurnsInv, PairedInv
<1>5. ASSUME NEW q \in asked
      PROVE  q \in rows /\ q.at <= q0.at /\ (q.at = q0.at => q.turn = a.turn)
  <2>1. /\ q \in rows /\ Asked(q.turn, q.at) /\ q.at <= a.at
        /\ q.at \in Nat /\ q.turn \in Requests
    BY <1>0, <1>2
  <2>2. CASE q.turn = a.turn
    <3>1. q.at = q0.at
      BY <1>0, <1>3, <2>1, <2>2 DEF TurnsInv, AskedInv
    <3> QED
      BY <1>3, <2>1, <2>2, <3>1
  <2>3. CASE q.turn # a.turn
    <3>1. q.at < q0.at \/ a.at < q.at
      BY <1>4, <2>1, <2>3
    <3> QED
      BY <1>0, <1>3, <2>1, <3>1
  <2> QED
    BY <2>2, <2>3
<1>6. since <= q0.at => q0 \in asked
  BY <1>0, <1>1, <1>3, <1>4
<1>7. asked # {} => since <= q0.at
  BY <1>0, <1>3, <1>5
<1>8. since <= q0.at => last \in asked /\ last.at = q0.at /\ last.turn = a.turn
  <2> SUFFICES ASSUME since <= q0.at
               PROVE  last \in asked /\ last.at = q0.at /\ last.turn = a.turn
    OBVIOUS
  <2>1. q0 \in asked /\ \A o \in asked : o.at <= q0.at
    BY <1>5, <1>6
  <2>2. last \in asked /\ \A o \in asked : o.at <= last.at
    BY <2>1
  <2> HIDE DEF last
  <2>3. last.at = q0.at
    BY <1>0, <1>3, <1>5, <2>1, <2>2
  <2> QED
    BY <1>5, <2>2, <2>3
<1>9. since <= q0.at => ~taken
  BY <1>0, <1>3, <1>4, <1>8 DEF StoredAnswers
<1>10. PairedWith(a, since) = IF asked = {} \/ taken THEN None ELSE last.turn
  BY DEF PairedWith
<1> HIDE DEF asked, last, taken
<1> QED
  BY <1>1, <1>6, <1>7, <1>8, <1>9, <1>10

\* The report attributes an answer to the question it answers, whatever the window, unless
\* another request of the session was open during the turn.
THEOREM PairsAreTrue == GapsSpec => []AnswersPairWithTheirQuestion
<1>1. TurnsInv => AnswersPairWithTheirQuestion
  <2> SUFFICES ASSUME TurnsInv, NEW since \in 0..clock, NEW p \in Pairs(since),
                      p.answer.turn \notin crossed
               PROVE  p.question = p.answer.turn
    BY DEF AnswersPairWithTheirQuestion
  <2>1. /\ p.answer \in StoredAnswers /\ p.question \in Requests
        /\ p.question = PairedWith(p.answer, since)
    BY DEF Pairs
  <2>2. since \in Nat
    BY DEF TurnsInv, TypeOK
  <2>3. PairedWith(p.answer, since) \in {p.answer.turn, None}
    BY <2>1, <2>2, OwnQuestion
  <2> QED
    BY <2>1, <2>3, ChatTurnsAssumption
<1> QED
  BY <1>1, TurnsInvariant, RatedTurnsAreTurns, PTL

\* Every answer that was empty, declined, abstained or rated down is in the report of a
\* window that holds its question, under that question and with that kind, unless another
\* request of the session was open during the turn.
THEOREM NoGapIsMissed == GapsSpec => []GapsAreListed
<1>1. TurnsInv => GapsAreListed
  <2> SUFFICES ASSUME TurnsInv, NEW since \in 0..clock, NEW a \in StoredAnswers,
                      Kinds([answer |-> a, question |-> a.turn]) # {}, a.turn \notin crossed,
                      ~\E q \in rows : q.role = "user" /\ q.turn = a.turn /\ q.at < since
               PROVE  \E i \in Report(since).items :
                        i.topic = Topic[a.turn] /\ Kinds([answer |-> a, question |-> a.turn]) \subseteq i.kinds
    BY DEF GapsAreListed
  <2> DEFINE p0 == [answer |-> a, question |-> a.turn]
             gaps == {p \in Pairs(since) : Kinds(p) # {}}
             Group(t) == {p \in gaps : Topic[p.question] = t}
             Latest(t) == CHOOSE p \in Group(t) : \A o \in Group(t) : o.answer.at <= p.answer.at
             Item(t) == [topic |-> t, count |-> Cardinality(Group(t)),
                         kinds |-> UNION {Kinds(p) : p \in Group(t)}, sample |-> Latest(t).answer]
  <2>1. since \in Nat /\ a.turn \in Requests /\ \A q \in rows : q.at \in Nat
    BY AnswerTypes DEF TurnsInv, TypeOK, Row
  <2>2. PairedWith(a, since) = a.turn
    BY <2>1, OwnQuestion
  <2>3. p0 \in Pairs(since)
    BY <2>1, <2>2 DEF Pairs
  <2>4. p0 \in gaps /\ p0.question = a.turn
    BY <2>3
  <2>5. p0 \in Group(Topic[a.turn])
    BY <2>4
  <2>6. Report(since).items = {Item(t) : t \in {Topic[p.question] : p \in gaps}}
    BY DEF Report
  <2>7. /\ Item(Topic[a.turn]).topic = Topic[a.turn]
        /\ Item(Topic[a.turn]).kinds = UNION {Kinds(p) : p \in Group(Topic[a.turn])}
    OBVIOUS
  <2> HIDE DEF Item, gaps
  <2>8. Item(Topic[a.turn]) \in Report(since).items
    BY <2>4, <2>6
  <2>9. Kinds(p0) \subseteq UNION {Kinds(p) : p \in Group(Topic[a.turn])}
    BY <2>5
  <2> QED
    BY <2>7, <2>8, <2>9
<1> QED
  BY <1>1, TurnsInvariant, RatedTurnsAreTurns, PTL

\* The rating that message_feedback holds is the one whose request was answered last,
\* whatever conflicts and deletions come between.
THEOREM RatingsStand == GapsSpec => []AcknowledgedRatingStands
<1>1. GapsInit => AcknowledgedRatingStands
  BY DEF GapsInit, AcknowledgedRatingStands
<1>2. AcknowledgedRatingStands /\ [GapsNext]_<<vars, gapVars>> => AcknowledgedRatingStands'
  <2> SUFFICES ASSUME AcknowledgedRatingStands, [GapsNext]_<<vars, gapVars>>
               PROVE  AcknowledgedRatingStands'
    OBVIOUS
  <2>1. CASE Cascade
    BY <2>1 DEF Cascade, AcknowledgedRatingStands
  <2>2. ASSUME NEW k \in Clicks, ReadRating(k) PROVE AcknowledgedRatingStands'
    BY <2>2 DEF ReadRating, AcknowledgedRatingStands
  <2>3. ASSUME NEW k \in Clicks, CommitRating(k) PROVE AcknowledgedRatingStands'
    BY <2>3 DEF CommitRating, AcknowledgedRatingStands
  <2>4. CASE UNCHANGED <<vars, gapVars>>
    BY <2>4 DEF gapVars, AcknowledgedRatingStands
  <2> QED
    BY <2>1, <2>2, <2>3, <2>4 DEF GapsNext, Rate
<1> QED
  BY <1>1, <1>2, PTL DEF GapsSpec
==============================================================================
