----------------------------- MODULE KnowledgeGaps -----------------------------
(***************************************************************************)
(* The ratings of the answers of a session (message_feedback in              *)
(* app/api/chat.py) and the report an admin gets of the questions that were  *)
(* not answered well (app/services/knowledge_gaps.py), composed with the     *)
(* turns that write the rows both of them read.                              *)
(*                                                                         *)
(* A session has one owner and only the owner may rate, so a rating is named *)
(* by the turn whose answer it is for.  A question's text is its topic: the   *)
(* normalized form the report groups by.                                     *)
(***************************************************************************)
EXTENDS ChatTurns

CONSTANTS
  Clicks,      \* requests to rate an answer
  Rates,       \* the turn and the rating each of them is about
  Topic,       \* the normalized question of each turn
  Abstained,   \* turns whose graph answers with INSUFFICIENT_ANSWER
  Declined     \* turns whose answer opens with one of _DECLINE_MARKERS

ASSUME KnowledgeGapsAssumption ==
  /\ Rates \in [Clicks -> [on : Requests, rating : {"up", "down"}]]
  /\ Requests \subseteq DOMAIN Topic
  /\ Abstained \subseteq Requests /\ Declined \subseteq Requests \ Abstained

VARIABLES
  feedback,    \* message_feedback: the rating of each turn's answer
  click,       \* where each rating request is
  acknowledged \* the rating whose request was answered last, for each turn

gapVars == <<feedback, click, acknowledged>>

Unrated == [r \in Requests |-> None]

GapsInit ==
  /\ Init
  /\ feedback = Unrated /\ acknowledged = Unrated
  /\ click = [k \in Clicks |-> [at |-> "new", found |-> FALSE]]

\* The message, its session and the user's earlier rating are read.  A rating touches
\* nothing that a turn reads, so ratings wait here until all turns have ended.
ReadRating(k) ==
  /\ click[k].at = "new"
  /\ \A q \in Requests : request[q] \in Ended /\ graph[q] \notin {"queued", "running"}
  /\ \E a \in StoredAnswers : a.turn = Rates[k].on
  /\ click' = [click EXCEPT ![k] = [at |-> "read", found |-> feedback[Rates[k].on] # None]]
  /\ UNCHANGED <<feedback, acknowledged>>

\* Mutated CommitRating: a conflict on the insert is passed over.
CommitRatingOrIgnore(k) ==
  LET r == Rates[k].on
      works == session = "open"
  IN  /\ click[k].at = "read"
      /\ click' = [click EXCEPT ![k] = [at |-> IF works THEN "done" ELSE "failed", found |-> FALSE]]
      /\ feedback' = IF works /\ (click[k].found \/ feedback[r] = None)
                     THEN [feedback EXCEPT ![r] = Rates[k].rating] ELSE feedback
      /\ acknowledged' = IF works THEN [acknowledged EXCEPT ![r] = Rates[k].rating]
                         ELSE acknowledged

\* The row that was found is updated, else one is inserted.  The insert fails when
\* another request has inserted one (uq_feedback_message_user), and both fail when the
\* message is gone.
CommitRating(k) ==
  LET r == Rates[k].on
      works == session = "open" /\ (click[k].found \/ feedback[r] = None)
      Rated(ratings) == IF works THEN [ratings EXCEPT ![r] = Rates[k].rating] ELSE ratings
  IN  /\ click[k].at = "read"
      /\ click' = [click EXCEPT ![k] = [at |-> IF works THEN "done" ELSE "failed", found |-> FALSE]]
      /\ feedback' = Rated(feedback)
      /\ acknowledged' = Rated(acknowledged)

Rate ==
  /\ \E k \in Clicks : ReadRating(k) \/ CommitRating(k)
  /\ UNCHANGED vars

\* Ratings go with the messages of a deleted session (ON DELETE CASCADE).
Cascade ==
  /\ feedback' = IF session' = "deleted" THEN Unrated ELSE feedback
  /\ acknowledged' = IF session' = "deleted" THEN Unrated ELSE acknowledged
  /\ UNCHANGED click

GapsNext == (Next /\ Cascade) \/ Rate

GapsSpec ==
  /\ GapsInit /\ [][GapsNext]_<<vars, gapVars>>
  /\ \A r \in Requests : WF_vars(Handle(r)) /\ WF_vars(RunGraph(r))

------------------------------------------------------------------------------
(* The report over the rows since some time.                                 *)

\* Mutated PairedWith: the answer takes the first question that is still open.
PairedWithFirst(a, since) ==
  LET asked == {q \in rows : q.role = "user" /\ since <= q.at /\ q.at <= a.at
                  /\ ~\E b \in rows : b.role = "assistant" /\ q.at < b.at /\ b.at < a.at}
      first == CHOOSE q \in asked : \A o \in asked : q.at <= o.at
  IN IF asked = {} THEN None ELSE first.turn

\* An answer is paired with the last question before it, in the window, that no other
\* answer has taken.
PairedWith(a, since) ==
  LET asked == {q \in rows : q.role = "user" /\ since <= q.at /\ q.at <= a.at}
      last  == CHOOSE q \in asked : \A o \in asked : o.at <= q.at
  IN IF asked = {} \/ \E b \in rows : b.role = "assistant" /\ last.at < b.at /\ b.at < a.at
     THEN None ELSE last.turn

Pairs(since) ==
  {p \in [answer : StoredAnswers, question : Requests] :
     p.question = PairedWith(p.answer, since)}

\* An empty answer or an abstention, a refusal by its opening words, or a real answer.
classify_answer(a) ==
  IF a.of \in {None} \cup Abstained THEN {"no_evidence"}
  ELSE IF a.of \in Declined THEN {"declined"} ELSE {}

Kinds(p) ==
  classify_answer(p.answer) \cup
  IF feedback[p.answer.turn] = "down" THEN {"negative_feedback"} ELSE {}

\* Mutated Report: a group keeps the kinds of its latest pair only.
ReportLatestKinds(since) ==
  LET gaps == {p \in Pairs(since) : Kinds(p) # {}}
      Group(t) == {p \in gaps : Topic[p.question] = t}
      Latest(t) == CHOOSE p \in Group(t) : \A o \in Group(t) : o.answer.at <= p.answer.at
  IN  [total |-> Cardinality(Pairs(since)),
       items |-> {[topic |-> t, count |-> Cardinality(Group(t)),
                   kinds |-> Kinds(Latest(t)), sample |-> Latest(t).answer] :
                      t \in {Topic[p.question] : p \in gaps}}]

\* The pairs with a kind, grouped by question: how many, of which kinds, the latest answer.
Report(since) ==
  LET gaps == {p \in Pairs(since) : Kinds(p) # {}}
      Group(t) == {p \in gaps : Topic[p.question] = t}
      Latest(t) == CHOOSE p \in Group(t) : \A o \in Group(t) : o.answer.at <= p.answer.at
  IN  [total |-> Cardinality(Pairs(since)),
       items |-> {[topic |-> t, count |-> Cardinality(Group(t)),
                   kinds |-> UNION {Kinds(p) : p \in Group(t)}, sample |-> Latest(t).answer] :
                      t \in {Topic[p.question] : p \in gaps}}]

------------------------------------------------------------------------------
(* Properties.                                                               *)

\* knowledge_gaps.py 110-117: whatever the window, the report attributes an answer to
\* the question it answers, except when another request of the session was open.
AnswersPairWithTheirQuestion ==
  \A since \in 0..clock : \A p \in Pairs(since) :
    p.question = p.answer.turn \/ p.answer.turn \in crossed

\* knowledge_gaps.py 3-6: an answer that was empty, an abstention, a refusal or rated down
\* is in the report under its question with that kind.  Lost are answers whose request
\* crossed another one's and those whose question is older than the window.
GapsAreListed ==
  \A since \in 0..clock, a \in StoredAnswers :
    LET kinds == Kinds([answer |-> a, question |-> a.turn]) IN
    \/ kinds = {} \/ a.turn \in crossed
    \/ \E q \in rows : q.role = "user" /\ q.turn = a.turn /\ q.at < since
    \/ \E i \in Report(since).items : i.topic = Topic[a.turn] /\ kinds \subseteq i.kinds

\* chat.py 394-407: the rating that is stored is the one of the last request that was
\* answered: of two first ratings at once one fails, none is taken and dropped.
AcknowledgedRatingStands == feedback = acknowledged
==============================================================================
