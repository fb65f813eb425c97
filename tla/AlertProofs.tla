----------------------------- MODULE AlertProofs ----------------------------
(***************************************************************************)
(* Proofs about alert rules: their test (AlertTest), for every number of   *)
(* callers, rules and requests and every choice of the timeout, the pause  *)
(* and the length of a query, and the tables they are kept in with checks  *)
(* and SLOs (RuleStore), for every number of handlers, tenants and rules.  *)
(***************************************************************************)
EXTENDS AlertTest, RuleStore, FiniteSetTheorems, TLAPS

-----------------------------------------------------------------------------
(* AlertTest. *)

\* A request under way has an id of its own and no answer; once its row is in, it
\* stays in; a poll that found a row found the request's.
RequestsInv ==
  \A c \in Caller :
    /\ pc[c] # "idle" => req[c].id \in 1..MaxRequests /\ reply[c] = "none"
    /\ pc[c] \in Polling => req[c] \in pending
    /\ pc[c] = "found" => req[c] \in history

\* A query began before the deadline, and a pause after a query that did.
WaitsInv ==
  \A c \in Caller :
    /\ pc[c] \in Querying => timer[c] <= QueryTime /\ left[c] > timer[c] - QueryTime
    /\ pc[c] = "sleep" => timer[c] <= Pause

\* When the delivery can have appeared, if no poll failed since: after the last poll
\* looked.
ShownInv ==
  \A c \in Caller :
    /\ pc[c] \in Polling /\ req[c] \notin history => shownAt[c] = NotShown
    /\ pc[c] = "empty" /\ ~ missed[c] => shownAt[c] <= left[c] + QueryTime - timer[c]
    /\ pc[c] = "sleep" /\ ~ missed[c] => shownAt[c] <= left[c] + QueryTime + Pause - timer[c]
    /\ pc[c] = "poll" /\ ~ missed[c] => shownAt[c] <= left[c] + QueryTime + Pause
    /\ reply[c] = "queued" => left[c] <= 0

IInv ==
  /\ TypeOK /\ RequestsInv /\ WaitsInv /\ WaitBounded /\ ShownInv
  /\ SynchronousWhenHealthy /\ AnswerIsTrue

LEMMA InitIInv == Init => IInv
<1> SUFFICES ASSUME Init PROVE IInv
  OBVIOUS
<1> USE TestAssumption DEF Init
<1>1. TypeOK
  BY DEF TypeOK, Row, Overrun, NotShown
<1>2. RequestsInv /\ WaitsInv /\ WaitBounded /\ AnswerIsTrue
  BY DEF RequestsInv, WaitsInv, WaitBounded, AnswerIsTrue, Polling, Querying
<1>3. ShownInv /\ SynchronousWhenHealthy
  BY DEF ShownInv, SynchronousWhenHealthy, Polling, Querying
<1> QED
  BY <1>1, <1>2, <1>3 DEF IInv

\* A request is made, and the steps before its row is in.
LEMMA PrepareStep ==
  ASSUME IInv, NEW c \in Caller,
         (\E a \in Alert : Test(c, a)) \/ GetAlert(c) \/ EnsureTable(c)
  PROVE  IInv'
<1> USE TestAssumption DEF IInv
<1>1. CASE \E a \in Alert : Test(c, a)
  <2>1. PICK a \in Alert : Test(c, a)
    BY <1>1
  <2> DEFINE r == Row(issued + 1, a)
  <2>2. r \in [id : 1..MaxRequests, alert : Alert] /\ r.id \in 1..MaxRequests
    BY <2>1 DEF Test, Row, TypeOK
  <2>3. /\ pc[c] = "idle" /\ issued' \in 0..MaxRequests
        /\ pc' = [pc EXCEPT ![c] = "get"] /\ req' = [req EXCEPT ![c] = r] /\ reply' = [reply EXCEPT ![c] = "none"]
        /\ UNCHANGED <<pending, history, left, timer, shownAt, missed>>
    BY <2>1, <2>2 DEF Test, TypeOK, tables, waiting
  <2> HIDE DEF r
  <2>4. TypeOK'
    BY <2>2, <2>3 DEF TypeOK
  <2>5. RequestsInv' /\ AnswerIsTrue'
    BY <2>2, <2>3 DEF TypeOK, RequestsInv, AnswerIsTrue, Polling, Querying
  <2>6. WaitsInv' /\ WaitBounded'
    BY <2>3 DEF TypeOK, WaitsInv, WaitBounded, Polling, Querying
  <2>7. ShownInv' /\ SynchronousWhenHealthy'
    BY <2>3 DEF TypeOK, ShownInv, SynchronousWhenHealthy, Polling, Querying
  <2> QED
    BY <2>4, <2>5, <2>6, <2>7
<1>2. CASE GetAlert(c) \/ EnsureTable(c)
  <2>1. /\ pc[c] \notin Polling \cup {"idle"}
        /\ \/ \E p \in {"ddl", "queue"} : pc' = [pc EXCEPT ![c] = p] /\ UNCHANGED reply
           \/ pc' = [pc EXCEPT ![c] = "idle"] /\ \E a \in {"not_found", "query_error"} : reply' = [reply EXCEPT ![c] = a]
        /\ UNCHANGED <<pending, history, req, left, timer, shownAt, missed, issued>>
    BY <1>2 DEF GetAlert, EnsureTable, Answer, tables, waiting, Polling, Querying
  <2>2. TypeOK'
    BY <2>1 DEF TypeOK
  <2>3. RequestsInv' /\ AnswerIsTrue'
    BY <2>1 DEF TypeOK, RequestsInv, AnswerIsTrue, Polling, Querying
  <2>4. WaitsInv' /\ WaitBounded'
    BY <2>1 DEF TypeOK, WaitsInv, WaitBounded, Polling, Querying
  <2>5. ShownInv' /\ SynchronousWhenHealthy'
    BY <2>1 DEF TypeOK, ShownInv, SynchronousWhenHealthy, Polling, Querying
  <2> QED
    BY <2>2, <2>3, <2>4, <2>5
<1> QED
  BY <1>1, <1>2

\* The row is in, or its insert has failed with or without effect.
LEMMA QueueStep ==
  ASSUME IInv, NEW c \in Caller, Queue(c) \/ QueueFailed(c)
  PROVE  IInv'
<1> USE TestAssumption DEF IInv
<1>1. req[c] \in [id : 1..MaxRequests, alert : Alert] /\ pc[c] = "queue"
  BY DEF Queue, QueueFailed, TypeOK, RequestsInv
<1>2. CASE Queue(c)
  <2>1. TypeOK'
    BY <1>1, <1>2 DEF Queue, TypeOK, Polling, Overrun, NotShown
  <2>2. RequestsInv' /\ AnswerIsTrue'
    BY <1>1, <1>2 DEF Queue, TypeOK, RequestsInv, AnswerIsTrue, Polling, Querying
  <2>3. WaitsInv' /\ WaitBounded'
    BY <1>1, <1>2 DEF Queue, TypeOK, WaitsInv, WaitBounded, Polling, Querying, Overrun
  <2>4. ShownInv' /\ SynchronousWhenHealthy'
    BY <1>1, <1>2 DEF Queue, TypeOK, RequestsInv, ShownInv, SynchronousWhenHealthy, Polling, Querying, Overrun, NotShown
  <2> QED
    BY <2>1, <2>2, <2>3, <2>4
<1>3. CASE QueueFailed(c)
  <2>1. TypeOK'
    BY <1>1, <1>3 DEF QueueFailed, Answer, waiting, TypeOK
  <2>2. RequestsInv' /\ AnswerIsTrue'
    BY <1>1, <1>3 DEF QueueFailed, Answer, waiting, TypeOK, RequestsInv, AnswerIsTrue, Polling, Querying
  <2>3. WaitsInv' /\ WaitBounded'
    BY <1>1, <1>3 DEF QueueFailed, Answer, waiting, TypeOK, WaitsInv, WaitBounded, Polling, Querying
  <2>4. ShownInv' /\ SynchronousWhenHealthy'
    BY <1>1, <1>3 DEF QueueFailed, Answer, waiting, TypeOK, ShownInv, SynchronousWhenHealthy, Polling, Querying
  <2> QED
    BY <2>1, <2>2, <2>3, <2>4
<1> QED
  BY <1>2, <1>3

\* The head of the loop, and the end of a pause.
LEMMA LoopStep ==
  ASSUME IInv, NEW c \in Caller, Poll(c) \/ GiveUp(c) \/ Wake(c)
  PROVE  IInv'
<1> USE TestAssumption DEF IInv
<1>1. CASE Poll(c)
  <2>1. TypeOK'
    BY <1>1 DEF Poll, tables, TypeOK, Polling, Querying
  <2>2. RequestsInv' /\ AnswerIsTrue'
    BY <1>1 DEF Poll, tables, TypeOK, RequestsInv, AnswerIsTrue, Polling, Querying
  <2>3. WaitsInv' /\ WaitBounded'
    BY <1>1 DEF Poll, tables, TypeOK, WaitsInv, WaitBounded, Polling, Querying, Overrun
  <2>4. ShownInv' /\ SynchronousWhenHealthy'
    BY <1>1 DEF Poll, tables, TypeOK, ShownInv, SynchronousWhenHealthy, Polling, Querying
  <2> QED
    BY <2>1, <2>2, <2>3, <2>4
<1>2. CASE GiveUp(c)
  <2>1. TypeOK'
    BY <1>2 DEF GiveUp, Answer, tables, waiting, TypeOK
  <2>2. RequestsInv' /\ AnswerIsTrue'
    BY <1>2 DEF GiveUp, Answer, tables, waiting, TypeOK, RequestsInv, AnswerIsTrue, Polling, Querying
  <2>3. WaitsInv' /\ WaitBounded'
    BY <1>2 DEF GiveUp, Answer, tables, waiting, TypeOK, WaitsInv, WaitBounded, Polling, Querying
  <2>4. ShownInv'
    BY <1>2 DEF GiveUp, Answer, tables, waiting, TypeOK, ShownInv, Polling, Querying
  <2>5. shownAt[c] <= QueryTime + Pause \/ missed[c]
    BY <1>2 DEF GiveUp, TypeOK, ShownInv
  <2>6. SynchronousWhenHealthy'
    BY <1>2, <2>5 DEF GiveUp, Answer, tables, waiting, TypeOK, SynchronousWhenHealthy
  <2> QED
    BY <2>1, <2>2, <2>3, <2>4, <2>6
<1>3. CASE Wake(c)
  <2>1. TypeOK'
    BY <1>3 DEF Wake, tables, waiting, TypeOK, Polling, Querying
  <2>2. RequestsInv' /\ AnswerIsTrue'
    BY <1>3 DEF Wake, tables, waiting, TypeOK, RequestsInv, AnswerIsTrue, Polling, Querying
  <2>3. WaitsInv' /\ WaitBounded'
    BY <1>3 DEF Wake, tables, waiting, TypeOK, WaitsInv, WaitBounded, Polling, Querying, Overrun
  <2>4. ShownInv' /\ SynchronousWhenHealthy'
    BY <1>3 DEF Wake, tables, waiting, TypeOK, ShownInv, SynchronousWhenHealthy, Polling, Querying
  <2> QED
    BY <2>1, <2>2, <2>3, <2>4
<1> QED
  BY <1>1, <1>2, <1>3

\* A query looks, answers, or fails.
LEMMA QueryStep ==
  ASSUME IInv, NEW c \in Caller, Look(c) \/ QueryAnswered(c) \/ QueryFailed(c)
  PROVE  IInv'
<1> USE TestAssumption DEF IInv
<1>1. CASE Look(c)
  <2>1. /\ pc[c] = "query"
        /\ \/ req[c] \in history /\ pc' = [pc EXCEPT ![c] = "found"]
           \/ req[c] \notin history /\ pc' = [pc EXCEPT ![c] = "empty"]
        /\ UNCHANGED <<pending, history, req, left, timer, shownAt, missed, reply, issued>>
    BY <1>1 DEF Look, Names, tables, waiting
  <2>2. TypeOK'
    BY <2>1 DEF TypeOK, Polling, Querying
  <2>3. RequestsInv' /\ AnswerIsTrue'
    BY <2>1 DEF TypeOK, RequestsInv, AnswerIsTrue, Polling, Querying
  <2>4. WaitsInv' /\ WaitBounded'
    BY <2>1 DEF TypeOK, WaitsInv, WaitBounded, Polling, Querying
  <2>5. req[c] \notin history => shownAt[c] <= left[c] + QueryTime - timer[c]
    BY <2>1 DEF TypeOK, WaitsInv, ShownInv, Polling, Querying, Overrun, NotShown
  <2>6. ShownInv' /\ SynchronousWhenHealthy'
    BY <2>1, <2>5 DEF TypeOK, ShownInv, SynchronousWhenHealthy, Polling, Querying
  <2> QED
    BY <2>2, <2>3, <2>4, <2>6
<1>2. CASE pc[c] = "found" /\ QueryAnswered(c)
  <2>1. /\ pc' = [pc EXCEPT ![c] = "idle"] /\ reply' = [reply EXCEPT ![c] = "delivered"]
        /\ UNCHANGED <<pending, history, req, left, timer, shownAt, missed, issued>>
        /\ req[c] \in pending /\ req[c] \in history
    BY <1>2 DEF QueryAnswered, Answer, Rest, tables, RequestsInv, Polling, Querying
  <2>2. TypeOK'
    BY <2>1 DEF TypeOK
  <2>3. RequestsInv' /\ AnswerIsTrue'
    BY <2>1 DEF TypeOK, RequestsInv, AnswerIsTrue, Polling, Querying
  <2>4. WaitsInv' /\ WaitBounded'
    BY <2>1 DEF TypeOK, WaitsInv, WaitBounded, Polling, Querying
  <2>5. ShownInv' /\ SynchronousWhenHealthy'
    BY <2>1 DEF TypeOK, ShownInv, SynchronousWhenHealthy, Polling, Querying
  <2> QED
    BY <2>2, <2>3, <2>4, <2>5
<1>3. CASE (pc[c] = "empty" /\ QueryAnswered(c)) \/ QueryFailed(c)
  <2> DEFINE m == missed'[c]
  <2>1. /\ pc[c] \in Querying /\ pc' = [pc EXCEPT ![c] = "sleep"] /\ timer' = [timer EXCEPT ![c] = Pause]
        /\ missed' \in [Caller -> BOOLEAN]
        /\ \A d \in Caller \ {c} : missed'[d] = missed[d]
        /\ UNCHANGED <<pending, history, req, left, shownAt, reply, issued>>
    BY <1>3 DEF QueryAnswered, QueryFailed, Answer, Rest, tables, TypeOK, Querying
  <2>2. m \/ (pc[c] = "empty" /\ ~ missed[c]) \/ req[c] \notin history
    BY <1>3 DEF QueryAnswered, QueryFailed, Answer, Rest, tables, TypeOK, Querying
  <2>3. TypeOK'
    BY <2>1 DEF TypeOK, Polling, Querying
  <2>4. RequestsInv' /\ AnswerIsTrue'
    BY <2>1 DEF TypeOK, RequestsInv, AnswerIsTrue, Polling, Querying
  <2>5. WaitsInv' /\ WaitBounded'
    BY <2>1 DEF TypeOK, WaitsInv, WaitBounded, Polling, Querying, Overrun
  <2>6. m \/ shownAt[c] <= left[c] + QueryTime
    BY <2>1, <2>2 DEF TypeOK, WaitsInv, ShownInv, Polling, Querying, Overrun, NotShown
  <2>7. reply[c] # "queued"
    BY <2>1 DEF RequestsInv, Querying
  <2>8. ShownInv' /\ SynchronousWhenHealthy'
    BY <2>1, <2>6, <2>7 DEF TypeOK, ShownInv, SynchronousWhenHealthy, Polling, Querying
  <2> QED
    BY <2>3, <2>4, <2>5, <2>8
<1> QED
  BY <1>1, <1>2, <1>3 DEF QueryAnswered

\* The leader adds rows to the history, and time passes.
LEMMA OutsideStep ==
  ASSUME IInv, (\E r \in pending : Deliver(r)) \/ (\E a \in Alert : Fire(a)) \/ Tick
  PROVE  IInv'
<1> USE TestAssumption DEF IInv
<1>1. CASE \E r \in pending : Deliver(r)
  <2>1. PICK r \in pending : Deliver(r)
    BY <1>1
  <2>2. TypeOK'
    BY <2>1 DEF Deliver, TypeOK, Overrun, NotShown
  <2>3. RequestsInv' /\ AnswerIsTrue'
    BY <2>1 DEF Deliver, TypeOK, RequestsInv, AnswerIsTrue
  <2>4. WaitsInv' /\ WaitBounded'
    BY <2>1 DEF Deliver, TypeOK, WaitsInv, WaitBounded
  <2>5. ASSUME NEW c \in Caller, req[c] = r
        PROVE  /\ shownAt'[c] = left[c]
               /\ pc[c] = "empty" => left[c] <= left[c] + QueryTime - timer[c]
               /\ pc[c] = "sleep" => left[c] <= left[c] + QueryTime + Pause - timer[c]
               /\ pc[c] = "poll" => left[c] <= left[c] + QueryTime + Pause
               /\ reply[c] = "queued" => left[c] <= QueryTime + Pause
    BY <2>1, <2>5 DEF Deliver, TypeOK, WaitsInv, ShownInv, Querying
  <2>6. ASSUME NEW c \in Caller, req[c] # r
        PROVE  shownAt'[c] = shownAt[c] /\ (req[c] \notin history' => req[c] \notin history)
    BY <2>1, <2>6 DEF Deliver
  <2>7. UNCHANGED <<pc, req, left, timer, missed, reply>> /\ r \in history'
    BY <2>1 DEF Deliver
  <2>8. ShownInv' /\ SynchronousWhenHealthy'
    BY <2>5, <2>6, <2>7 DEF ShownInv, SynchronousWhenHealthy
  <2> QED
    BY <2>2, <2>3, <2>4, <2>8
<1>2. CASE \E a \in Alert : Fire(a)
  <2>1. PICK a \in Alert : Fire(a)
    BY <1>2
  <2>2. TypeOK'
    BY <2>1 DEF Fire, Row, Unprompted, waiting, TypeOK
  <2>3. RequestsInv' /\ AnswerIsTrue'
    BY <2>1 DEF Fire, waiting, RequestsInv, AnswerIsTrue
  <2>4. WaitsInv' /\ WaitBounded' /\ ShownInv' /\ SynchronousWhenHealthy'
    BY <2>1 DEF Fire, waiting, WaitsInv, WaitBounded, ShownInv, SynchronousWhenHealthy
  <2> QED
    BY <2>2, <2>3, <2>4
<1>3. CASE Tick
  <2>1. ASSUME NEW c \in Caller
        PROVE  /\ pc[c] \in Polling => timer[c] > 0 /\ left'[c] = left[c] - 1 /\ timer'[c] = timer[c] - 1
               /\ pc[c] \notin Polling => left'[c] = left[c] /\ timer'[c] = timer[c]
               /\ pc[c] # "poll"
    BY <1>3 DEF Tick
  <2>2. TypeOK'
    BY <1>3, <2>1 DEF Tick, tables, TypeOK, WaitBounded, Overrun
  <2>3. RequestsInv' /\ AnswerIsTrue'
    BY <1>3 DEF Tick, tables, RequestsInv, AnswerIsTrue
  <2>4. WaitsInv' /\ WaitBounded'
    BY <1>3, <2>1 DEF Tick, TypeOK, WaitsInv, WaitBounded, Polling, Overrun
  <2>5. ShownInv' /\ SynchronousWhenHealthy'
    BY <1>3, <2>1 DEF Tick, tables, TypeOK, RequestsInv, ShownInv, SynchronousWhenHealthy, Polling
  <2> QED
    BY <2>2, <2>3, <2>4, <2>5
<1> QED
  BY <1>1, <1>2, <1>3

\* The invariant is preserved by every step.
LEMMA NextIInv == IInv /\ [Next]_vars => IInv'
<1> SUFFICES ASSUME IInv, [Next]_vars PROVE IInv'
  OBVIOUS
<1>1. CASE \E c \in Caller : Handler(c) \/ \E a \in Alert : Test(c, a)
  BY <1>1, PrepareStep, QueueStep, LoopStep, QueryStep DEF Handler
<1>2. CASE (\E r \in pending : Deliver(r)) \/ (\E a \in Alert : Fire(a)) \/ Tick
  BY <1>2, OutsideStep
<1>3. CASE UNCHANGED vars
  BY <1>3 DEF vars, tables, waiting, IInv, TypeOK, RequestsInv, WaitsInv, WaitBounded, ShownInv,
     SynchronousWhenHealthy, AnswerIsTrue
<1> QED
  BY <1>1, <1>2, <1>3 DEF Next

\* The inductive invariant holds in every reachable state.
LEMMA Invariance == Spec => []IInv
BY InitIInv, NextIInv, PTL DEF Spec

\* The state of the test flow is well typed in every reachable state.
THEOREM TypeCorrect == Spec => []TypeOK
<1>1. IInv => TypeOK
  BY DEF IInv
<1> QED
  BY Invariance, <1>1, PTL

\* However long queries and pauses take, no wait outlives its deadline by more than one
\* of each (waitAlertTestDelivery).
THEOREM WaitsEnd == Spec => []WaitBounded
<1>1. IInv => WaitBounded
  BY DEF IInv
<1> QED
  BY Invariance, <1>1, PTL

\* A test is not answered "queued" when its delivery was there a query and a pause
\* before the deadline and no poll failed since, whatever the other requests do
\* (waitAlertTestDelivery).
THEOREM HealthyIsSynchronous == Spec => []SynchronousWhenHealthy
<1>1. IInv => SynchronousWhenHealthy
  BY DEF IInv
<1> QED
  BY Invariance, <1>1, PTL

\* An answer is about the very request it answers, for any number of tests of one rule
\* beside the rule's own firings (queueAlertTest, waitAlertTestDelivery).
THEOREM AnswersAreTrue == Spec => []AnswerIsTrue
<1>1. IInv => AnswerIsTrue
  BY DEF IInv
<1> QED
  BY Invariance, <1>1, PTL

-----------------------------------------------------------------------------
(* RuleStore. *)

\* What a request has, and how it differs from none (Request).
LEMMA RequestFields ==
  ASSUME NEW q \in Request
  PROVE  /\ q.kind \in Kind /\ q.op \in {"create", "update", "delete"} /\ q.id \in Id /\ q.ctx \in Context
         /\ q.ctx.tenant \in Tenant /\ q.def \in Definition \cup {Blank}
         /\ q.def = Blank => q.op = "delete" \/ (q.kind = "check" /\ q.op = "update")
         /\ q # None
BY RuleAssumption DEF Request, Kind, None

\* A rule is what its rows make of it: rows of other rules have no part in it (Visible).
LEMMA RuleKept ==
  ASSUME NEW k, NEW t, NEW i,
         \A r : r.kind = k /\ r.tenant = t /\ r.id = i => (r \in rows <=> r \in rows')
  PROVE  RuleOf(k, t, i)' = RuleOf(k, t, i)
<1> DEFINE Of(r) == r.kind = k /\ r.tenant = t /\ r.id = i
           Beaten(r, R) == \E s \in R : Supersedes(s, r)
<1>1. \A r, s : Supersedes(s, r) => (Of(r) <=> Of(s))
  BY DEF Supersedes, SameRule
<1>2. \A r : Of(r) => (Beaten(r, rows) <=> Beaten(r, rows'))
  BY <1>1
<1>3. \A r : r \in RuleOf(k, t, i) <=> Of(r) /\ r \in rows /\ (r.kind = "slo" \/ ~Beaten(r, rows))
  BY DEF RuleOf, Visible
<1>4. \A r : r \in RuleOf(k, t, i)' <=> Of(r) /\ r \in rows' /\ (r.kind = "slo" \/ ~Beaten(r, rows'))
  BY DEF RuleOf, Visible
<1>5. \A r : Of(r) => (r \in rows <=> r \in rows')
  OBVIOUS
<1> HIDE DEF Of, Beaten
<1>6. \A r : r \in RuleOf(k, t, i)' <=> r \in RuleOf(k, t, i)
  BY <1>2, <1>3, <1>4, <1>5
<1> QED BY <1>6

\* A goroutine keeps what it holds as long as its request and what it found stay, and
\* its rule too unless it is overtaken.
LEMMA HoldsRuleKept ==
  ASSUME NEW c \in Editor, HoldsRule(c), asked'[c] = asked[c], found'[c] = found[c],
         ~overtaken'[c] =>
           /\ ~overtaken[c]
           /\ \A r : r.kind = asked[c].kind /\ r.tenant = WriteTenant(c) /\ r.id = asked[c].id =>
                       (r \in rows <=> r \in rows')
  PROVE  HoldsRule(c)'
<1>1. ASSUME ~overtaken'[c], found[c] \in Target(c)
      PROVE  (found[c] \in Target(c))'
  <2> DEFINE q == asked[c]
             f == found[c]
             t == WriteTenant(c)
  <2>1. f \in rows /\ f.kind = q.kind /\ f.tenant = t /\ f.id = q.id
    BY <1>1 DEF Target, RuleOf, Visible
  <2>2. f \in rows'
    BY <1>1, <2>1
  <2>3. f.kind = "slo" \/ \A s \in rows : ~Supersedes(s, f)
    BY <1>1 DEF Target, RuleOf, Visible
  <2>4. ASSUME NEW s \in rows', Supersedes(s, f)
        PROVE  s \in rows
    BY <1>1, <2>1, <2>4 DEF Supersedes, SameRule
  <2>5. f.kind = "slo" \/ \A s \in rows' : ~Supersedes(s, f)
    BY <2>3, <2>4
  <2>6. WriteTenant(c)' = t
    BY DEF WriteTenant
  <2> QED BY <2>1, <2>2, <2>5, <2>6 DEF Target, RuleOf, Visible
<1> QED BY <1>1 DEF HoldsRule

\* What a goroutine on its way to a statement is about, and where it writes.
LEMMA AboutToWrite ==
  ASSUME RuleInv, NEW c \in Editor, stage[c] \in {"stamp", "exec"}
  PROVE  /\ asked[c] \in Request /\ WriteTenant(c) \in Tenant
         /\ WriteTenant(c) = asked[c].ctx.tenant \/
              (found[c] # None /\ asked[c].op # "create" /\ WriteTenant(c) \in asked[c].ctx.scope)
         /\ ~IsMutation(asked[c]) => Written(c) \in Definition
<1>1. asked[c] \in Request /\ HoldsRule(c) /\ found[c] \in RuleRow \cup {None}
  BY DEF RuleInv, RuleTypeOK, Busy, RulesHeld
<1>2. WriteTenant(c) = asked[c].ctx.tenant \/
        (found[c] # None /\ asked[c].op # "create" /\ WriteTenant(c) \in asked[c].ctx.scope)
  BY <1>1 DEF WriteTenant, HoldsRule
<1>3. WriteTenant(c) \in Tenant
  <2>1. asked[c].ctx.tenant \in Tenant
    BY <1>1, RequestFields
  <2>2. found[c] # None => found[c].tenant \in Tenant
    BY <1>1 DEF RuleRow
  <2> QED BY <2>1, <2>2 DEF WriteTenant
<1>4. ASSUME ~IsMutation(asked[c])
      PROVE  Written(c) \in Definition
  <2>1. CASE asked[c].def # Blank
    BY <1>1, <2>1, RequestFields DEF Written
  <2>2. CASE asked[c].def = Blank
    <3>1. asked[c].kind = "check" /\ asked[c].op = "update"
      BY <1>1, <1>4, <2>2, RequestFields DEF IsMutation
    <3>2. found[c] \in RuleRow
      BY <1>1, <3>1 DEF HoldsRule
    <3> QED BY <2>2, <3>2 DEF Written, RuleRow
  <2> QED BY <2>1, <2>2
<1> QED BY <1>1, <1>2, <1>3, <1>4

\* The row an insert adds.
NewRow(c) ==
  [kind |-> asked[c].kind, tenant |-> WriteTenant(c), id |-> asked[c].id, def |-> Written(c),
   version |-> IF asked[c].kind = "check" THEN stamp[c] ELSE now, block |-> blocks + 1]

LEMMA NewRowIsRow ==
  ASSUME RuleInv, NEW c \in Editor, stage[c] = "exec", ~IsMutation(asked[c])
  PROVE  /\ NewRow(c) \in RuleRow /\ NewRow(c).version <= now
         /\ NewRow(c).kind = asked[c].kind /\ NewRow(c).tenant = WriteTenant(c) /\ NewRow(c).id = asked[c].id
         /\ NewRow(c).block = blocks + 1 /\ NewRow(c).def = Written(c)
<1>1. asked[c] \in Request /\ WriteTenant(c) \in Tenant /\ Written(c) \in Definition
  BY AboutToWrite
<1>2. asked[c].kind \in Kind /\ asked[c].id \in Id
  BY <1>1, RequestFields
<1>3. now \in Nat /\ blocks \in Nat /\ stamp[c] \in Nat
  BY DEF RuleInv, RuleTypeOK
<1>4. asked[c].kind = "check" => stamp[c] <= now
  BY DEF RuleInv, StampsNewest, Newest, IsMutation
<1> QED
  BY <1>1, <1>2, <1>3, <1>4 DEF NewRow, RuleRow

\* What holds of the goroutines a step leaves where they were.
LEMMA OthersStay ==
  ASSUME RuleInv, NEW d \in Editor, stage'[d] = stage[d], asked'[d] = asked[d], found'[d] = found[d], stamp'[d] = stamp[d],
         now <= now', now' \in Nat,
         stage[d] \in {"stamp", "exec"} /\ ~overtaken'[d] =>
           /\ ~overtaken[d]
           /\ \A r : r.kind = asked[d].kind /\ r.tenant = WriteTenant(d) /\ r.id = asked[d].id =>
                       (r \in rows <=> r \in rows')
  PROVE  /\ stage'[d] \in {"stamp", "exec"} => HoldsRule(d)'
         /\ stage'[d] = "exec" /\ asked'[d].kind = "check" /\ asked'[d].op # "delete" => Newest(d)'
<1>1. ASSUME stage[d] \in {"stamp", "exec"}
      PROVE  HoldsRule(d)'
  <2>1. HoldsRule(d)
    BY <1>1 DEF RuleInv, RulesHeld
  <2> QED BY <1>1, <2>1, HoldsRuleKept
<1>2. ASSUME stage[d] = "exec", asked[d].kind = "check", asked[d].op # "delete"
      PROVE  Newest(d)'
  <2>1. Newest(d) /\ now \in Nat /\ stamp[d] \in Nat
    BY <1>2 DEF RuleInv, RuleTypeOK, StampsNewest
  <2>2. stamp'[d] <= now'
    BY <2>1 DEF Newest
  <2>3. ASSUME ~overtaken'[d], NEW r \in rows', r.kind = "check", r.tenant = WriteTenant(d), r.id = asked[d].id
        PROVE  r.version <= stamp[d]
    <3>1. r \in rows /\ ~overtaken[d]
      BY <1>2, <2>3
    <3> QED BY <2>1, <2>3, <3>1 DEF Newest
  <2>4. WriteTenant(d)' = WriteTenant(d)
    BY DEF WriteTenant
  <2> QED BY <2>2, <2>3, <2>4 DEF Newest
<1> QED BY <1>1, <1>2

\* Requests that arrive, read or take the time leave the tables alone.
LEMMA BeforeTheStatement ==
  ASSUME RuleInv, NEW c \in Editor,
         (\E q \in Request : Ask(c, q)) \/ Read(c) \/ ReadFailed(c) \/ Stamp(c) \/ ExecFailed(c)
  PROVE  RuleInv'
<1>1. RuleTypeOK /\ Busy /\ RowsPast /\ RulesHeld /\ StampsNewest /\ MutationsSound
  BY DEF RuleInv
<1>2. rows' = rows /\ mutations' = mutations /\ blocks' = blocks /\ now' = now /\ now \in Nat
  BY <1>1 DEF Ask, Read, ReadFailed, Stamp, ExecFailed, RuleTypeOK
<1>3. \A d \in Editor \ {c} :
        /\ stage'[d] = stage[d] /\ asked'[d] = asked[d] /\ found'[d] = found[d] /\ stamp'[d] = stamp[d]
        /\ overtaken'[d] = overtaken[d]
  BY <1>1 DEF Ask, Read, ReadFailed, Stamp, ExecFailed, Goto, RuleTypeOK
<1>4. RowsPast' /\ MutationsSound'
  BY <1>1, <1>2 DEF RowsPast, MutationsSound
\* Enough: the goroutine itself.
<1>5. ASSUME RuleTypeOK',
             stage'[c] # "idle" => asked'[c] # None,
             stage'[c] \in {"idle", "read"} => found'[c] = None,
             stage'[c] = "read" => asked'[c].op # "create",
             stage'[c] = "stamp" => asked'[c].kind = "check" /\ asked'[c].op # "delete",
             stage'[c] \in {"stamp", "exec"} => HoldsRule(c)',
             stage'[c] = "exec" /\ asked'[c].kind = "check" /\ asked'[c].op # "delete" => Newest(c)'
      PROVE  RuleInv'
  <2>1. Busy'
    BY <1>1, <1>3, <1>5 DEF Busy
  <2>2. ASSUME NEW d \in Editor \ {c}
        PROVE  /\ stage'[d] \in {"stamp", "exec"} => HoldsRule(d)'
               /\ stage'[d] = "exec" /\ asked'[d].kind = "check" /\ asked'[d].op # "delete" => Newest(d)'
    BY <1>2, <1>3, OthersStay
  <2>3. RulesHeld' /\ StampsNewest'
    BY <1>5, <2>2 DEF RulesHeld, StampsNewest
  <2> QED BY <1>4, <1>5, <2>1, <2>3 DEF RuleInv
<1>6. ASSUME NEW q \in Request, Ask(c, q)
      PROVE  RuleInv'
  <2>1. /\ stage'[c] = IF ReadsFirst(q) THEN "read" ELSE WriteStep(q)
        /\ asked'[c] = q /\ found'[c] = None
    BY <1>1, <1>6 DEF Ask, RuleTypeOK, Busy
  <2>2. RuleTypeOK'
    BY <1>1, <1>6 DEF Ask, RuleTypeOK, WriteStep
  <2>3. q # None
    BY RequestFields
  <2>4. stage'[c] \in {"stamp", "exec"} => ~(q.kind = "check" /\ q.op = "update")
    BY <2>1 DEF ReadsFirst
  <2>5. stage'[c] \in {"stamp", "exec"} => HoldsRule(c)'
    BY <2>1, <2>4 DEF HoldsRule
  <2>6. stage'[c] = "stamp" => q.kind = "check" /\ q.op # "delete"
    BY <2>1 DEF WriteStep
  <2>7. ~(stage'[c] = "exec" /\ q.kind = "check" /\ q.op # "delete")
    BY <2>1 DEF WriteStep
  <2>8. stage'[c] = "read" => q.op # "create"
    BY <2>1 DEF ReadsFirst, WriteStep
  <2> QED BY <1>5, <2>1, <2>2, <2>3, <2>5, <2>6, <2>7, <2>8
<1>7. ASSUME Read(c)
      PROVE  RuleInv'
  <2> DEFINE q == asked[c]
             seen == {r \in Visible : r.kind = q.kind /\ r.id = q.id /\ r.tenant \in q.ctx.scope}
  <2>1. q \in Request /\ q # None /\ q.op # "create"
    BY <1>1, <1>7 DEF Read, RuleTypeOK, Busy
  <2>2. PICK r \in IF seen = {} THEN {None} ELSE seen :
          Goto(c, IF r = None /\ q.kind = "check" THEN "idle" ELSE WriteStep(q), r)
    BY <1>7 DEF Read
  <2> DEFINE to == IF r = None /\ q.kind = "check" THEN "idle" ELSE WriteStep(q)
  <2>3. seen \subseteq RuleRow
    BY <1>1 DEF Visible, RuleTypeOK
  <2>4. r \in RuleRow \cup {None} /\ (r # None => r \in seen)
    BY <2>2, <2>3
  <2>5. r # None => r.kind = q.kind /\ r.id = q.id /\ r.tenant \in q.ctx.scope /\ r \in RuleOf(q.kind, r.tenant, q.id)
    BY <2>4 DEF RuleOf
  <2>6. to \in {"idle", "stamp", "exec"} /\ (to = "stamp" => q.kind = "check" /\ q.op # "delete")
    BY DEF WriteStep
  <2>7. (to = "exec" => ~(q.kind = "check" /\ q.op # "delete")) /\ (to # "idle" /\ q.kind = "check" => r # None)
    BY DEF WriteStep
  <2>8. Goto(c, to, r)
    BY <2>2
  <2> HIDE DEF to, seen
  <2>9. stage'[c] = to /\ asked'[c] = (IF to = "idle" THEN None ELSE q) /\ found'[c] = (IF to = "idle" THEN None ELSE r)
    BY <1>1, <2>8 DEF Goto, RuleTypeOK
  <2>10. RuleTypeOK'
    <3>1. overtaken' = overtaken /\ requests' = requests
      BY <1>7 DEF Read
    <3> QED BY <1>1, <1>2, <2>4, <2>6, <2>8, <3>1 DEF Goto, RuleTypeOK
  <2>11. ASSUME to # "idle"
         PROVE  HoldsRule(c)'
    <3>1. asked'[c] = q /\ found'[c] = r
      BY <2>9, <2>11
    <3>2. r # None => WriteTenant(c)' = r.tenant
      BY <3>1 DEF WriteTenant
    <3>3. r # None => (found[c] \in Target(c))'
      BY <1>2, <2>5, <3>1, <3>2 DEF Target, RuleOf, Visible
    <3> QED BY <2>1, <2>5, <2>7, <2>11, <3>1, <3>3 DEF HoldsRule
  <2> QED BY <1>5, <2>1, <2>6, <2>7, <2>9, <2>10, <2>11
<1>8. ASSUME ReadFailed(c)
      PROVE  RuleInv'
  <2> DEFINE q == asked[c]
             to == IF q.kind = "check" THEN "idle" ELSE "exec"
  <2>1. q \in Request /\ q # None
    BY <1>1, <1>8 DEF ReadFailed, RuleTypeOK, Busy
  <2>2. Goto(c, to, None) /\ overtaken' = overtaken /\ requests' = requests
    BY <1>8 DEF ReadFailed
  <2>3. to \in {"idle", "exec"} /\ (to = "exec" => q.kind # "check")
    OBVIOUS
  <2> HIDE DEF to
  <2>4. stage'[c] = to /\ asked'[c] = (IF to = "idle" THEN None ELSE q) /\ found'[c] = None
    BY <1>1, <2>2 DEF Goto, RuleTypeOK
  <2>5. RuleTypeOK'
    BY <1>1, <1>2, <2>2, <2>3 DEF Goto, RuleTypeOK
  <2>6. to = "exec" => HoldsRule(c)'
    BY <2>3, <2>4 DEF HoldsRule
  <2> QED BY <1>5, <2>1, <2>3, <2>4, <2>5, <2>6
<1>9. ASSUME Stamp(c)
      PROVE  RuleInv'
  <2>1. /\ stage[c] = "stamp" /\ stage'[c] = "exec" /\ asked' = asked /\ found' = found /\ overtaken' = overtaken
        /\ stamp'[c] = now
    BY <1>1, <1>9 DEF Stamp, RuleTypeOK
  <2>2. RuleTypeOK'
    BY <1>1, <1>9 DEF Stamp, RuleTypeOK
  <2>3. asked[c] # None
    BY <1>1, <2>1 DEF Busy
  <2>4. HoldsRule(c)
    BY <1>1, <2>1 DEF RulesHeld
  <2>5. HoldsRule(c)'
    BY <1>2, <2>1, <2>4, HoldsRuleKept
  <2>6. Newest(c)'
    BY <1>1, <1>2, <2>1 DEF Newest, RowsPast
  <2> QED BY <1>5, <2>1, <2>2, <2>3, <2>5, <2>6
<1>10. ASSUME ExecFailed(c)
       PROVE  RuleInv'
  <2>1. Goto(c, "idle", None) /\ overtaken' = overtaken /\ requests' = requests
    BY <1>10 DEF ExecFailed
  <2>2. stage'[c] = "idle" /\ found'[c] = None
    BY <1>1, <2>1 DEF Goto, RuleTypeOK
  <2>3. RuleTypeOK'
    BY <1>1, <1>2, <2>1 DEF Goto, RuleTypeOK
  <2> QED BY <1>5, <2>2, <2>3
<1> QED
  BY <1>6, <1>7, <1>8, <1>9, <1>10

\* Which requests a statement overtakes.
LEMMA Overtaken ==
  ASSUME RuleTypeOK, NEW k, NEW i, NEW tenants, NEW others, Overtake(k, i, tenants, others)
  PROVE  /\ overtaken' \in [Editor -> BOOLEAN]
         /\ \A d \in Editor \cap others :
              stage[d] \in {"stamp", "exec"} /\ ~overtaken'[d] =>
                ~overtaken[d] /\ ~(asked[d].kind = k /\ asked[d].id = i /\ WriteTenant(d) \in tenants)
<1>1. overtaken' \in [Editor -> BOOLEAN]
  BY DEF RuleTypeOK, Overtake, Zenon
<1> QED BY <1>1 DEF Overtake

\* A statement takes effect (Exec).
LEMMA StatementTaken ==
  ASSUME RuleInv, NEW c \in Editor, Exec(c)
  PROVE  RuleInv'
<1>1. RuleTypeOK /\ Busy /\ RowsPast /\ RulesHeld /\ StampsNewest /\ MutationsSound
  BY DEF RuleInv
<1> DEFINE q == asked[c]
<1>2. /\ stage[c] = "exec" /\ blocks' = blocks + 1 /\ now' = now /\ requests' = requests
      /\ Goto(c, "idle", None) /\ Overtake(q.kind, q.id, IF IsMutation(q) THEN {} ELSE {WriteTenant(c)}, Editor \ {c})
      /\ IF IsMutation(q) THEN Mutate(c) ELSE InsertRow(c)
  BY DEF Exec
<1>3. q \in Request
  BY <1>2, AboutToWrite
<1>4. /\ stage' = [stage EXCEPT ![c] = "idle"] /\ asked' = [asked EXCEPT ![c] = None]
      /\ found' = [found EXCEPT ![c] = None] /\ stamp' = [stamp EXCEPT ![c] = 0]
  BY <1>2 DEF Goto
<1>5. overtaken' \in [Editor -> BOOLEAN]
  BY <1>1, <1>2, Overtaken
<1>6. ASSUME NEW d \in Editor \ {c}, stage[d] \in {"stamp", "exec"}, ~overtaken'[d]
      PROVE  /\ ~overtaken[d]
             /\ ~IsMutation(q) =>
                  ~(asked[d].kind = q.kind /\ asked[d].id = q.id /\ WriteTenant(d) = WriteTenant(c))
  BY <1>1, <1>2, <1>6, Overtaken
<1>7. \/ rows' = rows /\ IsMutation(q)
      \/ rows' = rows \cup {NewRow(c)} /\ ~IsMutation(q)
  BY <1>2 DEF Mutate, InsertRow, NewRow
<1>8. mutations' = mutations \/
        \E m \in Mutation : /\ mutations' = mutations \cup {m}
                            /\ IF m.op = "delete" THEN m.tenants = {m.by} ELSE m.def \in Definition
  <2>1. CASE IsMutation(q)
    <3> DEFINE m == [kind |-> q.kind, op |-> q.op, id |-> q.id, def |-> q.def, block |-> blocks + 1,
                     by |-> q.ctx.tenant, tenants |-> IF q.op = "delete" THEN Owned(q.ctx) ELSE Tenant]
    <3>1. mutations' = mutations \cup {m}
      BY <1>2, <2>1 DEF Mutate
    <3>2. q.op \in {"update", "delete"} /\ (q.op # "delete" => q.def \in Definition)
      BY <1>3, <2>1, RequestFields DEF IsMutation
    <3>3. q.kind \in Kind /\ q.id \in Id /\ q.def \in Definition \cup {Blank} /\ q.ctx.tenant \in Tenant /\ blocks \in Nat
      BY <1>1, <1>3, RequestFields DEF RuleTypeOK
    <3>4. Owned(q.ctx) = {q.ctx.tenant} /\ Owned(q.ctx) \subseteq Tenant
      BY <3>3 DEF Owned
    <3>5. m \in Mutation
      BY <3>2, <3>3, <3>4 DEF Mutation
    <3>6. IF m.op = "delete" THEN m.tenants = {m.by} ELSE m.def \in Definition
      BY <3>2, <3>4
    <3> HIDE DEF m
    <3> QED BY <3>1, <3>5, <3>6
  <2>2. CASE ~IsMutation(q)
    BY <1>2, <2>2 DEF InsertRow
  <2> QED BY <2>1, <2>2
<1>9. \A r \in rows' : r \in rows \/ (r = NewRow(c) /\ ~IsMutation(q))
  BY <1>7
<1>10. ~IsMutation(q) =>
         /\ NewRow(c) \in RuleRow /\ NewRow(c).version <= now
         /\ NewRow(c).kind = q.kind /\ NewRow(c).tenant = WriteTenant(c) /\ NewRow(c).id = q.id
         /\ NewRow(c).block = blocks + 1
  BY <1>2, NewRowIsRow
<1> HIDE DEF q
<1>11. RuleTypeOK'
  <2>1. rows' \subseteq RuleRow /\ mutations' \subseteq Mutation
    BY <1>1, <1>8, <1>9, <1>10 DEF RuleTypeOK
  <2>2. blocks' \in Nat /\ now' \in Nat /\ requests' \in Nat
    BY <1>1, <1>2 DEF RuleTypeOK
  <2>3. stage' \in [Editor -> {"idle", "read", "stamp", "exec"}] /\ stamp' \in [Editor -> Nat]
    BY <1>1, <1>4 DEF RuleTypeOK
  <2>4. asked' \in [Editor -> Request \cup {None}] /\ found' \in [Editor -> RuleRow \cup {None}]
    BY <1>1, <1>4 DEF RuleTypeOK
  <2> QED BY <1>5, <2>1, <2>2, <2>3, <2>4 DEF RuleTypeOK
<1>12. Busy'
  BY <1>1, <1>4 DEF Busy, RuleTypeOK
<1>13. RowsPast'
  <2> SUFFICES ASSUME NEW r \in rows'
               PROVE  r.version <= now /\ r.block <= blocks + 1
    BY <1>2 DEF RowsPast
  <2>1. CASE r \in rows
    <3>1. r.block \in Nat /\ blocks \in Nat
      BY <1>1, <2>1 DEF RuleTypeOK, RuleRow
    <3> QED BY <1>1, <2>1, <3>1 DEF RowsPast
  <2>2. CASE r = NewRow(c) /\ ~IsMutation(q)
    BY <1>1, <1>10, <2>2 DEF RuleTypeOK
  <2> QED BY <1>9, <2>1, <2>2
<1>14. MutationsSound'
  BY <1>1, <1>8 DEF MutationsSound
<1>15. ASSUME NEW d \in Editor
       PROVE  /\ stage'[d] \in {"stamp", "exec"} => HoldsRule(d)'
              /\ stage'[d] = "exec" /\ asked'[d].kind = "check" /\ asked'[d].op # "delete" => Newest(d)'
  <2>1. CASE d = c
    BY <1>1, <1>4, <2>1 DEF RuleTypeOK
  <2>2. CASE d # c
    <3>1. stage'[d] = stage[d] /\ asked'[d] = asked[d] /\ found'[d] = found[d] /\ stamp'[d] = stamp[d]
      BY <1>1, <1>4, <2>2 DEF RuleTypeOK
    <3>2. ASSUME stage[d] \in {"stamp", "exec"}, ~overtaken'[d]
          PROVE  /\ ~overtaken[d]
                 /\ \A r : r.kind = asked[d].kind /\ r.tenant = WriteTenant(d) /\ r.id = asked[d].id =>
                             (r \in rows <=> r \in rows')
      BY <1>6, <1>7, <1>10, <2>2, <3>2
    <3>3. now <= now' /\ now' \in Nat
      BY <1>1, <1>2 DEF RuleTypeOK
    <3> QED BY <3>1, <3>2, <3>3, OthersStay
  <2> QED BY <2>1, <2>2
<1>16. RulesHeld' /\ StampsNewest'
  BY <1>15 DEF RulesHeld, StampsNewest
<1> QED
  BY <1>11, <1>12, <1>13, <1>14, <1>16 DEF RuleInv

\* The row an update makes of one it hits.
LEMMA Updated ==
  ASSUME NEW r \in RuleRow, NEW d \in Definition
  PROVE  /\ [r EXCEPT !.def = d] \in RuleRow
         /\ [r EXCEPT !.def = d].kind = r.kind /\ [r EXCEPT !.def = d].tenant = r.tenant
         /\ [r EXCEPT !.def = d].id = r.id /\ [r EXCEPT !.def = d].version = r.version
         /\ [r EXCEPT !.def = d].block = r.block
BY DEF RuleRow

\* Only rows a mutation hits come and go when it is applied.
LEMMA ApplyChanges ==
  ASSUME RuleInv, NEW m \in mutations, Apply(m)
  PROVE  /\ \A r \in rows' : r \in RuleRow /\ r.version <= now /\ r.block <= blocks
         /\ \A r : ~(r.kind = m.kind /\ r.id = m.id /\ r.tenant \in m.tenants) => (r \in rows <=> r \in rows')
<1>1. RuleTypeOK /\ RowsPast /\ MutationsSound /\ m \in Mutation
  BY DEF RuleInv, RuleTypeOK
<1>2. rows' = {r \in rows : ~Hits(m, r)} \cup
             (IF m.op = "delete" THEN {} ELSE {[r EXCEPT !.def = m.def] : r \in {s \in rows : Hits(m, s)}})
  BY DEF Apply
<1>3. m.op # "delete" => m.def \in Definition
  BY <1>1 DEF MutationsSound
<1>4. ASSUME NEW r \in rows'
      PROVE  \/ r \in rows /\ ~Hits(m, r)
             \/ /\ m.op # "delete"
                /\ \E s \in rows : Hits(m, s) /\ r = [s EXCEPT !.def = m.def]
  BY <1>2
<1>5. ASSUME NEW r \in rows', NEW s \in rows, m.op # "delete", Hits(m, s), r = [s EXCEPT !.def = m.def]
      PROVE  /\ r \in RuleRow /\ r.version <= now /\ r.block <= blocks
             /\ r.kind = m.kind /\ r.id = m.id /\ r.tenant \in m.tenants
  <2>1. s \in RuleRow /\ s.version <= now /\ s.block <= blocks
    BY <1>1 DEF RuleTypeOK, RowsPast
  <2>2. m.def \in Definition
    BY <1>3, <1>5
  <2>3. /\ r \in RuleRow /\ r.kind = s.kind /\ r.tenant = s.tenant /\ r.id = s.id
        /\ r.version = s.version /\ r.block = s.block
    BY <1>5, <2>1, <2>2, Updated
  <2> QED BY <1>5, <2>1, <2>3 DEF Hits
<1>6. ASSUME NEW r \in rows'
      PROVE  r \in RuleRow /\ r.version <= now /\ r.block <= blocks
  BY <1>1, <1>4, <1>5 DEF RuleTypeOK, RowsPast
<1>7. ASSUME NEW r, ~(r.kind = m.kind /\ r.id = m.id /\ r.tenant \in m.tenants)
      PROVE  r \in rows <=> r \in rows'
  <2>1. ~Hits(m, r)
    BY <1>7 DEF Hits
  <2>2. r \in rows => r \in rows'
    BY <1>2, <2>1
  <2>3. r \in rows' => r \in rows
    BY <1>4, <1>5, <1>7
  <2> QED BY <2>2, <2>3
<1> QED BY <1>6, <1>7

\* A mutation is applied.
LEMMA MutationApplied ==
  ASSUME RuleInv, NEW m \in mutations, Apply(m)
  PROVE  RuleInv'
<1>1. RuleTypeOK /\ Busy /\ RowsPast /\ RulesHeld /\ StampsNewest /\ MutationsSound
  BY DEF RuleInv
<1>2. /\ blocks' = blocks /\ now' = now /\ stage' = stage /\ asked' = asked /\ found' = found /\ stamp' = stamp
      /\ requests' = requests /\ mutations' = mutations \ {m} /\ Overtake(m.kind, m.id, m.tenants, Editor)
  BY DEF Apply
<1>3. /\ \A r \in rows' : r \in RuleRow /\ r.version <= now /\ r.block <= blocks
      /\ \A r : ~(r.kind = m.kind /\ r.id = m.id /\ r.tenant \in m.tenants) => (r \in rows <=> r \in rows')
  BY ApplyChanges
<1>4. /\ overtaken' \in [Editor -> BOOLEAN]
      /\ \A d \in Editor :
           stage[d] \in {"stamp", "exec"} /\ ~overtaken'[d] =>
             ~overtaken[d] /\ ~(asked[d].kind = m.kind /\ asked[d].id = m.id /\ WriteTenant(d) \in m.tenants)
  BY <1>1, <1>2, Overtaken
<1>5. RuleTypeOK'
  BY <1>1, <1>2, <1>3, <1>4 DEF RuleTypeOK
<1>6. Busy' /\ RowsPast' /\ MutationsSound'
  BY <1>1, <1>2, <1>3 DEF Busy, RowsPast, MutationsSound
<1>7. ASSUME NEW d \in Editor
      PROVE  /\ stage'[d] \in {"stamp", "exec"} => HoldsRule(d)'
             /\ stage'[d] = "exec" /\ asked'[d].kind = "check" /\ asked'[d].op # "delete" => Newest(d)'
  <2>1. ASSUME stage[d] \in {"stamp", "exec"}, ~overtaken'[d]
        PROVE  /\ ~overtaken[d]
               /\ \A r : r.kind = asked[d].kind /\ r.tenant = WriteTenant(d) /\ r.id = asked[d].id =>
                           (r \in rows <=> r \in rows')
    BY <1>3, <1>4, <2>1
  <2>2. now <= now' /\ now' \in Nat
    BY <1>1, <1>2 DEF RuleTypeOK
  <2> QED BY <1>2, <2>1, <2>2, OthersStay
<1>8. RulesHeld' /\ StampsNewest'
  BY <1>7 DEF RulesHeld, StampsNewest
<1> QED
  BY <1>5, <1>6, <1>8 DEF RuleInv

\* Every step keeps it.
LEMMA NextRuleInv ==
  ASSUME RuleInv, [RuleNext]_ruleVars
  PROVE  RuleInv'
<1>1. CASE \E c \in Editor, q \in Request : Ask(c, q)
  BY <1>1, BeforeTheStatement
<1>2. CASE \E c \in Editor : Read(c) \/ ReadFailed(c) \/ Stamp(c) \/ ExecFailed(c)
  BY <1>2, BeforeTheStatement
<1>3. CASE \E c \in Editor : Exec(c)
  BY <1>3, StatementTaken
<1>4. CASE \E m \in mutations : Apply(m)
  BY <1>4, MutationApplied
<1>5. ASSUME UNCHANGED <<rows, mutations, blocks, stage, asked, found, stamp, overtaken, requests>>,
             now' = now \/ now' = now + 1
      PROVE  RuleInv'
  <2>1. RuleTypeOK /\ Busy /\ RowsPast /\ MutationsSound
    BY DEF RuleInv
  <2>2. now \in Nat /\ now' \in Nat /\ now <= now'
    BY <1>5, <2>1 DEF RuleTypeOK
  <2>3. RuleTypeOK'
    BY <1>5, <2>1, <2>2 DEF RuleTypeOK
  <2>4. Busy' /\ MutationsSound'
    BY <1>5, <2>1 DEF Busy, MutationsSound
  <2>5. RowsPast'
    <3> SUFFICES ASSUME NEW r \in rows
                 PROVE  r.version <= now' /\ r.block <= blocks
      BY <1>5 DEF RowsPast
    <3>1. r.version \in Nat /\ r.version <= now /\ r.block <= blocks
      BY <2>1 DEF RuleTypeOK, RuleRow, RowsPast
    <3> QED BY <2>2, <3>1
  <2>6. ASSUME NEW d \in Editor
        PROVE  /\ stage'[d] \in {"stamp", "exec"} => HoldsRule(d)'
               /\ stage'[d] = "exec" /\ asked'[d].kind = "check" /\ asked'[d].op # "delete" => Newest(d)'
    BY <1>5, <2>2, OthersStay
  <2>7. RulesHeld' /\ StampsNewest'
    BY <2>6 DEF RulesHeld, StampsNewest
  <2> QED BY <2>3, <2>4, <2>5, <2>7 DEF RuleInv
<1>6. CASE TimePasses
  BY <1>5, <1>6 DEF TimePasses
<1>7. CASE UNCHANGED ruleVars
  BY <1>5, <1>7 DEF ruleVars
<1> QED
  BY <1>1, <1>2, <1>3, <1>4, <1>6, <1>7 DEF RuleNext

LEMMA InitRuleInv == RuleInit => RuleInv
<1> SUFFICES ASSUME RuleInit PROVE RuleInv
  OBVIOUS
<1>1. RuleTypeOK
  BY DEF RuleInit, RuleTypeOK
<1>2. Busy /\ RowsPast /\ RulesHeld /\ StampsNewest /\ MutationsSound
  BY DEF RuleInit, Busy, RowsPast, RulesHeld, StampsNewest, MutationsSound
<1> QED BY <1>1, <1>2 DEF RuleInv

\* THEOREM.  Whatever tenants requests see, what a handler read stays the rule everybody
\* reads until a statement overtakes it, and what it is about to insert is newer than
\* every row of its rule (RuleInv).
THEOREM RulesInvariant == RuleSpec => []RuleInv
<1>1. RuleInit => RuleInv
  BY InitRuleInv
<1>2. RuleInv /\ [RuleNext]_ruleVars => RuleInv'
  BY NextRuleInv
<1> QED BY <1>1, <1>2, PTL DEF RuleSpec

\* THEOREM.  An update of a check that nothing overtook does not bring it back
\* (ChecksReturnOnlyByRace).
THEOREM DeletedStaysDeleted == RuleSpec => ChecksReturnOnlyByRace
<1>1. RuleInv =>
        \A c \in Editor :
          Exec(c) /\ asked[c].kind = "check" /\ asked[c].op = "update" /\ ~overtaken[c] => Target(c) # {}
  BY DEF RuleInv, RulesHeld, HoldsRule, Exec
<1> QED
  BY <1>1, RulesInvariant, PTL DEF ChecksReturnOnlyByRace, RuleSpec

\* What happens to a tenant's rule in a step (TenantsApart).
LEMMA StepsApart ==
  ASSUME RuleInv, [RuleNext]_ruleVars, NEW t \in Tenant, NEW k \in Kind, NEW i \in Id
  PROVE  \/ RuleOf(k, t, i)' = RuleOf(k, t, i)
         \/ \E c \in Editor :
              Exec(c) /\ (asked[c].ctx.tenant = t \/ UpdatesWhatItSaw(c, k, t, i))
         \/ \E m \in mutations : Apply(m) /\ (m.op = "update" \/ m.by = t)
<1>1. ASSUME rows' = rows
      PROVE  RuleOf(k, t, i)' = RuleOf(k, t, i)
  BY <1>1, RuleKept
<1>2. ASSUME NEW c \in Editor, Exec(c), asked[c].ctx.tenant # t
      PROVE  \/ RuleOf(k, t, i)' = RuleOf(k, t, i)
             \/ UpdatesWhatItSaw(c, k, t, i)
  <2>1. stage[c] = "exec" /\ (IF IsMutation(asked[c]) THEN Mutate(c) ELSE InsertRow(c))
    BY <1>2 DEF Exec
  <2>2. CASE IsMutation(asked[c])
    BY <1>1, <2>1, <2>2 DEF Mutate
  <2>3. CASE ~IsMutation(asked[c])
    <3>1. NewRow(c).kind = asked[c].kind /\ NewRow(c).tenant = WriteTenant(c) /\ NewRow(c).id = asked[c].id
      BY <2>1, <2>3, NewRowIsRow
    <3>2. rows' = rows \cup {NewRow(c)}
      BY <2>1, <2>3 DEF InsertRow, NewRow
    <3>3. CASE asked[c].kind = k /\ WriteTenant(c) = t /\ asked[c].id = i
      <4>1. asked[c] \in Request /\ found[c] # None /\ asked[c].op # "create" /\ t \in asked[c].ctx.scope
        BY <1>2, <2>1, <3>3, AboutToWrite
      <4>2. asked[c].op = "update"
        BY <2>3, <4>1, RequestFields DEF IsMutation
      <4>3. ~overtaken[c] => found[c] \in RuleOf(k, t, i)
        BY <2>1, <3>3, <4>1 DEF RuleInv, RulesHeld, HoldsRule, Target
      <4> QED BY <4>1, <4>2, <4>3 DEF UpdatesWhatItSaw
    <3>4. CASE ~(asked[c].kind = k /\ WriteTenant(c) = t /\ asked[c].id = i)
      BY <3>1, <3>2, <3>4, RuleKept
    <3> QED BY <3>3, <3>4
  <2> QED BY <2>2, <2>3
<1>3. ASSUME NEW m \in mutations, Apply(m), m.op # "update", m.by # t
      PROVE  RuleOf(k, t, i)' = RuleOf(k, t, i)
  <2>1. m \in Mutation
    BY DEF RuleInv, RuleTypeOK
  <2>2. m.op = "delete"
    BY <1>3, <2>1 DEF Mutation
  <2>3. m.tenants = {m.by}
    BY <2>2 DEF RuleInv, MutationsSound
  <2>4. \A r : ~(r.kind = m.kind /\ r.id = m.id /\ r.tenant \in m.tenants) => (r \in rows <=> r \in rows')
    BY <1>3, ApplyChanges
  <2> QED BY <1>3, <2>3, <2>4, RuleKept
<1>4. CASE \E c \in Editor, q \in Request : Ask(c, q)
  BY <1>1, <1>4 DEF Ask
<1>5. CASE \E c \in Editor : Read(c) \/ ReadFailed(c) \/ Stamp(c) \/ ExecFailed(c)
  BY <1>1, <1>5 DEF Read, ReadFailed, Stamp, ExecFailed
<1>6. CASE TimePasses \/ UNCHANGED ruleVars
  BY <1>1, <1>6 DEF TimePasses, ruleVars
<1> QED
  BY <1>2, <1>3, <1>4, <1>5, <1>6 DEF RuleNext

\* THEOREM.  Whatever tenants requests see, the rules of a tenant change by requests of
\* that tenant or by updates of a rule found there, and are deleted by requests of
\* that tenant alone; updates of SLOs set apart (TenantsApart).
THEOREM RulesOfTenantsApart == RuleSpec => TenantsApart
<1>1. ASSUME RuleInv, [RuleNext]_ruleVars
      PROVE  \A t \in Tenant, k \in Kind, i \in Id :
               LET before == {r.def : r \in RuleOf(k, t, i)}
                   after  == {r.def : r \in RuleOf(k, t, i)'}
               IN before # after =>
                    \/ \E c \in Editor : Exec(c) /\ (asked[c].ctx.tenant = t \/ UpdatesWhatItSaw(c, k, t, i))
                    \/ \E m \in mutations : Apply(m) /\ (m.op = "update" \/ m.by = t)
  <2> SUFFICES ASSUME NEW t \in Tenant, NEW k \in Kind, NEW i \in Id,
                      {r.def : r \in RuleOf(k, t, i)} # {r.def : r \in RuleOf(k, t, i)'}
               PROVE  \/ \E c \in Editor : Exec(c) /\ (asked[c].ctx.tenant = t \/ UpdatesWhatItSaw(c, k, t, i))
                      \/ \E m \in mutations : Apply(m) /\ (m.op = "update" \/ m.by = t)
    OBVIOUS
  <2>1. RuleOf(k, t, i)' # RuleOf(k, t, i)
    OBVIOUS
  <2> QED BY <1>1, <2>1, StepsApart
<1> QED
  BY <1>1, RulesInvariant, PTL DEF TenantsApart, RuleSpec

\* A row inserted for an alert or a check that nothing overtook is all there is of its
\* rule: no row of it is of a later version, and those of the same one are of an
\* earlier block.
LEMMA NewRowShows ==
  ASSUME RuleInv, NEW c \in Editor, Exec(c), ~IsMutation(asked[c]), asked[c].kind # "slo", ~overtaken[c],
         NEW r
  PROVE  LET q == asked[c]
         IN r \in rows' /\ r.kind = q.kind /\ r.tenant = WriteTenant(c) /\ r.id = q.id /\
            (r.kind = "slo" \/ \A s \in rows' : ~Supersedes(s, r))
            <=> r = NewRow(c)
<1> DEFINE q == asked[c]
           n == NewRow(c)
           Of(s) == s.kind = q.kind /\ s.tenant = WriteTenant(c) /\ s.id = q.id
<1>1. stage[c] = "exec" /\ q \in Request /\ q.kind \in Kind
  <2>1. stage[c] = "exec"
    BY DEF Exec
  <2> QED BY <2>1, AboutToWrite, RequestFields
<1>2. rows' = rows \cup {n}
  BY DEF Exec, InsertRow, NewRow
<1>3. n \in RuleRow /\ Of(n) /\ n.block = blocks + 1
  BY <1>1, NewRowIsRow
<1>4. q.op # "delete"
  BY DEF IsMutation
<1>5. blocks \in Nat /\ now \in Nat /\ rows \subseteq RuleRow
  BY DEF RuleInv, RuleTypeOK
<1>6. ASSUME NEW s \in rows, Of(s)
      PROVE  s.version <= n.version /\ s.block < n.block
  <2>1. s.version <= now /\ s.block <= blocks /\ s.block \in Nat
    BY <1>5 DEF RuleInv, RowsPast, RuleRow
  <2>2. CASE q.kind = "check"
    <3>1. Newest(c)
      BY <1>1, <1>4, <2>2 DEF RuleInv, StampsNewest
    <3>2. s.version <= stamp[c]
      BY <1>6, <2>2, <3>1 DEF Newest
    <3> QED BY <1>3, <1>5, <2>1, <2>2, <3>2 DEF NewRow
  <2>3. CASE q.kind # "check"
    BY <1>3, <1>5, <2>1, <2>3 DEF NewRow
  <2> QED BY <2>2, <2>3
<1>7. n.version \in Nat /\ n.block \in Nat
  BY <1>3 DEF RuleRow
<1>8. ASSUME NEW s \in rows, Of(s)
      PROVE  Supersedes(n, s) /\ ~Supersedes(s, n)
  <2>1. s.version \in Nat /\ s.block \in Nat /\ s.version <= n.version /\ s.block < n.block
    BY <1>5, <1>6, <1>8 DEF RuleRow
  <2>2. SameRule(n, s) /\ SameRule(s, n)
    BY <1>3, <1>8 DEF SameRule
  <2> HIDE DEF n
  <2> QED BY <1>7, <2>1, <2>2 DEF Supersedes
<1>9. ~Supersedes(n, n)
  <2> HIDE DEF n
  <2> QED BY <1>7 DEF Supersedes
<1>10. ASSUME NEW s \in rows'
       PROVE  ~Supersedes(s, n)
  <2>1. CASE s = n
    BY <1>9, <2>1
  <2>2. CASE s \in rows /\ Of(s)
    BY <1>8, <2>2
  <2>3. CASE ~Of(s)
    BY <1>3, <2>3 DEF Supersedes, SameRule
  <2> QED BY <1>2, <2>1, <2>2, <2>3
<1> HIDE DEF n
<1>11. n \in rows' /\ Of(n)
  BY <1>2, <1>3
<1>12. ASSUME r \in rows', Of(r), r.kind = "slo" \/ \A s \in rows' : ~Supersedes(s, r)
       PROVE  r = n
  <2>1. r.kind # "slo"
    BY <1>12
  <2>2. ~Supersedes(n, r)
    BY <1>11, <1>12, <2>1
  <2> QED BY <1>2, <1>8, <1>12, <2>2
<1> QED BY <1>10, <1>11, <1>12 DEF n

\* THEOREM.  What a handler wrote and nothing overtook is the one row read from then
\* on, and an update of a check without a URL left the URL as it was
\* (UnovertakenWriteShows).
THEOREM WritesShow == RuleSpec => UnovertakenWriteShows
<1>1. ASSUME RuleInv, NEW c \in Editor, Exec(c), ~IsMutation(asked[c]), asked[c].kind # "slo", ~overtaken[c],
             NEW q \in {asked[c]}, NEW t \in {WriteTenant(c)}
      PROVE  /\ Cardinality(RuleOf(q.kind, t, q.id)') = 1
             /\ \A r \in RuleOf(q.kind, t, q.id)' :
                  r.def = q.def \/ (q.def = Blank /\ \E s \in RuleOf(q.kind, t, q.id) : r.def = s.def)
  <2>1. q = asked[c] /\ t = WriteTenant(c)
    OBVIOUS
  <2>2. ASSUME NEW r
        PROVE  r \in RuleOf(q.kind, t, q.id)' <=> r = NewRow(c)
    <3>1. r \in RuleOf(q.kind, t, q.id)' <=> r \in rows' /\ r.kind = q.kind /\ r.tenant = t /\ r.id = q.id /\
                           (r.kind = "slo" \/ \A s \in rows' : ~Supersedes(s, r))
      BY DEF RuleOf, Visible
    <3> QED BY <1>1, <2>1, <3>1, NewRowShows
  <2>3. RuleOf(q.kind, t, q.id)' = {NewRow(c)}
    BY <2>2
  <2>4. Cardinality(RuleOf(q.kind, t, q.id)') = 1
    BY <2>3, FS_Singleton
  <2>5. stage[c] = "exec" /\ q \in Request
    <3>1. stage[c] = "exec"
      BY <1>1 DEF Exec
    <3> QED BY <1>1, <2>1, <3>1, AboutToWrite
  <2>6. NewRow(c).def = Written(c)
    BY <1>1, <2>1, <2>5, NewRowIsRow
  <2>7. CASE q.def # Blank
    BY <2>1, <2>3, <2>4, <2>6, <2>7 DEF Written
  <2>8. CASE q.def = Blank
    <3>1. q.kind = "check" /\ q.op = "update"
      BY <1>1, <2>5, <2>8, RequestFields DEF IsMutation
    <3>2. found[c] \in RuleOf(q.kind, t, q.id)
      BY <1>1, <2>1, <2>5, <3>1 DEF RuleInv, RulesHeld, HoldsRule, Target
    <3>3. NewRow(c).def = found[c].def
      BY <2>1, <2>6, <2>8 DEF Written
    <3> QED BY <2>3, <2>4, <2>8, <3>2, <3>3
  <2> QED BY <2>4, <2>7, <2>8
<1>2. RuleInv =>
        \A c \in Editor :
          Exec(c) /\ ~IsMutation(asked[c]) /\ asked[c].kind # "slo" /\ ~overtaken[c] =>
          \A q \in {asked[c]}, t \in {WriteTenant(c)} :
            /\ Cardinality(RuleOf(q.kind, t, q.id)') = 1
            /\ \A r \in RuleOf(q.kind, t, q.id)' :
                 r.def = q.def \/ (q.def = Blank /\ \E s \in RuleOf(q.kind, t, q.id) : r.def = s.def)
  BY <1>1
<1> QED
  BY <1>2, RulesInvariant, PTL DEF UnovertakenWriteShows, RuleSpec
=============================================================================
