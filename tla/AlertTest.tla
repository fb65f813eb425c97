------------------------------ MODULE AlertTest -----------------------------
(***************************************************************************)
(* internal/query/alerts.go: POST /api/alerts/{id}, the dashboard's Test   *)
(* button.  The handler reads the rule, creates the request table if need  *)
(* be, inserts a pending request and polls opa.alert_history until a row   *)
(* names the request or a deadline passes.  The edge leader, outside the   *)
(* repository, delivers pending requests and also fires rules by itself;   *)
(* both add to the history.                                                *)
(*                                                                         *)
(* Time is what is left of each goroutine's deadline and current wait, so  *)
(* that no clock has to be bounded.  A goroutine runs as soon as it can:   *)
(* scheduling delays count as none.  Request ids are the clock in ns       *)
(* (queueAlertTest); two requests are taken never to draw the same one.    *)
(***************************************************************************)
EXTENDS Integers

CONSTANTS
  Caller,     \* request goroutines
  Alert,      \* alert rules
  Timeout,    \* how long to wait for the delivery: 12 s
  Pause,      \* between two polls: 400 ms
  QueryTime,  \* the longest a query takes
  MaxRequests \* bound on the requests made

ASSUME TestAssumption ==
  /\ Timeout \in Nat \ {0} /\ Pause \in Nat \ {0} /\ QueryTime \in Nat
  /\ MaxRequests \in Nat

VARIABLES
  pending,  \* opa.alert_test_requests: requests, as [id, alert]
  history,  \* opa.alert_history: per row the request it names, or 0, and the rule
  pc,       \* per goroutine: "idle", "get", "ddl", "queue", or where in the loop
  req,      \* per goroutine: its request
  left,     \* per goroutine: time until its deadline
  timer,    \* per goroutine: what is left of its query, at most, or of its pause
  reply,    \* per goroutine: the last answer
  issued,   \* number of requests made, also the last id
  shownAt,  \* history: what was left when the request's row appeared
  missed    \* history: a poll failed after the row had appeared

tables == <<pending, history>>
waiting == <<left, timer, shownAt, missed>>
vars == <<tables, pc, req, waiting, reply, issued>>

-----------------------------------------------------------------------------
Row(i, a) == [id |-> i, alert |-> a]
Unprompted == 0  \* the request id of a row the leader writes without being asked

\* A query is under way: yet to look at the table, or on its way back with what it saw.
Querying == {"query", "found", "empty"}
Polling == Querying \cup {"poll", "sleep"}

\* The loop's condition was last true with one unit left at least, and is tested
\* again a query and a pause later.
Overrun == QueryTime + Pause - 1
NotShown == -Overrun - 1

TypeOK ==
  /\ pending \subseteq [id : 1..MaxRequests, alert : Alert]
  /\ history \subseteq [id : 0..MaxRequests, alert : Alert]
  /\ pc \in [Caller -> {"idle", "get", "ddl", "queue"} \cup Polling]
  /\ req \in [Caller -> [id : 0..MaxRequests, alert : Alert]]
  /\ left \in [Caller -> -Overrun..Timeout]
  /\ timer \in [Caller -> 0..QueryTime + Pause]
  /\ reply \in [Caller -> {"none", "not_found", "query_error", "delivered", "queued"}]
  /\ issued \in 0..MaxRequests
  /\ shownAt \in [Caller -> NotShown..Timeout]
  /\ missed \in [Caller -> BOOLEAN]

Init ==
  /\ pending = {} /\ history = {}
  /\ pc = [c \in Caller |-> "idle"]
  /\ req \in [Caller -> {Row(0, a) : a \in Alert}]
  /\ left = [c \in Caller |-> 0]
  /\ timer = [c \in Caller |-> 0]
  /\ reply = [c \in Caller |-> "none"]
  /\ issued = 0
  /\ shownAt = [c \in Caller |-> NotShown]
  /\ missed = [c \in Caller |-> FALSE]

-----------------------------------------------------------------------------
Answer(c, r) ==
  /\ pc' = [pc EXCEPT ![c] = "idle"]
  /\ reply' = [reply EXCEPT ![c] = r]

\* A request for rule a arrives.  Its id is drawn here and used from Queue on.
Test(c, a) ==
  /\ pc[c] = "idle" /\ issued < MaxRequests
  /\ pc' = [pc EXCEPT ![c] = "get"]
  /\ req' = [req EXCEPT ![c] = Row(issued + 1, a)]
  /\ reply' = [reply EXCEPT ![c] = "none"]
  /\ issued' = issued + 1
  /\ UNCHANGED <<tables, waiting>>

\* getAlert finds the rule, or there is none, or its query fails.
GetAlert(c) ==
  /\ pc[c] = "get"
  /\ \/ pc' = [pc EXCEPT ![c] = "ddl"] /\ UNCHANGED reply
     \/ Answer(c, "not_found")
  /\ UNCHANGED <<tables, req, waiting, issued>>

EnsureTable(c) ==
  /\ pc[c] = "ddl"
  /\ \/ pc' = [pc EXCEPT ![c] = "queue"] /\ UNCHANGED reply
     \/ Answer(c, "query_error")
  /\ UNCHANGED <<tables, req, waiting, issued>>

\* The pending row is in, and the wait begins.
Queue(c) ==
  /\ pc[c] = "queue"
  /\ pending' = pending \cup {req[c]}
  /\ pc' = [pc EXCEPT ![c] = "poll"]
  /\ left' = [left EXCEPT ![c] = Timeout]
  /\ shownAt' = [shownAt EXCEPT ![c] = NotShown]
  /\ missed' = [missed EXCEPT ![c] = FALSE]
  /\ UNCHANGED <<history, req, timer, reply, issued>>

\* The insert is refused, or its answer lost after the row went in.
QueueFailed(c) ==
  /\ pc[c] = "queue"
  /\ pending' \in {pending, pending \cup {req[c]}}
  /\ Answer(c, "query_error")
  /\ UNCHANGED <<history, req, waiting, issued>>

-----------------------------------------------------------------------------
\* The head of the loop: a query while the deadline has not passed.
Poll(c) ==
  /\ pc[c] = "poll" /\ left[c] > 0
  /\ pc' = [pc EXCEPT ![c] = "query"]
  /\ timer' = [timer EXCEPT ![c] = QueryTime]
  /\ UNCHANGED <<tables, req, left, reply, issued, shownAt, missed>>

\* Mutant: the handler gives up a pause before the deadline.
GiveUpEarly(c) ==
  /\ pc[c] = "poll" /\ left[c] <= Pause
  /\ Answer(c, "queued")
  /\ UNCHANGED <<tables, req, waiting, issued>>

GiveUp(c) ==
  /\ pc[c] = "poll" /\ left[c] <= 0
  /\ Answer(c, "queued")
  /\ UNCHANGED <<tables, req, waiting, issued>>

\* Mutant: any row of the rule will do, whichever request it names.
NamesAny(row, r) == row.alert = r.alert

\* The query's condition: the rule's own row, with the request id in its message.
Names(row, r) == row = r

Rest(c) ==
  /\ pc' = [pc EXCEPT ![c] = "sleep"]
  /\ timer' = [timer EXCEPT ![c] = Pause]
  /\ UNCHANGED reply

\* The query looks at the table, at any moment of its time...
Look(c) ==
  /\ pc[c] = "query"
  /\ pc' = [pc EXCEPT ![c] = IF \E row \in history : Names(row, req[c]) THEN "found" ELSE "empty"]
  /\ UNCHANGED <<tables, req, waiting, reply, issued>>

\* ... and answers later.
QueryAnswered(c) ==
  /\ \/ pc[c] = "found" /\ Answer(c, "delivered") /\ UNCHANGED timer
     \/ pc[c] = "empty" /\ Rest(c)
  /\ UNCHANGED <<tables, req, left, issued, shownAt, missed>>

\* Mutant: a failed poll starts the wait over.
QueryFailedRestart(c) ==
  /\ pc[c] \in Querying
  /\ Rest(c)
  /\ left' = [left EXCEPT ![c] = Timeout]
  /\ missed' = [missed EXCEPT ![c] = @ \/ req[c] \in history]
  /\ UNCHANGED <<tables, req, issued, shownAt>>

\* A failed poll counts as one that found nothing.
QueryFailed(c) ==
  /\ pc[c] \in Querying
  /\ Rest(c)
  /\ missed' = [missed EXCEPT ![c] = @ \/ req[c] \in history]
  /\ UNCHANGED <<tables, req, left, issued, shownAt>>

Wake(c) ==
  /\ pc[c] = "sleep" /\ timer[c] = 0
  /\ pc' = [pc EXCEPT ![c] = "poll"]
  /\ UNCHANGED <<tables, req, waiting, reply, issued>>

-----------------------------------------------------------------------------
\* The edge leader delivers a pending request.
Deliver(r) ==
  /\ r \in pending \ history
  /\ history' = history \cup {r}
  /\ shownAt' = [c \in Caller |-> IF req[c] = r THEN left[c] ELSE shownAt[c]]
  /\ UNCHANGED <<pending, pc, req, left, timer, missed, reply, issued>>

\* The edge leader fires rule a because its condition holds.
Fire(a) ==
  /\ history' = history \cup {Row(Unprompted, a)}
  /\ history' # history
  /\ UNCHANGED <<pending, pc, req, waiting, reply, issued>>

\* Only queries and pauses take time.
Tick ==
  /\ \E c \in Caller : pc[c] \in Polling
  /\ \A c \in Caller : pc[c] # "poll" /\ (pc[c] \in Polling => timer[c] > 0)
  /\ left' = [c \in Caller |-> IF pc[c] \in Polling THEN left[c] - 1 ELSE left[c]]
  /\ timer' = [c \in Caller |-> IF pc[c] \in Polling THEN timer[c] - 1 ELSE timer[c]]
  /\ UNCHANGED <<tables, pc, req, reply, issued, shownAt, missed>>

Handler(c) ==
  \/ GetAlert(c) \/ EnsureTable(c) \/ Queue(c) \/ QueueFailed(c)
  \/ Poll(c) \/ GiveUp(c) \/ Look(c) \/ QueryAnswered(c) \/ QueryFailed(c) \/ Wake(c)

Next ==
  \/ \E c \in Caller : Handler(c) \/ \E a \in Alert : Test(c, a)
  \/ \E r \in pending : Deliver(r)
  \/ \E a \in Alert : Fire(a)
  \/ Tick

Spec == Init /\ [][Next]_vars

\* A goroutine that can run does, and time passes.  Nothing is asked of the leader.
FairSpec == Spec /\ WF_vars(Tick) /\ \A c \in Caller : WF_vars(Handler(c))

-----------------------------------------------------------------------------
(* Properties. *)

\* SAFETY.  A wait ends at most Overrun after its deadline, and no query or pause
\* begins once it has passed (waitAlertTestDelivery; the deadline is tested only at
\* the head of the loop).
WaitBounded ==
  \A c \in Caller : pc[c] \in Polling => left[c] >= timer[c] - Overrun

\* SAFETY.  "So the dashboard Test button is synchronous when an edge leader is
\* healthy": the answer is not "queued" if the delivery was in the history a query
\* and a pause before the deadline and no poll failed since; a query that looked just
\* before the delivery still has to answer, and the pause after it to end.
SynchronousWhenHealthy ==
  \A c \in Caller :
    reply[c] = "queued" => shownAt[c] <= QueryTime + Pause \/ missed[c]

\* SAFETY.  An answer other than an error stands for a request the leader can find,
\* and "delivered" for the delivery of that very request: rows of other requests
\* on the rule, or of its own firing, do not count.
AnswerIsTrue ==
  \A c \in Caller :
    /\ reply[c] \in {"delivered", "queued"} => req[c] \in pending
    /\ reply[c] = "delivered" => req[c] \in history

\* LIVENESS.  Every request is answered, even if the leader never delivers.
EveryTestAnswered == \A c \in Caller : (pc[c] # "idle") ~> (pc[c] = "idle")
=============================================================================
