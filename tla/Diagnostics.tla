---------------------------- MODULE Diagnostics ----------------------------
(***************************************************************************)
(* The diagnostics page (internal/query/diagnostics.go).  Every request    *)
(* first makes sure, one at a time, that four tables exist; then it        *)
(* records a release, lists releases, samples or snapshots, or ranks       *)
(* releases by what happened to the error rate around their deployment,    *)
(* with two more queries for each.  Statements fail, with or without       *)
(* effect, spans arrive meanwhile, and the hub restarts.                   *)
(*                                                                         *)
(* There is one service.  The rows of heap_snapshots, thread_samples and   *)
(* lock_contention are written elsewhere and left out, and so is the       *)
(* lookup of a snapshot by its id.                                         *)
(***************************************************************************)
EXTENDS Integers, FiniteSets, FiniteSetsExt

CONSTANTS
  Client,
  Tenant,   \* organization and project
  Release,
  Text,     \* what a marker says of its release: a sha, an author, commits
  Commits,  \* the texts with commits
  Asks,     \* what clients ask
  Hour,     \* length of the windows around a deployment
  Window,   \* how far back suspects are looked for
  MaxTime,  \* bound on the clock
  MaxSpans  \* bound on the spans

Time == 0..MaxTime
Missing == -1
Op == {"post", "releases", "heap", "threads", "locks", "suspects"}
Ask == [op : Op, tenant : Tenant, release : Release, text : Text, deployed : Time \cup {Missing}]

ASSUME DiagnosticsAssumption ==
  /\ Commits \subseteq Text
  /\ Asks # {} /\ Asks \subseteq Ask
  /\ Hour \in Nat \ {0} /\ Window \in Nat /\ MaxTime \in Nat /\ MaxSpans \in Nat
  /\ "nobody" \notin Client

VARIABLES
  now,
  tables,  \* those that exist
  ready,   \* diagDDLReady
  holder,  \* who holds diagDDLMu
  pc,      \* each client's request
  ask,     \* what it asks for
  stamp,   \* the deployment time of a post
  todo,    \* the markers a ranking has still to look at
  cur,     \* the one it is at
  tally,   \* its share of errors after the deployment
  found,   \* the suspects
  markers, \* opa.release_markers FINAL
  spans,   \* opa.spans_min
  rival    \* history: another marker of the release got in the way of the post

vars == <<now, tables, ready, holder, pc, ask, stamp, todo, cur, tally, found, markers, spans, rival>>

-----------------------------------------------------------------------------
Nobody == "nobody"
Ddl == <<"release_markers", "heap_snapshots", "thread_samples", "lock_contention">>
Table == {Ddl[i] : i \in 1..4}
Marker == [tenant : Tenant, release : Release, deployed : Time, text : Text]
Unknown == [errors |-> 0, n |-> 0]
Phase == {"idle", "ensure", "serve", "insert", "write", "after", "before", "rank"} \cup Table

\* How the request comes to its table.
First(op) == IF op = "post" THEN "insert" ELSE "serve"

Shown(t, r) == {k \in markers : k.tenant = t /\ k.release = r}

\* ReplacingMergeTree by deployment time: of two with the same the later inserted.
Insert(k) ==
  IF \E o \in Shown(k.tenant, k.release) : o.deployed > k.deployed THEN markers
  ELSE (markers \ Shown(k.tenant, k.release)) \cup {k}

Share(S) == [errors |-> Cardinality({s \in S : s.error}), n |-> Cardinality(S)]

Following(t, d) == Share({s \in spans : s.tenant = t /\ s.created >= d /\ s.created < d + Hour})

\* Mutant: the share before is computed in whole numbers.
PrecedingWhole(t, d) ==
  LET s == Share({x \in spans : x.tenant = t /\ x.created < d /\ x.created >= d - Hour})
  IN  [s EXCEPT !.errors = 0]

Preceding(t, d) == Share({s \in spans : s.tenant = t /\ s.created < d /\ s.created >= d - Hour})

\* More than half as many errors again, and more than one in a hundred.
Worse(a, b) ==
  /\ a.errors * 100 > a.n
  /\ b.n = 0 \/ 2 * a.errors * b.n > 3 * b.errors * a.n

-----------------------------------------------------------------------------
Init ==
  /\ now = 0 /\ tables = {} /\ ready = FALSE /\ holder = Nobody
  /\ pc = [c \in Client |-> "idle"]
  /\ ask = [c \in Client |-> CHOOSE a \in Asks : TRUE]
  /\ stamp = [c \in Client |-> 0] /\ todo = [c \in Client |-> {}] /\ cur = [c \in Client |-> {}]
  /\ tally = [c \in Client |-> Unknown] /\ found = [c \in Client |-> {}] /\ markers = {} /\ spans = {}
  /\ rival = [c \in Client |-> FALSE]

Tick ==
  /\ now < MaxTime /\ now' = now + 1
  /\ UNCHANGED <<tables, ready, holder, pc, ask, stamp, todo, cur, tally, found, markers, spans, rival>>

\* A span is written; its creation time is the time it is.
Arrive(t, e) ==
  /\ Cardinality(spans) < MaxSpans
  /\ spans' = spans \cup {[id |-> Cardinality(spans), tenant |-> t, created |-> now, error |-> e]}
  /\ UNCHANGED <<now, tables, ready, holder, pc, ask, stamp, todo, cur, tally, found, markers, rival>>

\* The hub restarts: the flag and the requests are gone, the tables are not.
Restart ==
  /\ ready' = FALSE /\ holder' = Nobody
  /\ pc' = [c \in Client |-> "idle"]
  /\ stamp' = [c \in Client |-> 0] /\ todo' = [c \in Client |-> {}] /\ cur' = [c \in Client |-> {}]
  /\ tally' = [c \in Client |-> Unknown] /\ found' = [c \in Client |-> {}] /\ rival' = [c \in Client |-> FALSE]
  /\ UNCHANGED <<now, tables, ask, markers, spans>>

Request(c, a) ==
  /\ pc[c] = "idle"
  /\ pc' = [pc EXCEPT ![c] = "ensure"] /\ ask' = [ask EXCEPT ![c] = a]
  /\ UNCHANGED <<now, tables, ready, holder, stamp, todo, cur, tally, found, markers, spans, rival>>

-----------------------------------------------------------------------------
(* ensureDiagnosticsTables. *)

\* The mutex: nothing to do when the flag is up, else the statements begin.
Lock(c) ==
  /\ pc[c] = "ensure" /\ holder = Nobody
  /\ IF ready THEN pc' = [pc EXCEPT ![c] = First(ask[c].op)] /\ UNCHANGED holder
              ELSE pc' = [pc EXCEPT ![c] = Ddl[1]] /\ holder' = c
  /\ UNCHANGED <<now, tables, ready, ask, stamp, todo, cur, tally, found, markers, spans, rival>>

\* Mutant: an earlier success is enough.
CreateReadyEarly(c) ==
  \E i \in 1..4 :
    /\ pc[c] = Ddl[i]
    /\ tables' = tables \cup {Ddl[i]} /\ ready' = TRUE
    /\ IF i < 4 THEN pc' = [pc EXCEPT ![c] = Ddl[i + 1]] /\ UNCHANGED holder
                ELSE pc' = [pc EXCEPT ![c] = First(ask[c].op)] /\ holder' = Nobody
    /\ UNCHANGED <<now, ask, stamp, todo, cur, tally, found, markers, spans, rival>>

\* CREATE TABLE IF NOT EXISTS: the flag goes up after the last.
Create(c) ==
  \E i \in 1..4 :
    /\ pc[c] = Ddl[i]
    /\ tables' = tables \cup {Ddl[i]}
    /\ IF i < 4 THEN pc' = [pc EXCEPT ![c] = Ddl[i + 1]] /\ UNCHANGED <<holder, ready>>
                ELSE pc' = [pc EXCEPT ![c] = First(ask[c].op)] /\ holder' = Nobody /\ ready' = TRUE
    /\ UNCHANGED <<now, ask, stamp, todo, cur, tally, found, markers, spans, rival>>

\* Mutant: the mutex is kept when a statement fails.
CreateFailedLocked(c) ==
  /\ pc[c] \in Table
  /\ pc' = [pc EXCEPT ![c] = "idle"]
  /\ UNCHANGED <<now, tables, ready, holder, ask, stamp, todo, cur, tally, found, markers, spans, rival>>

\* A statement fails, having created its table or not: the request ends there, and the
\* next one begins with the first statement again.
CreateFailed(c) ==
  /\ pc[c] \in Table
  /\ tables' \in {tables, tables \cup {pc[c]}}
  /\ pc' = [pc EXCEPT ![c] = "idle"] /\ holder' = Nobody
  /\ UNCHANGED <<now, ready, ask, stamp, todo, cur, tally, found, markers, spans, rival>>

-----------------------------------------------------------------------------
(* The requests. *)

\* Mutant: a deployment without a time is as old as can be.
StampZero(a) == IF a.deployed = Missing THEN 0 ELSE a.deployed

Stamp(a) == IF a.deployed = Missing THEN now ELSE a.deployed

\* A post takes its time, then writes.
TakeTime(c) ==
  /\ pc[c] = "insert"
  /\ pc' = [pc EXCEPT ![c] = "write"]
  /\ stamp' = [stamp EXCEPT ![c] = Stamp(ask[c])]
  /\ rival' = [rival EXCEPT ![c] =
       ask[c].deployed # Missing \/ \E o \in Shown(ask[c].tenant, ask[c].release) : o.deployed > now]
  /\ UNCHANGED <<now, tables, ready, holder, ask, todo, cur, tally, found, markers, spans>>

Posted(c) == [tenant |-> ask[c].tenant, release |-> ask[c].release, deployed |-> stamp[c], text |-> ask[c].text]

SameRelease(c, d) == ask[c].tenant = ask[d].tenant /\ ask[c].release = ask[d].release

\* The end of a post; the markers are set by the two actions below.
EndPost(c) ==
  /\ pc[c] = "write"
  /\ pc' = [pc EXCEPT ![c] = "idle"] /\ stamp' = [stamp EXCEPT ![c] = 0]
  /\ rival' = [d \in Client |-> IF d = c THEN FALSE ELSE rival[d] \/ (pc[d] = "write" /\ SameRelease(c, d))]
  /\ UNCHANGED <<now, tables, ready, holder, ask, todo, cur, tally, found, spans>>

PostDone(c) == EndPost(c) /\ markers' = Insert(Posted(c))

\* An insert that fails may have had its effect.
PostFailed(c) == EndPost(c) /\ markers' \in {markers, Insert(Posted(c))}

\* One query and the answer; on failure an empty list with the error in it.
ReadTable(c) ==
  /\ pc[c] = "serve" /\ ask[c].op # "suspects"
  /\ pc' = [pc EXCEPT ![c] = "idle"]
  /\ UNCHANGED <<now, tables, ready, holder, ask, stamp, todo, cur, tally, found, markers, spans, rival>>

\* The markers of the last hours, also such as are yet to be deployed; none if the
\* query fails.
ReadMarkers(c) ==
  /\ pc[c] = "serve" /\ ask[c].op = "suspects"
  /\ todo' \in {[todo EXCEPT ![c] = {k \in markers : k.tenant = ask[c].tenant /\ k.deployed >= now - Window}], todo}
  /\ pc' = [pc EXCEPT ![c] = IF todo'[c] = {} THEN "idle" ELSE "after"]
  /\ UNCHANGED <<now, tables, ready, holder, ask, stamp, cur, tally, found, markers, spans, rival>>

\* The share of errors after the deployment of the next marker, latest first; none if
\* the query fails.
ReadAfter(c, k) ==
  /\ pc[c] = "after"
  /\ k \in todo[c] /\ \A o \in todo[c] : o.deployed <= k.deployed
  /\ pc' = [pc EXCEPT ![c] = "before"]
  /\ cur' = [cur EXCEPT ![c] = {k}] /\ todo' = [todo EXCEPT ![c] = @ \ {k}]
  /\ tally' \in {[tally EXCEPT ![c] = s] : s \in {Following(k.tenant, k.deployed), Unknown}}
  /\ UNCHANGED <<now, tables, ready, holder, ask, stamp, found, markers, spans, rival>>

Raised(a, b) == a.n > 0 /\ Worse(a, b)

Suspect(k, a, b, sure) ==
  [marker |-> k, after |-> a, sure |-> sure,
   score |-> 40 + (IF Raised(a, b) THEN 40 ELSE 0) + (IF k.text \in Commits THEN 5 ELSE 0)]

\* The share before it, none if the query fails, and the score.
ReadBefore(c, k) ==
  /\ pc[c] = "before" /\ cur[c] = {k}
  /\ found' \in {[found EXCEPT ![c] = @ \cup {s}] :
                    s \in {Suspect(k, tally[c], Preceding(k.tenant, k.deployed), TRUE), Suspect(k, tally[c], Unknown, FALSE)}}
  /\ cur' = [cur EXCEPT ![c] = {}] /\ tally' = [tally EXCEPT ![c] = Unknown]
  /\ pc' = [pc EXCEPT ![c] = IF todo[c] = {} THEN "rank" ELSE "after"]
  /\ UNCHANGED <<now, tables, ready, holder, ask, stamp, todo, markers, spans, rival>>

\* The suspects are sorted by their scores and sent.
Rank(c) ==
  /\ pc[c] = "rank"
  /\ pc' = [pc EXCEPT ![c] = "idle"] /\ found' = [found EXCEPT ![c] = {}]
  /\ UNCHANGED <<now, tables, ready, holder, ask, stamp, todo, cur, tally, markers, spans, rival>>

-----------------------------------------------------------------------------
Work(c) ==
  \/ Create(c) \/ CreateFailed(c)
  \/ TakeTime(c) \/ PostDone(c) \/ PostFailed(c)
  \/ ReadTable(c) \/ ReadMarkers(c)
  \/ \E k \in markers \cup todo[c] : ReadAfter(c, k)
  \/ \E k \in cur[c] : ReadBefore(c, k)
  \/ Rank(c)

Next ==
  \/ Tick
  \/ \E t \in Tenant, e \in BOOLEAN : Arrive(t, e)
  \/ Restart
  \/ \E c \in Client, a \in Asks : Request(c, a)
  \/ \E c \in Client : Lock(c) \/ Work(c)

Spec == Init /\ [][Next]_vars

\* Handlers run, statements end, and the mutex is not kept from a waiting request for
\* ever (sync.Mutex hands it over after a millisecond).
FairSpec == Spec /\ \A c \in Client : WF_vars(Work(c)) /\ SF_vars(Lock(c))

-----------------------------------------------------------------------------
(* Properties. *)

TypeOK ==
  /\ now \in Time
  /\ tables \subseteq Table /\ ready \in BOOLEAN /\ holder \in Client \cup {Nobody}
  /\ pc \in [Client -> Phase] /\ ask \in [Client -> Ask]
  /\ stamp \in [Client -> Time]
  /\ todo \in [Client -> SUBSET Marker] /\ cur \in [Client -> SUBSET Marker]
  /\ markers \subseteq Marker
  /\ \A k, o \in markers : k.tenant = o.tenant /\ k.release = o.release => k = o
  /\ \A s \in spans : s.tenant \in Tenant /\ s.created \in Time /\ s.created <= now
  /\ rival \in [Client -> BOOLEAN]

\* SAFETY.  No request gets to its query before the four tables are there, although
\* the statements fail one by one, in any order of requests and across restarts.
TablesBeforeQueries ==
  /\ ready => tables = Table
  /\ \A c \in Client : pc[c] \in {"serve", "insert", "write", "after", "before", "rank"} => tables = Table

\* SAFETY.  Only one request is among the statements, and it is the one that holds the
\* mutex: no failure leaves the mutex behind.
OneAtATheStatements ==
  /\ \A c \in Client : pc[c] \in Table => holder = c
  /\ holder # Nobody => pc[holder] \in Table

\* ACTION PROPERTY.  The deployment time shown for a release never moves back,
\* whatever times clients send and in whatever order their inserts land.
DeploymentNeverMovesBack ==
  [][\A k \in markers : \E o \in markers' :
       o.tenant = k.tenant /\ o.release = k.release /\ o.deployed >= k.deployed]_vars

\* ACTION PROPERTY.  A post that left the time to the hub and was answered is what the
\* list shows, unless another post of the release overlapped it or had claimed a later
\* deployment.
UnrivalledPostShows ==
  [][\A c \in Client : pc[c] = "write" /\ PostDone(c) /\ ~ rival[c] => Posted(c) \in markers']_vars

\* SAFETY.  A release is blamed for errors only if the share of errors of its tenant was
\* worse after the deployment than in the hour before, unless the query for the hour
\* before failed (which counts as no errors): the hour before is over once there is
\* anything after.
BlameIsFounded ==
  \A c \in Client : \A s \in found[c] : s.score >= 80 /\ s.sure =>
    Worse(s.after, Share({x \in spans : /\ x.tenant = s.marker.tenant /\ x.created < s.marker.deployed
                                         /\ x.created >= s.marker.deployed - Hour}))

\* LIVENESS.  Every request is answered, although others hold the mutex through
\* statements that fail.
EveryRequestAnswered == \A c \in Client : pc[c] # "idle" ~> pc[c] = "idle"
=============================================================================
