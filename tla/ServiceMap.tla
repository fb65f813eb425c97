----------------------------- MODULE ServiceMap -----------------------------
(***************************************************************************)
(* The service map (internal/query/service_map.go and                      *)
(* service_map_external.go): one request puts its answer together from     *)
(* eight queries over tables that grow in between, over a window that may  *)
(* slide with the clock, and answers although most of them failed.  The    *)
(* thresholds that tell a healthy service from a degraded one are set by   *)
(* other requests.                                                         *)
(*                                                                         *)
(* A span's identity stands for its trace and span id; several rows may    *)
(* have it, written again or by another tenant.  Several places of a       *)
(* dependency (host and port, or URL) may have one name on the map.        *)
(* Names the code takes for missing ("", "unknown", "null"...) are NoName. *)
(* Thresholds are whole percents and milliseconds.                         *)
(***************************************************************************)
EXTENDS Integers, FiniteSets, FiniteSetsExt

CONSTANTS
  Service, NoName,
  Id,       \* spans
  NoSpan,   \* the parent of a root
  Untraced, \* spans with an empty trace id
  Tenant,
  Default,  \* the tenant of a request that names none; its scope is everything
  Place,    \* what spans record of a dependency
  TargetOf, \* the name of a place on the map
  KindOf,   \* the type of dependency
  Spans,    \* the spans that may arrive
  Items,    \* the dependency calls that may arrive in them
  Bodies,   \* the threshold settings clients send: any of the four fields
  MaxRows,  \* bound on the rows in the tables
  MaxTime   \* bound on the times

Field == {"degradedError", "downError", "degradedLatency", "downLatency"}
Kind == {"database", "http", "curl", "redis", "cache"}
Seconds == 0..MaxTime

Span == [id : Id, copy : Nat, parent : Id \cup {NoSpan}, service : Service \cup {NoName},
         error : BOOLEAN, time : Nat, at : Seconds, owner : Tenant]
Item == [id : Id, place : Place, service : Service \cup {NoName},
         error : BOOLEAN, time : Nat, at : Seconds, owner : Tenant]

ASSUME MapAssumption ==
  /\ NoName \notin Service /\ NoSpan \notin Id
  /\ Default \in Tenant
  /\ KindOf \in [Place -> Kind]
  /\ Spans \subseteq Span /\ Items \subseteq Item
  /\ Untraced \subseteq Id
  /\ \A x \in Spans : x.parent # NoSpan => (x.parent \in Untraced <=> x.id \in Untraced)
  /\ \A b \in Bodies : DOMAIN b \subseteq Field /\ \A f \in DOMAIN b : b[f] \in Nat
  /\ MaxRows \in Nat /\ MaxTime \in Nat

VARIABLES
  spans,   \* opa.spans_min
  items,   \* the calls in the sql, http, redis and cache columns of opa.spans_full
  stored,  \* opa.service_map_thresholds, the row of each tenant
  pc,      \* "idle", or the query that is next
  req,     \* tenant of the request, and whether its window slides
  from,    \* lower end of the window
  levels,  \* the thresholds the request judges by
  edges,   \* edges between services
  merge,   \* edges to dependencies
  names,   \* services
  stats,   \* totals of each service
  answer,  \* the last answer: nodes and edges
  failed,  \* history: which of the two queries for services failed
  known    \* history: services with spans in the window when the request began

store == <<spans, items, stored>>
local == <<levels, edges, merge, names, stats>>
vars == <<store, pc, req, from, local, answer, failed, known>>

-----------------------------------------------------------------------------
Defaults == [degradedError |-> 10, downError |-> 50, degradedLatency |-> 1000, downLatency |-> 5000]
NoLevels == [f \in {} |-> 0]
NoAnswer == [nodes |-> {}, edges |-> {}]
Totals == [calls : Nat, errors : Nat, time : Nat]
None == [calls |-> 0, errors |-> 0, time |-> 0]
Edge == [from : Service, to : UNION {Service, {TargetOf[p] : p \in Place}}, type : Kind \cup {"service"}, totals : Totals]
Queries == {"thresholds", "edges", "database", "http", "redis", "cache", "services", "stats"}

TotalsOf(S) ==
  [calls |-> Cardinality(S), errors |-> Cardinality({x \in S : x.error}),
   time |-> MapThenSumSet(LAMBDA x : x.time, S)]

\* The same of calls, which are pairs of rows.
TotalsOfCalls(P) ==
  [calls |-> Cardinality(P), errors |-> Cardinality({x \in P : x[1].error}),
   time |-> MapThenSumSet(LAMBDA x : x[1].time, P)]

Sum(E) ==
  [calls |-> MapThenSumSet(LAMBDA e : e.totals.calls, E),
   errors |-> MapThenSumSet(LAMBDA e : e.totals.errors, E),
   time |-> MapThenSumSet(LAMBDA e : e.totals.time, E)]

\* calcHealth: an error rate in percent and an average against the thresholds.
Exceeds(t, error, latency) ==
  LET n == IF t.calls = 0 THEN 1 ELSE t.calls
  IN  t.errors * 100 >= error * n \/ t.time >= latency * n

Health(l, t) ==
  IF Exceeds(t, l.downError, l.downLatency) THEN "down"
  ELSE IF Exceeds(t, l.degradedError, l.degradedLatency) THEN "degraded"
  ELSE "healthy"

\* Rows the request sees.
In(x) == (req.tenant = Default \/ x.owner = req.tenant)

\* Mutant: only the parent of a call must be the tenant's.
CallsParentOnly(a, b) ==
  {x \in spans \X spans : /\ x[1].parent = x[2].id /\ x[1].service = b /\ x[2].service = a
                          /\ In(x[2]) /\ x[1].at >= from}

\* The calls of service a to service b: the rows of a join, each a child and a parent
\* span.  The window is about the child.
Calls(a, b) ==
  {x \in spans \X spans : /\ x[1].parent = x[2].id /\ x[1].service = b /\ x[2].service = a
                          /\ In(x[1]) /\ In(x[2]) /\ x[1].at >= from}

ServiceEdges ==
  {[from |-> x[1], to |-> x[2], type |-> "service", totals |-> TotalsOfCalls(Calls(x[1], x[2]))] :
     x \in {y \in Service \X Service : y[1] # y[2] /\ Calls(y[1], y[2]) # {}}}

\* The kinds one query reads.
KindsRead(q) == IF q = "http" THEN {"http", "curl"} ELSE {q}

\* The calls of s to the dependency t: a URL that names the service itself is not one.
External(s, t, k) ==
  {i \in items : /\ In(i) /\ i.service = s /\ i.at >= from
                 /\ KindOf[i.place] = k /\ TargetOf[i.place] = t
                 /\ t # NoName /\ (k \in {"http", "curl"} => t # s)}

\* Places with the same name are merged.
Dependencies(q) ==
  {[from |-> x[1], to |-> x[2], type |-> x[3], totals |-> TotalsOf(External(x[1], x[2], x[3]))] :
     x \in {y \in Service \X {TargetOf[p] : p \in Place} \X KindsRead(q) : External(y[1], y[2], y[3]) # {}}}

InWindow(s) == {x \in spans : In(x) /\ x.service = s /\ x.at >= from}
Active == {s \in Service : InWindow(s) # {}}

-----------------------------------------------------------------------------
Init ==
  /\ spans = {} /\ items = {} /\ stored = [t \in Tenant |-> NoLevels]
  /\ pc = "idle" /\ req = [tenant |-> Default, slides |-> FALSE] /\ from = 0
  /\ levels = Defaults /\ edges = {} /\ merge = {} /\ names = {} /\ stats = [s \in {} |-> None]
  /\ answer = NoAnswer /\ failed = {} /\ known = {}

ArriveSpan(x) ==
  /\ Cardinality(spans) + Cardinality(items) < MaxRows
  /\ x \notin spans
  /\ spans' = spans \cup {x}
  /\ UNCHANGED <<items, stored, pc, req, from, local, answer, failed, known>>

ArriveItem(x) ==
  /\ Cardinality(spans) + Cardinality(items) < MaxRows
  /\ x \notin items
  /\ items' = items \cup {x}
  /\ UNCHANGED <<spans, stored, pc, req, from, local, answer, failed, known>>

\* POST or PUT .../thresholds: the whole row is written, fields left out get their
\* default.  The insert may fail after the row went in, so a write without an answer
\* is the same step; one that did not happen is none.
SetThresholds(t, b) ==
  /\ stored' = [stored EXCEPT ![t] = [f \in Field |-> IF f \in DOMAIN b THEN b[f] ELSE Defaults[f]]]
  /\ stored' # stored
  /\ UNCHANGED <<spans, items, pc, req, from, local, answer, failed, known>>

Ask(t, slides) ==
  /\ pc = "idle"
  /\ pc' = "thresholds" /\ req' = [tenant |-> t, slides |-> slides] /\ from' = 0
  /\ levels' = Defaults /\ edges' = {} /\ merge' = {} /\ names' = {} /\ stats' = [s \in {} |-> None]
  /\ answer' = NoAnswer /\ failed' = {}
  /\ known' = {x.service : x \in {y \in spans : (t = Default \/ y.owner = t) /\ y.service # NoName}}
  /\ UNCHANGED store

\* A window that ends now() leaves rows behind between two queries.
Slide ==
  /\ pc # "idle" /\ req.slides /\ from < MaxTime
  /\ from' = from + 1
  /\ UNCHANGED <<store, pc, req, local, answer, failed, known>>

-----------------------------------------------------------------------------
(* The queries of the handler, in their order. *)

Fails == failed' = failed \cup ({pc} \cap {"services", "stats"})

\* Mutant: a stored zero is a threshold.
EffectiveStored(row) == [f \in Field |-> IF f \in DOMAIN row THEN row[f] ELSE Defaults[f]]

\* A stored zero leaves the default in place.
Effective(row) == [f \in Field |-> IF f \in DOMAIN row /\ row[f] > 0 THEN row[f] ELSE Defaults[f]]

LoadMapThresholds ==
  /\ pc = "thresholds" /\ pc' = "edges"
  /\ \/ levels' = Effective(stored[req.tenant]) /\ UNCHANGED failed
     \/ Fails /\ UNCHANGED levels
  /\ UNCHANGED <<store, req, from, edges, merge, names, stats, answer, known>>

\* Without its first edges there is no map.
ReadEdges ==
  /\ pc = "edges"
  /\ \/ pc' = "database" /\ edges' = ServiceEdges /\ UNCHANGED failed
     \/ pc' = "idle" /\ Fails /\ UNCHANGED edges
  /\ names' = names \cup {e.from : e \in edges'} \cup {e.to : e \in edges'}
  /\ UNCHANGED <<store, req, from, levels, merge, stats, answer, known>>

After(q) ==
  CASE q = "database" -> "http" [] q = "http" -> "redis" [] q = "redis" -> "cache" [] q = "cache" -> "services"

ReadDependencies ==
  /\ pc \in {"database", "http", "redis", "cache"} /\ pc' = After(pc)
  /\ \/ merge' = merge \cup Dependencies(pc) /\ UNCHANGED failed
     \/ Fails /\ UNCHANGED merge
  /\ UNCHANGED <<store, req, from, levels, edges, names, stats, answer, known>>

ReadServices ==
  /\ pc = "services" /\ pc' = "stats"
  /\ \/ names' = names \cup Active /\ UNCHANGED failed
     \/ Fails /\ UNCHANGED names
  /\ UNCHANGED <<store, req, from, levels, edges, merge, stats, answer, known>>

ReadStats ==
  /\ pc = "stats" /\ pc' = "answer"
  /\ \/ stats' = [s \in Active |-> TotalsOf(InWindow(s))] /\ names' = names \cup Active /\ UNCHANGED failed
     \/ Fails /\ UNCHANGED <<stats, names>>
  /\ UNCHANGED <<store, req, from, levels, edges, merge, answer, known>>

-----------------------------------------------------------------------------
Into(E, n) == {e \in E : e.to = n}
OutOf(E, n) == {e \in E : e.from = n}

ServiceNode(E, s) ==
  LET t == IF s \in DOMAIN stats THEN stats[s] ELSE None
  IN  [id |-> s, type |-> "service", health |-> Health(levels, t), total |-> t.calls,
       incoming |-> Sum(Into(E, s)).calls, outgoing |-> Sum(OutOf(E, s)).calls]

\* Rates and averages weighted by the calls are those of all calls together.
DependencyNode(E, t) ==
  [id |-> t, type |-> "external", health |-> Health(levels, Sum(Into(E, t))), total |-> 0,
   incoming |-> Sum(Into(E, t)).calls, outgoing |-> 0]

\* Mutant: the callers of dependencies are not put on the map.
ServicesCalled == names

\* The services of the map: also those only known from their calls to dependencies.
Services == names \cup {e.from : e \in merge}

Answer ==
  LET E == edges \cup merge
  IN  /\ pc = "answer" /\ pc' = "idle"
      /\ answer' = [edges |-> E,
                    nodes |-> {ServiceNode(E, s) : s \in Services} \cup {DependencyNode(E, t) : t \in {e.to : e \in merge}}]
      /\ edges' = {} /\ merge' = {} /\ names' = {} /\ stats' = [s \in {} |-> None]
      /\ UNCHANGED <<store, req, from, levels, failed, known>>

Handler == LoadMapThresholds \/ ReadEdges \/ ReadDependencies \/ ReadServices \/ ReadStats \/ Answer

Next ==
  \/ \E x \in Spans : ArriveSpan(x)
  \/ \E x \in Items : ArriveItem(x)
  \/ \E t \in Tenant, b \in Bodies : SetThresholds(t, b)
  \/ \E t \in Tenant, slides \in BOOLEAN : Ask(t, slides)
  \/ Slide
  \/ Handler

Spec == Init /\ [][Next]_vars

-----------------------------------------------------------------------------
(* GET .../edge-traces: the traces behind an edge of the map. *)

\* The parent need not be the tenant's, but there must be a trace to name.
EdgeTraces(a, b) ==
  {c.id : c \in {x \in spans : /\ In(x) /\ x.service = b /\ x.at >= from /\ x.id \notin Untraced
                              /\ \E p \in spans : p.id = x.parent /\ p.service = a}}

-----------------------------------------------------------------------------
(* Properties. *)

TypeOK ==
  /\ spans \subseteq Spans /\ items \subseteq Items
  /\ \A t \in Tenant : stored[t] = NoLevels \/ stored[t] \in [Field -> Nat]
  /\ pc \in Queries \cup {"idle", "answer"}
  /\ req \in [tenant : Tenant, slides : BOOLEAN]
  /\ from \in Seconds
  /\ levels \in [Field -> Nat \ {0}]
  /\ edges \subseteq Edge /\ merge \subseteq Edge
  /\ names \subseteq Service /\ DOMAIN stats \subseteq Service
  /\ failed \subseteq {"services", "stats"}
  /\ known \subseteq Service

Ids == {n.id : n \in answer.nodes}

\* SAFETY.  The map is whole, whichever queries failed and whatever arrived between
\* them: both ends of every edge are nodes.  Over a fixed window no service that had
\* spans when the request began is lost because one of the two queries that would name
\* it failed, and every edge between services has a trace to open or a call without one,
\* although the traces behind an edge are looked up by another rule than the edges.
MapIsWhole ==
  /\ \A e \in answer.edges : {e.from, e.to} \subseteq Ids
  /\ from = 0 =>
       /\ answer # NoAnswer /\ ~ {"services", "stats"} \subseteq failed => known \subseteq Ids
       /\ \A e \in answer.edges : e.type = "service" =>
            EdgeTraces(e.from, e.to) # {} \/ \E x \in Calls(e.from, e.to) : x[1].id \in Untraced

\* No span of the service has its parent in two of the rows the request sees.
OneParent(s) ==
  \A c, p, r \in spans :
    In(c) /\ c.service = s /\ In(p) /\ In(r) /\ p.id = c.parent /\ r.id = c.parent => p = r

\* SAFETY.  Over a fixed window no service is shown with more calls from other
\* services than spans, although the totals are read after the edges: a call is a span
\* of the service, counted once unless its parent was written twice.
CallsWithinSpans ==
  "stats" \notin failed /\ from = 0 =>
    \A n \in answer.nodes : n.type = "service" /\ OneParent(n.id) =>
      Sum({e \in Into(answer.edges, n.id) : e.type = "service"}).calls <= n.total
=============================================================================
