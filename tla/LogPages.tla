------------------------------ MODULE LogPages ------------------------------
(***************************************************************************)
(* Paging through newest-first lists by a time cursor: the logs explorer   *)
(* (internal/query/logs.go, ServeLogs) and the dumps list                  *)
(* (span_queries.go, ServeDumps).  A client asks for a page, gets          *)
(* next_cursor and has_more with it, and asks again with that cursor until *)
(* has_more is false.  Rows and the spans that give logs a tenant arrive   *)
(* all the while, also with times in the past.                             *)
(*                                                                         *)
(* A row is a log line, or a span with the timestamps of the dumps in it   *)
(* (none if its JSON does not parse).  Times are milliseconds, the         *)
(* precision of the cursor.  Filters on service, level and text are left   *)
(* out: every query of a request has the same ones.  A window either has   *)
(* fixed bounds or reaches back from now, and then slides between the      *)
(* queries of a session.                                                   *)
(***************************************************************************)
EXTENDS Integers, FiniteSets

CONSTANTS
  Id,       \* identities of rows
  Tenant,   \* organization and project, taken together
  NoTenant, \* the tenant columns of a row that has none
  Trace,    \* traces
  Scope,    \* what a request may see: a set of tenants, or everything
  Windows,  \* the windows a request may give
  Limit,    \* rows on a page
  FacetLimit, \* values in a facet
  Value,    \* levels and services
  ValueOf,  \* those of a log
  Marks,    \* the sets of dump timestamps a span may hold
  Undated,  \* spans whose start is not a date with three decimals
  MaxTime   \* bound on the times

ASSUME PagingAssumption ==
  /\ NoTenant \notin Tenant
  /\ Scope # {} /\ Scope \subseteq SUBSET (Tenant \cup {NoTenant})
  /\ Windows # {} /\ Windows \subseteq [from : Nat, to : Nat, slides : BOOLEAN]
  /\ Limit \in Nat \ {0} /\ FacetLimit \in Nat \ {0} /\ MaxTime \in Nat
  /\ ValueOf \in [Id -> [{"levels", "services"} -> Value]]
  /\ Marks \subseteq SUBSET (0..MaxTime)

VARIABLES
  rows,     \* opa.logs, and the spans with dumps of opa.spans_full
  spans,    \* opa.spans_min, as <<trace, tenant>>
  pc,       \* the session: "idle", "list", "count", "reply", "done"
  req,      \* its list, scope and window
  slid,     \* how far a relative window has moved since
  cursor,   \* next_cursor of the last page, 0 before the first
  page,     \* the rows of the page being answered
  last,     \* the entry the page ends with
  part,     \* which of the counting queries is next
  left,     \* rows of the page the last counting query left out
  full,     \* that query stopped at FacetLimit with values to come
  seen,     \* history: rows on earlier pages
  asked,    \* history: what the list held when the session's first page was read
  cursors,  \* history: the cursors of this session
  uneven,   \* history: a page showed a number of dumps other than its spans
  adrift    \* history: a cursor was the time of a dump, not of its span

store == <<rows, spans>>
session == <<pc, req, slid, cursor, page, last, part, left, full, seen, asked, cursors, uneven, adrift>>
vars == <<store, session>>

-----------------------------------------------------------------------------
List == {"logs", "dumps"}
Row == [list : List, id : Id, at : 1..MaxTime, owner : Tenant \cup {NoTenant},
        trace : Trace, marks : SUBSET (0..MaxTime)]
NoRow == [list |-> "none"]
NoEntry == [row |-> NoRow, time |-> 0]
Request == [list : List, scope : Scope, window : Windows]
Everything == Tenant \cup {NoTenant}
Part == {"histogram", "levels", "services"}

\* The tenant's own rows, without those its spans vouch for.
VisibleOwn(r, q) == r.owner \in q.scope

\* A log is seen by the tenant in its columns and by those of its trace's spans; a
\* span's dumps by its own.  Without headers and without enforced authentication
\* there is no tenant predicate.
Visible(r, q) ==
  \/ q.scope = Everything
  \/ r.owner \in q.scope
  \/ r.list = "logs" /\ \E t \in q.scope : <<r.trace, t>> \in spans

Listed(q) == {r \in rows : r.list = q.list /\ Visible(r, q)}

\* The window: now() - INTERVAL 7 DAY moves with the clock.  The dumps have no end.
Lower(q) == IF q.window.slides THEN q.window.from + slid ELSE q.window.from
InWindow(r, q) == r.at >= Lower(q) /\ (q.list = "logs" => r.at <= q.window.to)

\* Mutant: the cursor's own millisecond is read again.
WithinInclusive(r, q, c) == IF c = 0 THEN InWindow(r, q) ELSE r.at <= c

\* The time predicate: a cursor replaces the window.
Within(r, q, c) == IF c = 0 THEN InWindow(r, q) ELSE r.at < c

\* ORDER BY time DESC LIMIT: none of the rows left out is newer than one on the page.
IsPage(p, S) ==
  /\ p \subseteq S /\ Cardinality(p) <= Limit
  /\ Cardinality(p) < Limit => p = S
  /\ \A r \in S \ p, s \in p : r.at <= s.at

\* The entries of the answer: a log each, or the dumps of all spans together.
Entries(p) ==
  UNION {{[row |-> r, time |-> t] : t \in IF r.list = "logs" THEN {r.at} ELSE r.marks} : r \in p}

\* The entries that may be last once sorted by time: sort.Slice leaves ties open.
Ends(p) == {e \in Entries(p) : \A f \in Entries(p) : e.time <= f.time}

\* next_cursor: when the span started, or, if its start cannot be read, the dump's time.
NextCursor(e) ==
  IF e.row = NoRow THEN 0
  ELSE IF e.row.list = "dumps" /\ e.row.id \in Undated THEN e.time ELSE e.row.at

\* Mutant: a full page is taken to be the last one.
HasMoreNever(p) == Cardinality(Entries(p)) > Limit

\* has_more: as many entries as rows were asked for.
HasMore(p) == Cardinality(Entries(p)) = Limit

-----------------------------------------------------------------------------
TypeOK ==
  /\ rows \subseteq Row /\ spans \subseteq Trace \X Tenant
  /\ pc \in {"idle", "list", "count", "reply", "done"}
  /\ req \in Request
  /\ cursor \in 0..MaxTime
  /\ page \subseteq Row /\ Cardinality(page) <= Limit
  /\ slid \in 0..MaxTime
  /\ last \in [row : Row \cup {NoRow}, time : 0..MaxTime]
  /\ part \in Part /\ left \subseteq Row /\ full \in BOOLEAN
  /\ seen \subseteq Row /\ asked \subseteq Row
  /\ cursors \subseteq 1..MaxTime
  /\ uneven \in BOOLEAN /\ adrift \in BOOLEAN

Init ==
  /\ rows = {} /\ spans = {}
  /\ pc = "idle" /\ req = CHOOSE q \in Request : TRUE
  /\ slid = 0 /\ cursor = 0 /\ page = {} /\ last = NoEntry
  /\ part = "histogram" /\ left = {} /\ full = FALSE
  /\ seen = {} /\ asked = {} /\ cursors = {} /\ uneven = FALSE /\ adrift = FALSE

\* A row is written, with any time: edges send late.  The two lists share nothing, and
\* a behaviour is about one of them.
Arrive(r) ==
  /\ \A s \in rows : s.id # r.id /\ s.list = r.list
  /\ r.list = "logs" => r.marks = {}
  /\ r.list = "dumps" => spans = {}
  /\ rows' = rows \cup {r}
  /\ UNCHANGED <<spans, session>>

\* A span is written, before or after the logs of its trace.
ArriveSpan(x, t) ==
  /\ \A r \in rows : r.list = "logs"
  /\ spans' = spans \cup {<<x, t>>}
  /\ spans' # spans
  /\ UNCHANGED <<rows, session>>

-----------------------------------------------------------------------------
Open(q) ==
  /\ pc \in {"idle", "done"}
  /\ pc' = "list" /\ req' = q /\ slid' = 0
  /\ cursor' = 0 /\ page' = {} /\ last' = NoEntry
  /\ part' = "histogram" /\ left' = {} /\ full' = FALSE
  /\ seen' = {} /\ asked' = {} /\ cursors' = {} /\ uneven' = FALSE /\ adrift' = FALSE
  /\ UNCHANGED store

\* The clock moves on under a relative window; a cursor has no more use for it.
Slide ==
  /\ pc \in {"list", "count"} /\ req.window.slides /\ cursor = 0
  /\ slid < MaxTime
  /\ slid' = slid + 1
  /\ UNCHANGED <<store, pc, req, cursor, page, last, part, left, full, seen, asked, cursors, uneven, adrift>>

\* The list query.  The dumps list makes no other.
ReadPage(p) ==
  /\ pc = "list"
  /\ IsPage(p, {r \in Listed(req) : Within(r, req, cursor)})
  /\ page' = p
  /\ last' \in IF Entries(p) = {} THEN {NoEntry} ELSE Ends(p)
  /\ asked' = IF cursor = 0 THEN {r \in Listed(req) : InWindow(r, req)} ELSE asked
  /\ uneven' = (uneven \/ Cardinality(Entries(p)) # Cardinality(p))
  /\ pc' = IF req.list = "logs" THEN "count" ELSE "reply"
  /\ UNCHANGED <<store, req, slid, cursor, part, left, full, seen, cursors, adrift>>

ReadFailed ==
  /\ pc = "list"
  /\ pc' = "idle" /\ slid' = 0 /\ cursor' = 0
  /\ seen' = {} /\ asked' = {} /\ cursors' = {} /\ uneven' = FALSE /\ adrift' = FALSE
  /\ UNCHANGED <<store, req, page, last, part, left, full>>

\* Mutant: the histogram and the facets are read from the log's own tenant only.
CountableOwn == {r \in rows : r.list = req.list /\ VisibleOwn(r, req) /\ (cursor = 0 => InWindow(r, req))}

\* What histogram and facets are over: the predicates before the cursor, evaluated anew.
Countable == {r \in Listed(req) : cursor = 0 => InWindow(r, req)}

\* GROUP BY value ORDER BY count DESC LIMIT 20, over the rows S.
IsFacet(V, S, f) ==
  LET values == {ValueOf[r.id][f] : r \in S}
      count(v) == Cardinality({r \in S : ValueOf[r.id][f] = v})
  IN  /\ V \subseteq values /\ Cardinality(V) <= FacetLimit
      /\ Cardinality(V) < FacetLimit => V = values
      /\ \A v \in V, w \in values \ V : count(w) <= count(v)

NextPart ==
  CASE part = "histogram" -> part' = "levels" /\ UNCHANGED pc
    [] part = "levels"    -> part' = "services" /\ UNCHANGED pc
    [] part = "services"  -> part' = "histogram" /\ pc' = "reply"

CountHistogram ==
  /\ pc = "count" /\ part = "histogram"
  /\ left' = page \ Countable /\ full' = FALSE
  /\ NextPart
  /\ UNCHANGED <<store, req, slid, cursor, page, last, seen, asked, cursors, uneven, adrift>>

\* A facet of levels or services.
CountFacet(V) ==
  /\ pc = "count" /\ part # "histogram"
  /\ IsFacet(V, Countable, part)
  /\ left' = page \ {r \in Countable : ValueOf[r.id][part] \in V}
  /\ full' = (\E r \in Countable : ValueOf[r.id][part] \notin V)
  /\ NextPart
  /\ UNCHANGED <<store, req, slid, cursor, page, last, seen, asked, cursors, uneven, adrift>>

\* A counting query that fails leaves its part of the answer empty, and the request
\* goes on.
CountFailed ==
  /\ pc = "count"
  /\ left' = {} /\ full' = FALSE
  /\ NextPart
  /\ UNCHANGED <<store, req, slid, cursor, page, last, seen, asked, cursors, uneven, adrift>>

\* The answer, and what the client makes of it: the next page, or the end.
Reply ==
  /\ pc = "reply"
  /\ cursor' = NextCursor(last)
  /\ cursors' = cursors \cup ({cursor'} \ {0})
  /\ adrift' = (adrift \/ (last.row # NoRow /\ cursor' # last.row.at))
  /\ pc' = IF cursor' > 0 /\ HasMore(page) THEN "list" ELSE "done"
  /\ seen' = seen \cup page
  /\ page' = {} /\ last' = NoEntry /\ left' = {} /\ full' = FALSE
  /\ UNCHANGED <<store, req, slid, part, asked, uneven>>

Step ==
  \/ (\E p \in SUBSET rows : ReadPage(p)) \/ ReadFailed
  \/ CountHistogram \/ (\E V \in SUBSET Value : CountFacet(V)) \/ CountFailed
  \/ Reply

Next ==
  \/ \E r \in [list : List, id : Id, at : 1..MaxTime, owner : Everything, trace : Trace, marks : Marks \cup {{}}] : Arrive(r)
  \/ \E x \in Trace, t \in Tenant : ArriveSpan(x, t)
  \/ \E q \in Request : Open(q)
  \/ Slide
  \/ Step

Spec == Init /\ [][Next]_vars

\* Handlers run and the client goes on asking.
FairSpec == Spec /\ WF_vars(Step)

-----------------------------------------------------------------------------
(* Properties. *)

\* SAFETY.  No row of the explorer is on two pages of a session, however rows and
\* spans arrive between them and share milliseconds (the cursor excludes its own).
NoLogTwice == req.list = "logs" => page \cap seen = {}

\* SAFETY.  When has_more is false, the client has been shown every row that was in
\* the list when it began, except rows of the same millisecond as the end of a page,
\* and except if a page held another number of dumps than of spans (has_more counts
\* the one and the limit the other) or a cursor was taken from a dump instead of its
\* span, whose start could not be read.
NothingSkipped ==
  pc = "done" => \A r \in asked : r \in seen \/ r.at \in cursors \/ uneven \/ adrift

\* SAFETY.  What the histogram and the facets count, each when its query runs,
\* includes every row of the page they are shown with, although the tables change in
\* between and the list query looks at the span's tenant as well as the log's.  Two
\* things alone take a row of the page out: a first page's relative window that has
\* moved past it since, and a facet that stops at its limit.
CountsCoverPage ==
  \A r \in left : full \/ (cursor = 0 /\ req.window.slides /\ r.at < Lower(req))

\* LIVENESS.  Paging ends, whatever arrives: every cursor is before the one it
\* continues, unless one was taken from a dump instead of its span.
PagingEnds == (pc = "list") ~> (pc \in {"idle", "done"} \/ adrift)
=============================================================================
