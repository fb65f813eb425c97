----------------------------- MODULE TraceReads -----------------------------
(***************************************************************************)
(* The trace list, paged by offset, and the trace a user opens from it     *)
(* (internal/query/traces.go).  The list and its total are two queries,    *)
(* and so are a trace's spans and their payloads; spans are written        *)
(* between any two of them.                                                *)
(*                                                                         *)
(* A trace sorts by the least creation time of its spans or by its least   *)
(* start.  A bound may be an expression like now() - INTERVAL 1 HOUR,      *)
(* which every query evaluates anew (safeTimeLiteral in query.go): such a  *)
(* bound slides during a session.  Sorting by the largest duration or by a *)
(* span's service or status is left out, and so are the filters on these.  *)
(***************************************************************************)
EXTENDS Integers, FiniteSets, FiniteSetsExt

CONSTANTS
  TraceId, SpanId,
  Owner,     \* tenants
  Everyone,  \* the scope of a request without tenant headers
  Scopes,    \* the scopes of requests
  Starts,    \* when spans may have started
  PageSize,
  Sorts,     \* what the list may be sorted by
  Windows,   \* the bounds a request may give
  LastTime,  \* bound on the times
  MaxFiled,  \* bound on the spans
  MaxPayloads

\* The bounds of a list, and which of the two are relative to now().
Window == {w \in [from : 1..LastTime, to : 1..LastTime, slides : SUBSET {"from", "to"}] : w.from <= w.to}

ASSUME TraceAssumption ==
  /\ PageSize \in Nat \ {0} /\ LastTime \in Nat \ {0} /\ MaxFiled \in Nat /\ MaxPayloads \in Nat
  /\ Everyone \notin Owner /\ Scopes # {} /\ Scopes \subseteq Owner \cup {Everyone} /\ Starts \subseteq 1..LastTime
  /\ Sorts \subseteq {"created_at", "start_ts"} /\ "created_at" \in Sorts
  /\ Windows # {} /\ Windows \subseteq Window

VARIABLES
  filed,    \* opa.spans_min
  payloads, \* opa.spans_full, as <<trace, span, owner>>
  step,     \* the request: "idle", "list", "count", "opened", "full"
  ask,      \* scope, sort and order of the list, and its bounds as of now
  offset,   \* where the next page begins
  shown,    \* the page: <<trace, number of spans>>
  total,    \* the total last shown, -1 before the first
  met,      \* history: traces on the pages of this session
  there,    \* history: traces in the list when it began
  sure,     \* history: every count of this session was answered
  adrift,   \* history: a sliding bound has put a trace out of the list or elsewhere in it
  detail    \* the trace that is open

traceVars == <<filed, payloads, step, ask, offset, shown, total, met, there, sure, adrift, detail>>

-----------------------------------------------------------------------------
SpanRow == [trace : TraceId, span : SpanId, owner : Owner, start : Starts, created : 1..LastTime]
AsksWithin(W) == [scope : Scopes, sort : Sorts, order : {"asc", "desc"}, window : W]
Asks == AsksWithin(Window)
NoDetail == [trace |-> "none", row |-> 0, spans |-> {}, before |-> {}, with |-> {}, full |-> FALSE]

Sees(q, owner) == q.scope = Everyone \/ q.scope = owner

\* The spans behind the row of a trace.
Group(q, t) ==
  {r \in filed : r.trace = t /\ Sees(q, r.owner) /\ q.window.from <= r.start /\ r.start <= q.window.to}

Traces(q) == {t \in TraceId : Group(q, t) # {}}

Key(q, t) == Min({IF q.sort = "created_at" THEN r.created ELSE r.start : r \in Group(q, t)})

NotAfter(q, t, u) == IF q.order = "asc" THEN Key(q, t) <= Key(q, u) ELSE Key(q, t) >= Key(q, u)

\* Mutant: every page begins with the end of the one before.
IsSliceOverlapping(q, off, p) ==
  LET T == Traces(q)
  IN  /\ p \subseteq T
      /\ \E b \in SUBSET (T \ p) :
           /\ Cardinality(b) = Max({0, Min({off - 1, Cardinality(T)})})
           /\ Cardinality(p) = Min({PageSize, Cardinality(T \ b)})
           /\ \A t \in b, u \in T \ b : NotAfter(q, t, u)
           /\ \A t \in p, u \in T \ (b \cup p) : NotAfter(q, t, u)

\* p is what ORDER BY key LIMIT PageSize OFFSET off may return: ties fall either way.
IsSlice(q, off, p) ==
  LET T == Traces(q)
  IN  /\ p \subseteq T
      /\ \E b \in SUBSET (T \ p) :
           /\ Cardinality(b) = Min({off, Cardinality(T)})
           /\ Cardinality(p) = Min({PageSize, Cardinality(T \ b)})
           /\ \A t \in b, u \in T \ b : NotAfter(q, t, u)
           /\ \A t \in p, u \in T \ (b \cup p) : NotAfter(q, t, u)

-----------------------------------------------------------------------------
\* The request of a list before one is given parameters, which that of a trace never is.
Plain(scope) ==
  [scope |-> scope, sort |-> "created_at", order |-> "desc", window |-> CHOOSE w \in Windows : TRUE]

TraceInit ==
  /\ filed = {} /\ payloads = {}
  /\ step = "idle" /\ ask = Plain(CHOOSE s \in Scopes : TRUE)
  /\ offset = 0 /\ shown = {} /\ total = -1
  /\ met = {} /\ there = {} /\ sure = TRUE /\ adrift = FALSE
  /\ detail = NoDetail

Latest == Max({1} \cup {r.created : r \in filed})

\* A span is written, now, with a start in the past; its payload comes later, or
\* never.
FileSpan(t, s, o, start, created) ==
  /\ Cardinality(filed) < MaxFiled
  /\ ~ \E r \in filed : r.trace = t /\ r.span = s /\ r.owner = o
  /\ created \in {Latest, Latest + 1} /\ start <= created
  /\ filed' = filed \cup {[trace |-> t, span |-> s, owner |-> o, start |-> start, created |-> created]}
  /\ UNCHANGED <<payloads, step, ask, offset, shown, total, met, there, sure, adrift, detail>>

FilePayload(r) ==
  /\ Cardinality(payloads) < MaxPayloads
  /\ payloads' = payloads \cup {<<r.trace, r.span, r.owner>>}
  /\ payloads' # payloads
  /\ UNCHANGED <<filed, step, ask, offset, shown, total, met, there, sure, adrift, detail>>

\* The clock goes on, and the sliding bounds with it, until a trace is opened or the
\* window is empty.
Later(w) == [w EXCEPT !.from = IF "from" \in w.slides THEN @ + 1 ELSE @,
                      !.to = IF "to" \in w.slides THEN @ + 1 ELSE @]

MoveWindow ==
  /\ detail = NoDetail
  /\ ask.window.slides # {} /\ Later(ask.window) \in Window
  /\ ask' = [ask EXCEPT !.window = Later(ask.window)]
  /\ adrift' = (adrift \/ \E t \in Traces(ask) : t \notin Traces(ask') \/ Key(ask', t) # Key(ask, t))
  /\ UNCHANGED <<filed, payloads, step, offset, shown, total, met, there, sure, detail>>

\* A session: the first page, then the next while there is more.
Browse(q) ==
  /\ step = "idle"
  /\ step' = "list" /\ ask' = q
  /\ offset' = 0 /\ shown' = {} /\ total' = -1
  /\ met' = {} /\ there' = Traces(q) /\ sure' = TRUE /\ adrift' = FALSE
  /\ detail' = NoDetail
  /\ UNCHANGED <<filed, payloads>>

NextPage ==
  /\ step = "idle" /\ offset < total /\ shown # {}
  /\ step' = "list" /\ detail' = NoDetail
  /\ UNCHANGED <<filed, payloads, ask, offset, shown, total, met, there, sure, adrift>>

ListTraces(p) ==
  /\ step = "list" /\ IsSlice(ask, offset, p)
  /\ shown' = {<<t, Cardinality(Group(ask, t))>> : t \in p}
  /\ met' = met \cup p
  /\ step' = "count"
  /\ UNCHANGED <<filed, payloads, ask, offset, total, there, sure, adrift, detail>>

Counted == Cardinality(Traces(ask))

\* The total: counted, or else the length of the page.
CountTraces ==
  /\ step = "count"
  /\ \/ total' = Counted /\ UNCHANGED sure
     \/ total' = Cardinality(shown) /\ sure' = FALSE
  /\ offset' = offset + Cardinality(shown)
  /\ step' = "idle"
  /\ UNCHANGED <<filed, payloads, ask, shown, met, there, adrift, detail>>

\* The client leaves the list for a trace: its rows, whenever they started.
OpenTrace(row) ==
  /\ step = "idle" /\ row \in shown /\ detail = NoDetail
  /\ detail' = [trace |-> row[1], row |-> row[2],
                spans |-> {r \in filed : r.trace = row[1] /\ Sees(ask, r.owner)},
                before |-> payloads, with |-> {}, full |-> FALSE]
  /\ step' \in {"idle", "full"}
  /\ ask' = Plain(ask.scope) /\ offset' = 0 /\ shown' = {} /\ total' = -1
  /\ met' = {} /\ there' = {} /\ sure' = TRUE /\ adrift' = FALSE
  /\ UNCHANGED <<filed, payloads>>

Payloads == {p \in payloads : p[1] = detail.trace /\ Sees(ask, p[3])}

\* Mutant: an answer without its payloads is marked as full.
ReadPayloadsMarked ==
  /\ step = "full" /\ step' = "idle" /\ detail' = [detail EXCEPT !.full = TRUE]
  /\ UNCHANGED <<filed, payloads, ask, offset, shown, total, met, there, sure, adrift>>

\* .../full: the spans read before are given their payloads, by span id alone.  A query
\* that fails leaves the answer without them and without the mark.
ReadPayloads ==
  /\ step = "full" /\ step' = "idle"
  /\ \/ detail' = [detail EXCEPT !.full = (Payloads # {}),
                     !.with = {r \in detail.spans : \E p \in Payloads : p[2] = r.span}]
     \/ UNCHANGED detail
  /\ UNCHANGED <<filed, payloads, ask, offset, shown, total, met, there, sure, adrift>>

TraceFailed ==
  /\ step = "list"
  /\ step' = "idle" /\ total' = Max({total, 0}) /\ shown' = {} /\ sure' = FALSE
  /\ UNCHANGED <<filed, payloads, ask, offset, met, there, adrift, detail>>

TraceNext ==
  \/ \E t \in TraceId, s \in SpanId, o \in Owner, a \in Starts, c \in 1..LastTime : FileSpan(t, s, o, a, c)
  \/ \E r \in filed : FilePayload(r)
  \/ MoveWindow
  \/ \E q \in AsksWithin(Windows) : Browse(q)
  \/ NextPage
  \/ \E p \in SUBSET TraceId : ListTraces(p)
  \/ CountTraces
  \/ \E row \in shown : OpenTrace(row)
  \/ ReadPayloads
  \/ TraceFailed

-----------------------------------------------------------------------------
TraceTypeOK ==
  /\ filed \subseteq SpanRow /\ payloads \subseteq TraceId \X SpanId \X Owner
  /\ step \in {"idle", "list", "count", "full"}
  /\ ask \in Asks
  /\ offset \in Nat /\ total \in Nat \cup {-1}
  /\ shown \subseteq TraceId \X (Nat \ {0})
  /\ met \subseteq TraceId /\ there \subseteq TraceId
  /\ sure \in BOOLEAN /\ adrift \in BOOLEAN
  /\ detail.with \subseteq detail.spans

\* Two traces were created at once: the order between them is left open.
Tied(t) == \E u \in Traces(ask) \ {t} : Key(ask, u) = Key(ask, t)

\* SAFETY.  Paging by creation time, the default, to the end passes over no trace that
\* was in the list when it began, although traces arrive meanwhile and move the others:
\* a trace's place is fixed by its first span.  By start it would not hold, nor under a
\* bound relative to now() that slides, between the pages, past a trace of the list or
\* past its first span: the traces behind it move up, across the offset.
NothingPassedOver ==
  step = "idle" /\ sure /\ ~ adrift /\ (shown = {} \/ offset >= total) /\ total >= 0 /\ ask.sort = "created_at" =>
    \A t \in there : t \in met \/ Tied(t)

\* SAFETY.  A trace opened from the list is found with at least the spans its row
\* promised, and an answer marked as full has the payload of every span it lists whose
\* payload was there when the request began.
DetailIsComplete ==
  /\ detail # NoDetail => Cardinality(detail.spans) >= detail.row
  /\ detail.full => \A r \in detail.spans : <<r.trace, r.span, r.owner>> \in detail.before => r \in detail.with
=============================================================================
