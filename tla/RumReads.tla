------------------------------ MODULE RumReads ------------------------------
(***************************************************************************)
(* Browser sessions (internal/query/rum.go, with rumDedupe of helpers.go). *)
(* While a page is open its browser sends the same page view again and     *)
(* again, each time with all that has happened on it; the edge writes what *)
(* arrives, late, twice or not at all, as it comes.  The hub makes one row *)
(* of a page view when it reads, for the list of sessions and for the      *)
(* three lists of one session.                                             *)
(*                                                                         *)
(* What happens on a page, requests and errors alike, is a number of       *)
(* entries.  A page view without an id is one per instant.                 *)
(***************************************************************************)
EXTENDS Integers, FiniteSets

CONSTANTS
  View,       \* page views
  Unnamed,    \* those whose browser sends no page_view_id
  Session, SessionOf,
  ViewLimit, AjaxLimit, ErrorLimit, \* the LIMITs of a session's three lists
  MaxEntries, \* bound on what happens on a page
  MaxInstant, \* bound on the clock
  MaxBeacons, \* bound on what is sent
  MaxCopies,  \* how often a beacon may be written
  MaxEvents   \* bound on the rows

ASSUME RumAssumption ==
  /\ "" \notin View /\ Unnamed \subseteq View /\ SessionOf \in [View -> Session]
  /\ ViewLimit \in Nat /\ AjaxLimit \in Nat /\ ErrorLimit \in Nat
  /\ MaxEntries \in Nat /\ MaxInstant \in Nat /\ MaxBeacons \in Nat /\ MaxCopies \in Nat \ {0} /\ MaxEvents \in Nat

VARIABLES
  instant,
  entries,  \* what has happened on each page, Unopened before it is opened
  beacons,  \* what browsers have sent
  events,   \* opa.rum_events
  listed,   \* the list of sessions last shown
  reading,  \* the session request: "idle" or the query that is next
  opened,   \* the row it was opened from
  found,    \* its answer
  missed    \* history: a query of it failed

rumVars == <<instant, entries, beacons, events, listed, reading, opened, found, missed>>

-----------------------------------------------------------------------------
Unopened == -1
NoSessionRow == [session |-> "none", views |-> 0, entries |-> 0]
NoSession == [views |-> 0, ajax |-> 0, errors |-> 0]

\* What rumDedupe groups by.
PageView(e) ==
  <<SessionOf[e.beacon.view],
    IF e.beacon.view \in Unnamed THEN "" ELSE e.beacon.view,
    IF e.beacon.view \in Unnamed THEN e.beacon.at ELSE 0>>

Groups(E) == {{e \in E : PageView(e) = k} : k \in {PageView(e) : e \in E}}

\* Mutant: the first row of the page view.
LatestFirst(g) == {e \in g : \A f \in g : f.beacon.at >= e.beacon.at}

\* The rows argMax(.., occurred_at) may take, any of those of the last instant.
Latest(g) == {e \in g : \A f \in g : f.beacon.at <= e.beacon.at}

\* What the page views of E add up to: as many numbers as ways to take their rows.
EntriesOf(E) ==
  {Cardinality({x \in Groups(E) \X (1..MaxEntries) : x[2] <= p[x[1]].beacon.entries}) :
     p \in {q \in [Groups(E) -> E] : \A g \in Groups(E) : q[g] \in Latest(g)}}

\* What a LIMIT leaves of n rows.
Cap(n, limit) == IF n <= limit THEN n ELSE limit

In(s) == {e \in events : SessionOf[e.beacon.view] = s}

-----------------------------------------------------------------------------
RumInit ==
  /\ instant = 0 /\ entries = [v \in View |-> Unopened]
  /\ beacons = {} /\ events = {}
  /\ listed = {} /\ reading = "idle" /\ opened = NoSessionRow /\ found = NoSession /\ missed = FALSE

\* An answered request leaves nothing behind.
Leave ==
  IF reading = "idle" THEN opened' = NoSessionRow /\ found' = NoSession /\ missed' = FALSE
                      ELSE UNCHANGED <<opened, found, missed>>

InstantPasses ==
  /\ instant < MaxInstant /\ instant' = instant + 1
  /\ Leave
  /\ UNCHANGED <<entries, beacons, events, listed, reading>>

\* The browser sends all that has happened on the page so far.
Flush(v, n) ==
  /\ n >= entries[v] /\ Cardinality(beacons) < MaxBeacons
  /\ entries' = [entries EXCEPT ![v] = n]
  /\ beacons' = beacons \cup {[view |-> v, at |-> instant, entries |-> n]}
  /\ beacons' # beacons
  /\ Leave
  /\ UNCHANGED <<instant, events, listed, reading>>

\* A beacon is written, in any order, perhaps more than once, perhaps never.
Write(b, c) ==
  /\ Cardinality(events) < MaxEvents
  /\ \A d \in 1..(c - 1) : [beacon |-> b, copy |-> d] \in events
  /\ events' = events \cup {[beacon |-> b, copy |-> c]}
  /\ events' # events
  /\ Leave
  /\ UNCHANGED <<instant, entries, beacons, listed, reading>>

\* Mutant: all rows are counted.
ViewsOfRows(E) == Cardinality(E)

ViewsOf(E) == Cardinality(Groups(E))

Sessions(from) == {s \in Session : \E e \in In(s) : e.beacon.at >= from}

\* GET /api/rum/sessions: the sessions with anything in the window.
ServeRUMSessions(from) ==
  /\ reading = "idle"
  /\ LET E(s) == {e \in In(s) : e.beacon.at >= from}
         S == Sessions(from)
     IN  listed' \in {{[session |-> s, views |-> ViewsOf(E(s)), entries |-> f[s]] : s \in S} :
                        f \in {h \in [S -> UNION {EntriesOf(E(s)) : s \in S}] : \A s \in S : h[s] \in EntriesOf(E(s))}}
  /\ Leave
  /\ UNCHANGED <<instant, entries, beacons, events, reading>>

\* GET /api/rum/sessions/{id}: three queries, each of which may fail and leave its list
\* empty.
OpenSession(r) ==
  /\ reading = "idle" /\ r \in listed
  /\ reading' = "views" /\ opened' = r /\ found' = NoSession /\ missed' = FALSE /\ listed' = {}
  /\ UNCHANGED <<instant, entries, beacons, events>>

CollectViews ==
  /\ reading = "views" /\ reading' = "ajax"
  /\ \/ found' = [found EXCEPT !.views = Cap(ViewsOf(In(opened.session)), ViewLimit)] /\ UNCHANGED missed
     \/ missed' = TRUE /\ UNCHANGED found
  /\ UNCHANGED <<instant, entries, beacons, events, listed, opened>>

CollectAjax ==
  /\ reading = "ajax" /\ reading' = "errors"
  /\ \/ found' \in {[found EXCEPT !.ajax = Cap(n, AjaxLimit)] : n \in EntriesOf(In(opened.session))} /\ UNCHANGED missed
     \/ missed' = TRUE /\ UNCHANGED found
  /\ UNCHANGED <<instant, entries, beacons, events, listed, opened>>

CollectErrors ==
  /\ reading = "errors" /\ reading' = "idle"
  /\ \/ found' \in {[found EXCEPT !.errors = Cap(n, ErrorLimit)] : n \in EntriesOf(In(opened.session))} /\ UNCHANGED missed
     \/ missed' = TRUE /\ UNCHANGED found
  /\ UNCHANGED <<instant, entries, beacons, events, listed, opened>>

RumNext ==
  \/ InstantPasses
  \/ \E v \in View, n \in 0..MaxEntries : Flush(v, n)
  \/ \E b \in beacons, c \in 1..MaxCopies : Write(b, c)
  \/ \E from \in 0..MaxInstant : ServeRUMSessions(from)
  \/ \E r \in listed : OpenSession(r)
  \/ CollectViews \/ CollectAjax \/ CollectErrors

RumSpec == RumInit /\ [][RumNext]_rumVars

-----------------------------------------------------------------------------
(* Properties. *)

OpenedIn(s) == {v \in View : SessionOf[v] = s /\ entries[v] # Unopened}
Happened(s) == Cardinality({x \in OpenedIn(s) \X (1..MaxEntries) : x[2] <= entries[x[1]]})
AllNamed(s) == \A v \in View : SessionOf[v] = s => v \notin Unnamed

\* Two different states of a page view were sent in one instant.
Blurred(s) ==
  \E a, b \in beacons : /\ a.at = b.at /\ a.entries # b.entries
                        /\ SessionOf[a.view] = s /\ SessionOf[b.view] = s
                        /\ a.view = b.view \/ {a.view, b.view} \subseteq Unnamed

\* SAFETY.  However often beacons are sent and written, no session is listed with more
\* page views than its browser opened or more entries than happened, if its page views
\* have ids; and a session opened from the list has at least what its row has, or as much
\* as the limits of its lists let through (the row's sums have none), although the row is
\* of a window, the lists are read one after the other and beacons arrive in between,
\* unless a query failed or an instant holds two states.
SessionsAddUp ==
  /\ \A r \in listed : AllNamed(r.session) =>
       /\ r.views <= Cardinality(OpenedIn(r.session))
       /\ r.entries <= Happened(r.session)
  /\ opened # NoSessionRow /\ reading = "idle" /\ ~ missed /\ ~ Blurred(opened.session) =>
       /\ found.views >= Cap(opened.views, ViewLimit)
       /\ found.ajax >= Cap(opened.entries, AjaxLimit)
       /\ found.errors >= Cap(opened.entries, ErrorLimit)

\* The last beacon of the page view was written, in the window, and no other one of the
\* same instant was.
Settled(v, from) ==
  \E e \in events :
    /\ e.beacon.view = v /\ e.beacon.at >= from /\ e.beacon.entries = entries[v]
    /\ \A b \in beacons : b.view = v => b.at <= e.beacon.at
    /\ \A f \in events : f.beacon.view = v /\ f.beacon.at = e.beacon.at => f.beacon.entries = entries[v]

\* ACTION PROPERTY.  A session is shown with all that happened in it once the last
\* beacon of each of its page views is written, in whatever order, and whichever of the
\* earlier ones were lost.
LastBeaconIsEnough ==
  [][\A from \in 0..MaxInstant, s \in Session :
       /\ AllNamed(s) /\ OpenedIn(s) # {} /\ (\A v \in OpenedIn(s) : Settled(v, from))
       /\ ServeRUMSessions(from)
       => \E r \in listed' : r.session = s /\ r.entries = Happened(s)]_rumVars

=============================================================================
