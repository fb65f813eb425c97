----------------------------- MODULE ErrorTriage ----------------------------
(***************************************************************************)
(* internal/query/extras.go: the two triage requests on an error group,    *)
(*   POST /api/errors/groups/{id}/status   and   .../assign.               *)
(* opa.error_group_status is a ReplacingMergeTree: an insert replaces the  *)
(* whole row of (organization, project, group).  A request therefore reads *)
(* the row it will replace, overwrites one field and inserts both.  Nothing*)
(* locks the row between the two queries, and an error of the first one is *)
(* ignored.                                                                *)
(*                                                                         *)
(* One group id is modelled; it can occur in several tenants.  A context   *)
(* is [tenant, scope]: the tenant opentenant writes under and the tenants  *)
(* its filter lets a query see.                                            *)
(***************************************************************************)
EXTENDS Naturals

CONSTANTS
  Caller,     \* request goroutines
  Tenant, Assignee, Null,   \* see ErrorInbox
  Blank,      \* assigned_to = "", which unassigns (null leaves the field alone)
  Context,    \* tenant contexts of the requests
  ReadsFail,  \* BOOLEAN: the first query can fail
  MaxRequests \* bound on the requests made

ASSUME TriageAssumption ==
  /\ Null \notin Assignee
  /\ Blank \notin Assignee \cup {Null}
  /\ \A x \in Context : x.tenant \in Tenant /\ x.scope \subseteq Tenant
  /\ ReadsFail \in BOOLEAN
  /\ MaxRequests \in Nat

VARIABLES
  rows,      \* per tenant: the row of the group, or NoRow
  pc,        \* per goroutine: "idle", "seed", "insert"
  req,       \* per goroutine: the last request
  seed,      \* per goroutine: curStatus and curAssign
  overtaken, \* history: a row the goroutine sees changed since it read, or it read none
  asked,     \* history: per tenant, every status and assignee asked for
  requests   \* number of requests made

vars == <<rows, pc, req, seed, overtaken, asked, requests>>

-----------------------------------------------------------------------------
Statuses == {"unresolved", "resolved", "ignored"}
NoRow == [status |-> "", assigned |-> Null]
Row == [status : Statuses, assigned : Assignee \cup {Null, Blank}]

\* A status request carries a valid status and no assignee, an assign request no status.
StatusRequest(x, s) == [ctx |-> x, status |-> s, assigned |-> Null]
AssignRequest(x, a) == [ctx |-> x, status |-> "", assigned |-> a]
Request ==
  {StatusRequest(x, s) : x \in Context, s \in Statuses} \cup
  {AssignRequest(x, a) : x \in Context, a \in Assignee \cup {Blank, Null}}

Default == [status |-> "unresolved", assigned |-> Null]

\* A row as the queries read it back: no row is an untriaged group, and an empty
\* assignee is none.
ReadBack(row) ==
  IF row = NoRow THEN Default
  ELSE [status |-> row.status, assigned |-> IF row.assigned = Blank THEN Null ELSE row.assigned]

Seen == [t \in Tenant |-> ReadBack(rows[t])]

\* Mutant: the field that is not named is reset, not carried over.
MergedReset(r, cur) ==
  [status |-> IF r.status = "" THEN "unresolved" ELSE r.status, assigned |-> r.assigned]

\* The row a request inserts.
Merged(r, cur) ==
  [status   |-> IF r.status = "" THEN cur.status ELSE r.status,
   assigned |-> IF r.assigned = Null THEN cur.assigned ELSE r.assigned]

\* The group's rows in the tenants a context sees; NoRow where they have none.
VisibleRows(x) ==
  LET R == {rows[t] : t \in {u \in x.scope : rows[u] # NoRow}}
  IN  IF R = {} THEN {NoRow} ELSE R

\* ServeErrorsSubpath: the group's page shows one of them (LIMIT 1, no order).
PageShows(x) == {ReadBack(row) : row \in VisibleRows(x)}

\* ServeErrors: the list joins the group with all of them.
ListShows(row) == [status |-> IF row.status = "" THEN "unresolved" ELSE row.status,
                   assigned |-> IF row.assigned = Blank THEN Null ELSE row.assigned]

\* Mutant: the filter on unresolved groups looks for a row that says so.
FilteredPlain(x, f) == {row \in VisibleRows(x) : row.status = f}

\* The filter on the status: unresolved is also what has no row.
Filtered(x, f) ==
  {row \in VisibleRows(x) : row.status = f \/ (f = "unresolved" /\ row.status = "")}

TypeOK ==
  /\ rows \in [Tenant -> Row \cup {NoRow}]
  /\ pc \in [Caller -> {"idle", "seed", "insert"}]
  /\ req \in [Caller -> Request \cup {Null}]
  /\ \A c \in Caller : pc[c] # "idle" => req[c] \in Request
  /\ seed \in [Caller -> [status : Statuses, assigned : Assignee \cup {Null}]]
  /\ Seen \in [Tenant -> [status : Statuses, assigned : Assignee \cup {Null}]]
  /\ overtaken \in [Caller -> BOOLEAN]
  /\ asked \in [Tenant -> SUBSET (Statuses \cup Assignee)]
  /\ requests \in 0..MaxRequests

Init ==
  /\ rows = [t \in Tenant |-> NoRow]
  /\ pc = [c \in Caller |-> "idle"]
  /\ req = [c \in Caller |-> Null]
  /\ seed = [c \in Caller |-> Default]
  /\ overtaken = [c \in Caller |-> FALSE]
  /\ asked = [t \in Tenant |-> {}]
  /\ requests = 0

-----------------------------------------------------------------------------
Ask(c, r) ==
  /\ pc[c] = "idle" /\ requests < MaxRequests
  /\ pc' = [pc EXCEPT ![c] = "seed"]
  /\ req' = [req EXCEPT ![c] = r]
  /\ overtaken' = [overtaken EXCEPT ![c] = FALSE]
  /\ asked' = [asked EXCEPT ![r.ctx.tenant] =
                 @ \cup ({r.status, r.assigned} \cap (Statuses \cup Assignee))]
  /\ requests' = requests + 1
  /\ UNCHANGED <<rows, seed>>

\* The query returns one of the visible rows (LIMIT 1, no order): to a request that
\* sees several tenants another's, maybe.
Seed(c) ==
  /\ pc[c] = "seed"
  /\ \E row \in VisibleRows(req[c].ctx) : seed' = [seed EXCEPT ![c] = ReadBack(row)]
  /\ pc' = [pc EXCEPT ![c] = "insert"]
  /\ UNCHANGED <<rows, req, overtaken, asked, requests>>

\* The query fails: the code goes on as if there were no row.
SeedFailed(c) ==
  /\ ReadsFail
  /\ pc[c] = "seed"
  /\ seed' = [seed EXCEPT ![c] = Default]
  /\ overtaken' = [overtaken EXCEPT ![c] = TRUE]
  /\ pc' = [pc EXCEPT ![c] = "insert"]
  /\ UNCHANGED <<rows, req, asked, requests>>

\* The insert reaches the table, whether or not the reply reaches the caller.
Insert(c) ==
  /\ pc[c] = "insert"
  /\ LET t == req[c].ctx.tenant
     IN /\ rows' = [rows EXCEPT ![t] = Merged(req[c], seed[c])]
        /\ overtaken' = [d \in Caller |->
                           overtaken[d] \/ (pc[d] = "insert" /\ t \in {req[d].ctx.tenant} \cup req[d].ctx.scope)]
  /\ pc' = [pc EXCEPT ![c] = "idle"]
  /\ UNCHANGED <<req, seed, asked, requests>>

\* The insert is refused or lost: the caller gets query_error, the row stays.
InsertFailed(c) ==
  /\ pc[c] = "insert"
  /\ pc' = [pc EXCEPT ![c] = "idle"]
  /\ UNCHANGED <<rows, req, seed, overtaken, asked, requests>>

Next ==
  \/ \E c \in Caller, r \in Request : Ask(c, r)
  \/ \E c \in Caller : Seed(c) \/ SeedFailed(c) \/ Insert(c) \/ InsertFailed(c)

Spec == Init /\ [][Next]_vars

-----------------------------------------------------------------------------
(* Properties. *)

Inbox == INSTANCE ErrorInbox WITH inbox <- Seen

\* REFINEMENT.  To its readers the table behaves as ErrorInbox: every request
\* changes the field it names, at one moment, and carries the other over.  True while
\* requests do not overlap and reads do not fail (writeErrorGroupStatus).
InboxBehaviour == Inbox!Spec

\* Requests that see the tenant they write to and no other, and tenants that only such
\* requests write to.
SeesOwn(x) == x.scope = {x.tenant}
KeptApart(t) == \A x \in Context : x.tenant = t => SeesOwn(x)

\* ACTION PROPERTY.  A request that sees its own tenant alone loses the other field
\* only if another request on that tenant's group inserted between its two queries or
\* its first query failed; requests on other tenants, finished ones and lost ones
\* never cause it, whatever those see.  A request that sees several tenants is left
\* out: its first query may take another tenant's row (LIMIT 1), and then it puts that
\* tenant's field into its own, with no race at all.
OnlyRacesLoseFields ==
  [][\A c \in Caller : Insert(c) /\ SeesOwn(req[c].ctx) /\ ~overtaken[c] =>
       LET t == req[c].ctx.tenant
       IN /\ req[c].status = "" => Seen'[t].status = Seen[t].status
          /\ req[c].assigned = Null => Seen'[t].assigned = Seen[t].assigned]_vars

\* SAFETY.  The list of errors has a group under a status exactly if the group's own
\* page can show that status, and with the same assignee; so under one status to who
\* sees one tenant.  Both join a table that may have no row of the group, or one with
\* an empty assignee, or a row in each of several tenants.
ListAgreesWithPage ==
  \A x \in Context : \A f \in Statuses :
    {ListShows(row) : row \in Filtered(x, f)} = {s \in PageShows(x) : s.status = f}

\* SAFETY.  Whatever races and failures do, the group of a tenant only ever shows a
\* status and an assignee that some request asked for in that very tenant, if those
\* who write there see no other: lost updates bring back old values, never another
\* tenant's.
NothingInvented ==
  \A t \in Tenant : KeptApart(t) =>
    /\ Seen[t].status \in asked[t] \cup {"unresolved"}
    /\ Seen[t].assigned \in asked[t] \cup {Null}
=============================================================================
