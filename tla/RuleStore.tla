------------------------------ MODULE RuleStore -----------------------------
(***************************************************************************)
(* The create, update and delete handlers of alert rules, synthetic checks *)
(* and service-level objectives (internal/query alerts.go, synthetics.go,  *)
(* slos.go), and the ClickHouse tables they keep them in.                  *)
(*                                                                         *)
(* Alerts and checks are kept in replacing tables: a write inserts a whole *)
(* new row, and reads (FINAL) see the row of the highest version.  SLOs    *)
(* are updated in place.  Deletes and in-place updates are mutations:      *)
(* ClickHouse answers at once, applies them later and in order, and leaves *)
(* rows inserted since alone.  A handler that reads before it writes does  *)
(* so in separate statements, and other handlers run in between.           *)
(*                                                                         *)
(* A definition stands for all columns of an alert or SLO, and for the URL *)
(* of a check, the one column an update may leave out.                     *)
(***************************************************************************)
EXTENDS Integers, FiniteSets

CONSTANTS
  Editor,      \* goroutines serving requests
  Tenant,      \* organization and project, taken together
  Id,          \* rule ids
  Definition,  \* what a rule says
  Blank,       \* an update of a check that leaves the URL out
  Context,     \* tenant contexts: where a request writes, what it can see
  ReadsFail,   \* whether queries may fail
  MaxEdits,    \* bound on the requests
  MaxTime      \* bound on the clock

ASSUME RuleAssumption ==
  /\ Blank \notin Definition
  /\ Context \subseteq [tenant : Tenant, scope : SUBSET Tenant]
  /\ ReadsFail \in BOOLEAN /\ MaxEdits \in Nat /\ MaxTime \in Nat

VARIABLES
  rows,       \* the three tables
  mutations,  \* mutations accepted and not applied yet
  blocks,     \* ClickHouse's count of inserts and mutations
  now,        \* the clock, in milliseconds, of the hub and of ClickHouse
  stage, asked, \* per goroutine: where it is and what it was asked
  found,      \* per goroutine: the rule it read
  stamp,      \* per goroutine: updated_at of the row it is about to insert
  overtaken,  \* history: another statement hit the rule since it was read
  requests    \* history: requests so far

ruleVars == <<rows, mutations, blocks, now, stage, asked, found, stamp, overtaken, requests>>

-----------------------------------------------------------------------------
Kind == {"alert", "check", "slo"}

\* Only the update of a check may leave its URL out; a deletion carries nothing.
Request ==
  [kind : Kind, op : {"create", "update"}, id : Id, def : Definition, ctx : Context] \cup
  [kind : {"check"}, op : {"update"}, id : Id, def : {Blank}, ctx : Context] \cup
  [kind : Kind, op : {"delete"}, id : Id, def : {Blank}, ctx : Context]

None == [kind |-> "none"]

SameRule(r, s) == r.kind = s.kind /\ r.tenant = s.tenant /\ r.id = s.id
Supersedes(s, r) ==
  SameRule(r, s) /\ (s.version > r.version \/ (s.version = r.version /\ s.block > r.block))

\* Mutant: the reads forget FINAL.
VisibleUnmerged == rows

\* What a SELECT finds: of a replacing table the superseding rows.
Visible == {r \in rows : r.kind = "slo" \/ \A s \in rows : ~Supersedes(s, r)}

RuleOf(k, t, i) == {r \in Visible : r.kind = k /\ r.tenant = t /\ r.id = i}

RuleInit ==
  /\ rows = {} /\ mutations = {} /\ blocks = 0 /\ now = 0
  /\ stage = [c \in Editor |-> "idle"]
  /\ asked = [c \in Editor |-> None] /\ found = [c \in Editor |-> None]
  /\ stamp = [c \in Editor |-> 0]
  /\ overtaken = [c \in Editor |-> FALSE]
  /\ requests = 0

-----------------------------------------------------------------------------
\* Which handlers read the rule first, and which take the time themselves.
ReadsFirst(q) == q.op # "create" /\ (q.kind = "check" \/ (q.kind = "alert" /\ q.op = "update"))
WriteStep(q) == IF q.kind = "check" /\ q.op # "delete" THEN "stamp" ELSE "exec"

\* The request moves on with what it has read, or ends.
Goto(c, to, r) ==
  /\ stage' = [stage EXCEPT ![c] = to]
  /\ asked' = [asked EXCEPT ![c] = IF to = "idle" THEN None ELSE asked[c]]
  /\ found' = [found EXCEPT ![c] = IF to = "idle" THEN None ELSE r]
  /\ stamp' = [stamp EXCEPT ![c] = IF to = "idle" THEN 0 ELSE stamp[c]]

\* The id of a new check is the clock in nanoseconds, so nobody has used it.
Unused(k, i) ==
  /\ \A r \in rows : ~(r.kind = k /\ r.id = i)
  /\ \A m \in mutations : ~(m.kind = k /\ m.id = i)
  /\ \A c \in Editor : stage[c] # "idle" => ~(asked[c].kind = k /\ asked[c].id = i)

Ask(c, q) ==
  /\ stage[c] = "idle" /\ requests < MaxEdits
  /\ q.kind = "check" /\ q.op = "create" => Unused("check", q.id)
  /\ stage' = [stage EXCEPT ![c] = IF ReadsFirst(q) THEN "read" ELSE WriteStep(q)]
  /\ asked' = [asked EXCEPT ![c] = q]
  /\ overtaken' = [overtaken EXCEPT ![c] = FALSE]
  /\ requests' = requests + 1
  /\ UNCHANGED <<rows, mutations, blocks, now, found, stamp>>

\* Mutant: a check that is not there is created.
ReadUpserting(c) ==
  /\ stage[c] = "read"
  /\ LET seen == {r \in Visible : r.kind = asked[c].kind /\ r.id = asked[c].id /\ r.tenant \in asked[c].ctx.scope}
     IN \E r \in IF seen = {} THEN {None} ELSE seen :
          Goto(c, IF r = None /\ asked[c].def = Blank THEN "idle" ELSE WriteStep(asked[c]), r)
  /\ UNCHANGED <<rows, mutations, blocks, now, overtaken, requests>>

\* Mutant: the reads of getAlert and getSynthetic name no tenant.
ReadUnscoped(c) ==
  /\ stage[c] = "read"
  /\ LET seen == {r \in Visible : r.kind = asked[c].kind /\ r.id = asked[c].id}
     IN \E r \in IF seen = {} THEN {None} ELSE seen :
          Goto(c, IF r = None /\ asked[c].kind = "check" THEN "idle" ELSE WriteStep(asked[c]), r)
  /\ UNCHANGED <<rows, mutations, blocks, now, overtaken, requests>>

\* getAlert, getSynthetic: one of the rows with that id in scope.  A check that is
\* not there ends the request, an alert does not.
Read(c) ==
  /\ stage[c] = "read"
  /\ LET seen == {r \in Visible : r.kind = asked[c].kind /\ r.id = asked[c].id /\ r.tenant \in asked[c].ctx.scope}
     IN \E r \in IF seen = {} THEN {None} ELSE seen :
          Goto(c, IF r = None /\ asked[c].kind = "check" THEN "idle" ELSE WriteStep(asked[c]), r)
  /\ UNCHANGED <<rows, mutations, blocks, now, overtaken, requests>>

\* The query fails: the alert handler takes it for a rule that is not there.
ReadFailed(c) ==
  /\ ReadsFail
  /\ stage[c] = "read"
  /\ Goto(c, IF asked[c].kind = "check" THEN "idle" ELSE "exec", None)
  /\ UNCHANGED <<rows, mutations, blocks, now, overtaken, requests>>

\* persistSynthetic takes the hub's time before it sends the insert.
Stamp(c) ==
  /\ stage[c] = "stamp"
  /\ stamp' = [stamp EXCEPT ![c] = now]
  /\ stage' = [stage EXCEPT ![c] = "exec"]
  /\ UNCHANGED <<rows, mutations, blocks, now, asked, found, overtaken, requests>>

-----------------------------------------------------------------------------
\* The tenant an insert goes to: that of the rule that was read, if any, which is
\* another than the request's own when the request sees several.
WriteTenant(c) == IF found[c] = None THEN asked[c].ctx.tenant ELSE found[c].tenant

\* The definition an insert carries: an update without a URL repeats the one read.
Written(c) == IF asked[c].def = Blank THEN found[c].def ELSE asked[c].def

\* OwnedRowPredicate: the rows a deletion may hit.
Owned(x) == {x.tenant}

InsertRow(c) ==
  /\ rows' = rows \cup
       {[kind |-> asked[c].kind, tenant |-> WriteTenant(c), id |-> asked[c].id, def |-> Written(c),
         version |-> IF asked[c].kind = "check" THEN stamp[c] ELSE now, block |-> blocks + 1]}
  /\ UNCHANGED mutations

\* ALTER TABLE ... UPDATE WHERE id = ... names no tenant; DELETE does.
Mutate(c) ==
  /\ mutations' = mutations \cup
       {[kind |-> asked[c].kind, op |-> asked[c].op, id |-> asked[c].id, def |-> asked[c].def, block |-> blocks + 1,
         by |-> asked[c].ctx.tenant,
         tenants |-> IF asked[c].op = "delete" THEN Owned(asked[c].ctx) ELSE Tenant]}
  /\ UNCHANGED rows

IsMutation(q) == q.op = "delete" \/ (q.kind = "slo" /\ q.op = "update")

\* The rule a goroutine past its read is about, where it writes it.
Target(c) == RuleOf(asked[c].kind, WriteTenant(c), asked[c].id)

\* Of these goroutines, those past their reads that are about a rule with this kind and
\* id in these tenants.
Overtake(k, i, tenants, others) ==
  overtaken' = [d \in Editor |-> d \in others /\
    \/ overtaken[d]
    \/ stage[d] \in {"stamp", "exec"} /\ asked[d].kind = k /\ asked[d].id = i /\ WriteTenant(d) \in tenants]

\* The statement takes effect, whether or not its answer gets back.
Exec(c) ==
  /\ stage[c] = "exec"
  /\ IF IsMutation(asked[c]) THEN Mutate(c) ELSE InsertRow(c)
  /\ blocks' = blocks + 1
  /\ Overtake(asked[c].kind, asked[c].id, IF IsMutation(asked[c]) THEN {} ELSE {WriteTenant(c)}, Editor \ {c})
  /\ Goto(c, "idle", None)
  /\ UNCHANGED <<now, requests>>

\* The statement is refused or lost.
ExecFailed(c) ==
  /\ stage[c] = "exec"
  /\ Goto(c, "idle", None)
  /\ UNCHANGED <<rows, mutations, blocks, now, overtaken, requests>>

-----------------------------------------------------------------------------
\* ClickHouse applies the oldest mutation of a table to the rows older than it.
Hits(m, r) == r.kind = m.kind /\ r.id = m.id /\ r.tenant \in m.tenants /\ r.block < m.block

Apply(m) ==
  /\ \A n \in mutations : n.kind = m.kind => m.block <= n.block
  /\ mutations' = mutations \ {m}
  /\ rows' = {r \in rows : ~Hits(m, r)} \cup
             (IF m.op = "delete" THEN {} ELSE {[r EXCEPT !.def = m.def] : r \in {s \in rows : Hits(m, s)}})
  /\ Overtake(m.kind, m.id, m.tenants, Editor)
  /\ UNCHANGED <<blocks, now, stage, asked, found, stamp, requests>>

TimePasses ==
  /\ now < MaxTime
  /\ now' = now + 1
  /\ UNCHANGED <<rows, mutations, blocks, stage, asked, found, stamp, overtaken, requests>>

RuleNext ==
  \/ \E c \in Editor, q \in Request : Ask(c, q)
  \/ \E c \in Editor : Read(c) \/ ReadFailed(c) \/ Stamp(c) \/ Exec(c) \/ ExecFailed(c)
  \/ \E m \in mutations : Apply(m)
  \/ TimePasses

RuleSpec == RuleInit /\ [][RuleNext]_ruleVars

-----------------------------------------------------------------------------
(* Properties. *)

\* ACTION PROPERTY.  A write of an alert or a check that nothing overtook is the one
\* row every read finds of it from then on, although versions are times, taken before
\* the insert for checks and with ties within a millisecond; an update of a check
\* without a URL leaves the URL as it was (persistAlert, persistSynthetic).  The rule
\* is the one the request read, in that rule's tenant.
UnovertakenWriteShows ==
  [][\A c \in Editor :
       Exec(c) /\ ~IsMutation(asked[c]) /\ asked[c].kind # "slo" /\ ~overtaken[c] =>
         \A q \in {asked[c]}, t \in {WriteTenant(c)} :
           /\ Cardinality(RuleOf(q.kind, t, q.id)') = 1
           /\ \A r \in RuleOf(q.kind, t, q.id)' :
                r.def = q.def \/ (q.def = Blank /\ \E s \in RuleOf(q.kind, t, q.id) : r.def = s.def)]_ruleVars

\* ACTION PROPERTY.  An update of a check does not bring back a check that was
\* deleted, unless the deletion was applied while the update was on its way
\* ("check not found", ServeSyntheticsSubpath); a request that sees several tenants
\* updates the check it found, and where it found it.
ChecksReturnOnlyByRace ==
  [][\A c \in Editor :
       Exec(c) /\ asked[c].kind = "check" /\ asked[c].op = "update" /\ ~overtaken[c] => Target(c) # {}]_ruleVars

UpdatesWhatItSaw(c, k, t, i) ==
  asked[c].op = "update" /\ t \in asked[c].ctx.scope /\ (RuleOf(k, t, i) # {} \/ overtaken[c])

\* ACTION PROPERTY.  What a tenant's alerts and checks say changes by a request of
\* that tenant, or by an update that sees the tenant, and this one changes a rule it
\* found there and adds none, unless a statement overtook it (the handlers keep the
\* tenant of the rule they read).  No rule of any kind is deleted by another tenant's
\* request, whatever that sees ("cross-tenant deletes cannot target another org's row
\* by id alone", docs/security.md).  Updates of SLOs are left out: they name no tenant.
TenantsApart ==
  [][\A t \in Tenant, k \in Kind, i \in Id :
       LET before == {r.def : r \in RuleOf(k, t, i)}
           after  == {r.def : r \in RuleOf(k, t, i)'}
       IN before # after =>
            \/ \E c \in Editor : Exec(c) /\ (asked[c].ctx.tenant = t \/ UpdatesWhatItSaw(c, k, t, i))
            \/ \E m \in mutations : Apply(m) /\ (m.op = "update" \/ m.by = t)]_ruleVars

-----------------------------------------------------------------------------
(* What makes them inductive. *)

RuleRow ==
  [kind : Kind, tenant : Tenant, id : Id, def : Definition, version : Nat, block : Nat]
Mutation ==
  [kind : Kind, op : {"update", "delete"}, id : Id, def : Definition \cup {Blank}, block : Nat,
   by : Tenant, tenants : SUBSET Tenant]

RuleTypeOK ==
  /\ rows \subseteq RuleRow /\ mutations \subseteq Mutation
  /\ blocks \in Nat /\ now \in Nat /\ requests \in Nat
  /\ stage \in [Editor -> {"idle", "read", "stamp", "exec"}]
  /\ asked \in [Editor -> Request \cup {None}]
  /\ found \in [Editor -> RuleRow \cup {None}]
  /\ stamp \in [Editor -> Nat]
  /\ overtaken \in [Editor -> BOOLEAN]

\* A goroutine that is busy has a request, a create reads nothing, only an insert of a
\* check is stamped, and nothing is found before it is read.
Busy ==
  \A c \in Editor :
    /\ stage[c] # "idle" => asked[c] # None
    /\ stage[c] \in {"idle", "read"} => found[c] = None
    /\ stage[c] = "read" => asked[c].op # "create"
    /\ stage[c] = "stamp" => asked[c].kind = "check" /\ asked[c].op # "delete"

\* No row is of the future, in time or in ClickHouse's count.
RowsPast == \A r \in rows : r.version <= now /\ r.block <= blocks

\* What a goroutine found is the rule it was asked about in a tenant it sees, and until
\* something overtakes it what everybody would read there; an update of a check goes on
\* only with the check it read.
HoldsRule(c) ==
  /\ found[c] # None =>
       /\ found[c].kind = asked[c].kind /\ found[c].id = asked[c].id /\ found[c].tenant \in asked[c].ctx.scope
       /\ asked[c].op # "create"
       /\ ~overtaken[c] => found[c] \in Target(c)
  /\ asked[c].kind = "check" /\ asked[c].op = "update" => found[c] # None
RulesHeld == \A c \in Editor : stage[c] \in {"stamp", "exec"} => HoldsRule(c)

\* An insert of a check about to be sent is newer than every row of its rule, unless
\* another one went in since it was stamped.
Newest(c) ==
  /\ stamp[c] <= now
  /\ ~overtaken[c] =>
       \A r \in rows : r.kind = "check" /\ r.tenant = WriteTenant(c) /\ r.id = asked[c].id =>
                         r.version <= stamp[c]
StampsNewest ==
  \A c \in Editor : stage[c] = "exec" /\ asked[c].kind = "check" /\ asked[c].op # "delete" => Newest(c)

\* A deletion hits the tenant it is by, an update says something.
MutationsSound ==
  \A m \in mutations : IF m.op = "delete" THEN m.tenants = {m.by} ELSE m.def \in Definition

RuleInv == RuleTypeOK /\ Busy /\ RowsPast /\ RulesHeld /\ StampsNewest /\ MutationsSound
=============================================================================
