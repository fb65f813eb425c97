---------------------------- MODULE AgentRegistry ---------------------------
(***************************************************************************)
(* internal/registry: the in-memory registry of edge agents.               *)
(*                                                                         *)
(* Registry.Register reads the clock first and takes the mutex afterwards, *)
(* so a registration is two steps (Enrol, Register) between which other    *)
(* requests run.  Heartbeat and MarkPush read the clock inside the         *)
(* critical section and are one step each.  Hostname, version and labels   *)
(* are left out: they are stored and returned, never tested.  The stored   *)
(* Status is left out because every read recomputes it (StatusOf).         *)
(***************************************************************************)
EXTENDS Integers, FiniteSets, AgentScope

CONSTANTS
  Caller,       \* request goroutines that may be inside Register
  ChosenId,     \* ids edge agents choose for themselves
  GeneratedId,  \* ids newAgentID can produce
  Name,         \* organization and project names
  Tenant,       \* [org, project] pairs sent on enrolment, either may be blank
  StaleAfter,   \* OPA_HUB_AGENT_STALE_AFTER
  Context,      \* tenant contexts of the requests that read the registry
  LockWait,     \* longest wait for the registry mutex
  MaxTime,      \* bound on the clock
  MaxPushes     \* bound on an agent's push count

AgentId == ChosenId \cup GeneratedId
Blank == Empty      \* an agent_id that is empty once trimmed

ASSUME RegistryAssumption ==
  /\ StaleAfter \in Nat /\ LockWait \in Nat /\ MaxTime \in Nat /\ MaxPushes \in Nat
  /\ Blank \notin AgentId
  /\ {DefaultOrg, DefaultProject} \subseteq Name
  /\ \A t \in Tenant : {t.org, t.project} \subseteq Name \cup {Empty}

\* With auth enforced opentenant scopes every request to an organization.
ASSUME ContextAssumption == \A x \in Context : x.auth => x.orgScoped

VARIABLES
  now,     \* the monotonic clock behind time.Now and time.Since
  agents,  \* Registry.agents, a function on the ids it holds
  enrol    \* per goroutine: the Register call waiting for the mutex

vars == <<now, agents, enrol>>

-----------------------------------------------------------------------------
Never == -1         \* the nil LastPushAt

Agent == [org : Name, project : Name, registeredAt : Nat, lastSeenAt : Nat,
          lastPushAt : Nat \cup {Never}, pushCount : Nat]

\* The locals of Register: the trimmed or generated id, the defaulted tenant,
\* and the time read before the lock.
Pending == [id : AgentId, org : Name, project : Name, stamp : Nat]
NoCall == [id |-> Blank, org |-> Empty, project |-> Empty, stamp |-> 0]

\* An id as it arrives on the wire: possibly blank, possibly padded with spaces.
WireId == [name : AgentId \cup {Blank}, padded : BOOLEAN]

\* Map lookup with the id as it arrived: every key was trimmed when it was stored.
Known(w) == ~w.padded /\ w.name \in DOMAIN agents

Put(i, a) == [j \in DOMAIN agents \cup {i} |-> IF j = i THEN a ELSE agents[j]]

TypeOK ==
  /\ now \in Nat
  /\ DOMAIN agents \subseteq AgentId
  /\ agents \in [DOMAIN agents -> Agent]
  /\ enrol \in [Caller -> Pending \cup {NoCall}]

Init ==
  /\ now = 0
  /\ agents = [i \in {} |-> NoCall]
  /\ enrol = [c \in Caller |-> NoCall]

-----------------------------------------------------------------------------
\* An id nobody else can be using: 64 random bits.
Fresh(i) ==
  /\ i \in GeneratedId \ DOMAIN agents
  /\ \A c \in Caller : enrol[c].id # i

\* Register up to the mutex: read the clock, trim the id or generate one,
\* default the organization and the project.
Enrol(c, w, t) ==
  /\ enrol[c] = NoCall
  /\ \E i \in AgentId :
       /\ IF w.name = Blank THEN Fresh(i) ELSE i = w.name
       /\ enrol' = [enrol EXCEPT ![c] =
            [id |-> i,
             org |-> IF t.org = Empty THEN DefaultOrg ELSE t.org,
             project |-> IF t.project = Empty THEN DefaultProject ELSE t.project,
             stamp |-> now]]
  /\ UNCHANGED <<now, agents>>

\* Mutants: re-registration does not refresh; starts over.
RefreshedUnseen(a, p) ==
  [org |-> p.org, project |-> p.project, registeredAt |-> a.registeredAt, lastSeenAt |-> a.lastSeenAt,
   lastPushAt |-> a.lastPushAt, pushCount |-> a.pushCount]
RefreshedAnew(a, p) ==
  [org |-> p.org, project |-> p.project, registeredAt |-> p.stamp, lastSeenAt |-> p.stamp,
   lastPushAt |-> Never, pushCount |-> 0]

\* The record of a known agent after a refresh, and of a new one.
Refreshed(a, p) ==
  [org |-> p.org, project |-> p.project, registeredAt |-> a.registeredAt, lastSeenAt |-> p.stamp,
   lastPushAt |-> a.lastPushAt, pushCount |-> a.pushCount]
Created(p) ==
  [org |-> p.org, project |-> p.project, registeredAt |-> p.stamp, lastSeenAt |-> p.stamp,
   lastPushAt |-> Never, pushCount |-> 0]

\* Register's critical section, using the time read by Enrol.
Register(c) ==
  /\ enrol[c] # NoCall
  /\ LET p == enrol[c]
     IN agents' = Put(p.id, IF p.id \in DOMAIN agents THEN Refreshed(agents[p.id], p) ELSE Created(p))
  /\ enrol' = [enrol EXCEPT ![c] = NoCall]
  /\ UNCHANGED now

SeenNow(a) ==
  [org |-> a.org, project |-> a.project, registeredAt |-> a.registeredAt, lastSeenAt |-> now,
   lastPushAt |-> a.lastPushAt, pushCount |-> a.pushCount]

\* Heartbeat of a known agent; an unknown one gets 404 and changes nothing.
Heartbeat(w) ==
  /\ Known(w)
  /\ agents' = Put(w.name, SeenNow(agents[w.name]))
  /\ UNCHANGED <<now, enrol>>

\* Mutant: a push is not a sign of life.
PushedUnseen(a) ==
  [org |-> a.org, project |-> a.project, registeredAt |-> a.registeredAt, lastSeenAt |-> a.lastSeenAt,
   lastPushAt |-> now, pushCount |-> a.pushCount + 1]

PushedNow(a) ==
  [org |-> a.org, project |-> a.project, registeredAt |-> a.registeredAt, lastSeenAt |-> now,
   lastPushAt |-> now, pushCount |-> a.pushCount + 1]

\* MarkPush of a known agent; an unknown one is ignored.
MarkPush(w) ==
  /\ Known(w)
  /\ agents[w.name].pushCount < MaxPushes
  /\ agents' = Put(w.name, PushedNow(agents[w.name]))
  /\ UNCHANGED <<now, enrol>>

\* Time passes; no goroutine has been waiting for the mutex for LockWait already.
Tick ==
  /\ now < MaxTime
  /\ \A c \in Caller : enrol[c] # NoCall => now - enrol[c].stamp < LockWait
  /\ now' = now + 1
  /\ UNCHANGED <<agents, enrol>>

\* The hub restarts: the registry and the requests in progress are gone.
Restart ==
  /\ agents' = [i \in {} |-> NoCall]
  /\ enrol' = [c \in Caller |-> NoCall]
  /\ UNCHANGED now

Next ==
  \/ \E c \in Caller, w \in WireId, t \in Tenant : Enrol(c, w, t)
  \/ \E c \in Caller : Register(c)
  \/ \E w \in WireId : Heartbeat(w) \/ MarkPush(w)
  \/ Tick
  \/ Restart

Spec == Init /\ [][Next]_vars

-----------------------------------------------------------------------------
\* Registry.statusOf, recomputed on every read.
StatusOf(a) == IF now - a.lastSeenAt > StaleAfter THEN "stale" ELSE "online"

(* Properties. *)

\* SAFETY.  An agent that pushed recently is listed as online: Register can set
\* LastSeenAt back to a time read before the push, but by no more than LockWait
\* (Register's early time.Now against MarkPush and statusOf).
PushKeepsOnline ==
  \A i \in DOMAIN agents :
    agents[i].lastPushAt # Never /\ now - agents[i].lastPushAt + LockWait <= StaleAfter
      => StatusOf(agents[i]) = "online"

\* ACTION PROPERTY.  Whatever request touches an agent, the agent was seen less
\* than a lock wait ago afterwards: no registration, however late it gets the
\* mutex, makes a live agent look older than that.
ContactRefreshes ==
  [][\A i \in DOMAIN agents \cap DOMAIN agents' :
       agents'[i] # agents[i] => now - agents'[i].lastSeenAt <= LockWait]_vars

\* ACTION PROPERTY.  Until the process restarts an agent is never forgotten, and
\* re-registering, under any tenant, never rewrites its history: registration
\* time, push count and last push survive, and the last two only move forward.
HistoryKept ==
  [][Restart \/ \A i \in DOMAIN agents :
       /\ i \in DOMAIN agents'
       /\ agents'[i].registeredAt = agents[i].registeredAt
       /\ agents'[i].pushCount \in {agents[i].pushCount, agents[i].pushCount + 1}
       /\ agents'[i].lastPushAt >= agents[i].lastPushAt]_vars

\* SAFETY.  The times of a record agree with each other whatever the order in
\* which concurrent registrations and pushes got the mutex: nothing lies in the
\* future, and neither the registration nor the last push is later than the last
\* sign of life by more than a lock wait.  An agent has a last push exactly when
\* it has a push count.
TimesCoherent ==
  \A i \in DOMAIN agents :
    LET a == agents[i] IN
    /\ a.lastSeenAt <= now /\ a.registeredAt <= now /\ a.lastPushAt <= now
    /\ a.registeredAt - a.lastSeenAt <= LockWait
    /\ a.lastPushAt - a.lastSeenAt <= LockWait
    /\ a.lastPushAt = Never <=> a.pushCount = 0

\* SAFETY.  The list and the detail page agree: a request finds exactly the agents
\* it lists, but for ids that are also route names (ListScoped, ServeGet and
\* agentInScope, which repeat the tenant test in different forms).
ListGetAgree ==
  \A x \in Context, i \in DOMAIN agents \ ReservedIds :
    i \in ListScoped(agents, x) <=> Found(agents, i, x)

\* SAFETY.  With auth enforced no request lists an agent of an organization other
\* than the one it names, whichever project headers it carries, and a request
\* that names none lists nothing (the fail-closed branches of ListScoped).
NoCrossTenant ==
  \A x \in Context : x.auth =>
    \A i \in ListScoped(agents, x) : OrgOf(agents[i]) = x.org /\ x.org \notin {Empty, All}

\* SAFETY.  The organization picker and the agent list count alike: with auth off,
\* the agents listed for an organization, all projects, are as many as the picker
\* reports, and no listed agent belongs to an organization the picker omits.  The
\* picker trims the stored organization and the list does not, so this is promised
\* only while no agent has enrolled under a padded name.
PickerCountsListed ==
  (\A i \in DOMAIN agents : Trim(agents[i].org) = agents[i].org) => \A x \in Context : ~x.auth /\ x.orgScoped /\ ~x.projectScoped /\ AllowSet(x.ids) = {} =>
    \/ ListScoped(agents, x) = {} /\ \A o \in OrganizationsOf(agents) : o.id # x.org
    \/ \E o \in OrganizationsOf(agents) :
         o.id = x.org /\ o.agentCount = Cardinality(ListScoped(agents, x))

\* The part about requests that makes TimesCoherent inductive: a registration
\* waiting for the mutex carries a time at most LockWait old.
StampsRecent ==
  \A c \in Caller : enrol[c] # NoCall => enrol[c].stamp <= now /\ now - enrol[c].stamp <= LockWait

IInv == TypeOK /\ StampsRecent /\ TimesCoherent
=============================================================================
