-------------------------- MODULE EdgeIngestProofs --------------------------
(***************************************************************************)
(* Proofs about the agent registry and the push path composed with it, for *)
(* every set of agents, tenants and goroutines, every choice of the        *)
(* durations and every width of the counters.  The registry comes first,   *)
(* by itself.  Then: every behaviour of the composition is, seen from the  *)
(* registry, a behaviour of the registry; and the two places that account  *)
(* for a push agree.                                                       *)
(***************************************************************************)
EXTENDS EdgeIngest, FiniteSetTheorems, TLAPS

-----------------------------------------------------------------------------
(* AgentRegistry. *)

\* No pending call has the blank id of NoCall.
LEMMA NoCallIsNotPending == NoCall \notin Pending
BY RegistryAssumption DEF NoCall, Pending, Blank

\* Put adds or replaces one agent and leaves the others alone.
LEMMA PutOne ==
  ASSUME NEW i \in AgentId, NEW a \in Agent,
         DOMAIN agents \subseteq AgentId, agents \in [DOMAIN agents -> Agent]
  PROVE  /\ DOMAIN Put(i, a) = DOMAIN agents \cup {i}
         /\ DOMAIN Put(i, a) \subseteq AgentId
         /\ Put(i, a) \in [DOMAIN Put(i, a) -> Agent]
         /\ Put(i, a)[i] = a
         /\ \A j \in DOMAIN agents \ {i} : Put(i, a)[j] = agents[j]
BY DEF Put

\* What one record must satisfy: the body of TimesCoherent.
Coherent(a) ==
  /\ a.lastSeenAt <= now /\ a.registeredAt <= now /\ a.lastPushAt <= now
  /\ a.registeredAt - a.lastSeenAt <= LockWait
  /\ a.lastPushAt - a.lastSeenAt <= LockWait
  /\ a.lastPushAt = Never <=> a.pushCount = 0

LEMMA InitIInv == Init => IInv
BY DEF Init, IInv, TypeOK, StampsRecent, TimesCoherent

\* Writing one coherent record preserves the invariant of the registry.
LEMMA WriteOne ==
  ASSUME IInv, NEW i \in AgentId, NEW a \in Agent, Coherent(a),
         agents' = Put(i, a), now' = now,
         enrol' \in [Caller -> Pending \cup {NoCall}],
         \A c \in Caller : enrol'[c] = enrol[c] \/ enrol'[c] = NoCall
  PROVE  IInv'
<1>1. TypeOK'
  BY PutOne DEF IInv, TypeOK
<1>2. StampsRecent'
  BY DEF IInv, StampsRecent
<1>3. TimesCoherent'
  <2>1. ASSUME NEW j \in DOMAIN agents'
        PROVE  Coherent(agents'[j])
    <3>1. CASE j = i
      BY <3>1 DEF Put, Coherent
    <3>2. CASE j # i
      BY <3>2 DEF Put, IInv, TimesCoherent, Coherent
    <3> QED
      BY <3>1, <3>2
  <2> QED
    BY <2>1 DEF TimesCoherent, Coherent
<1> QED
  BY <1>1, <1>2, <1>3 DEF IInv

\* What Register writes: a coherent record, seen at most a lock wait ago.
LEMMA RegisterWrites ==
  ASSUME IInv, NEW c \in Caller, Register(c)
  PROVE  \E i \in AgentId, a \in Agent :
           /\ agents' = Put(i, a) /\ Coherent(a) /\ now - a.lastSeenAt <= LockWait
           /\ i \in DOMAIN agents =>
                a.registeredAt = agents[i].registeredAt /\ a.pushCount = agents[i].pushCount
                /\ a.lastPushAt = agents[i].lastPushAt
           /\ i \notin DOMAIN agents => a.pushCount = 0
<1> DEFINE p == enrol[c]
<1>1. p \in Pending /\ p.stamp <= now /\ now - p.stamp <= LockWait
  BY DEF Register, IInv, TypeOK, StampsRecent
<1>2. p.id \in AgentId /\ p.stamp \in Nat /\ now \in Nat /\ LockWait \in Nat
  BY <1>1, RegistryAssumption DEF Pending, IInv, TypeOK
<1>3. CASE p.id \in DOMAIN agents
  <2>1. agents[p.id] \in Agent /\ Coherent(agents[p.id])
    BY <1>3 DEF IInv, TypeOK, TimesCoherent, Coherent
  <2>2. Refreshed(agents[p.id], p) \in Agent
    BY <1>1, <2>1 DEF Refreshed, Agent, Pending
  <2>3. Coherent(Refreshed(agents[p.id], p)) /\ now - Refreshed(agents[p.id], p).lastSeenAt <= LockWait
    BY <1>1, <1>2, <2>1 DEF Refreshed, Coherent, Agent, Never
  <2>4. agents' = Put(p.id, Refreshed(agents[p.id], p))
    BY <1>3 DEF Register
  <2> QED
    BY <1>2, <1>3, <2>2, <2>3, <2>4 DEF Refreshed
<1>4. CASE p.id \notin DOMAIN agents
  <2>1. Created(p) \in Agent
    BY <1>1 DEF Created, Agent, Pending
  <2>2. Coherent(Created(p)) /\ now - Created(p).lastSeenAt <= LockWait
    BY <1>1, <1>2 DEF Created, Coherent, Never
  <2>3. agents' = Put(p.id, Created(p))
    BY <1>4 DEF Register
  <2> QED
    BY <1>2, <1>4, <2>1, <2>2, <2>3 DEF Created
<1> QED
  BY <1>3, <1>4

\* What a heartbeat and a push write: the known agent, seen now.
LEMMA ContactWrites ==
  ASSUME IInv, NEW w \in WireId, Heartbeat(w) \/ MarkPush(w)
  PROVE  \E i \in DOMAIN agents, a \in Agent :
           /\ agents' = Put(i, a) /\ Coherent(a) /\ a.lastSeenAt = now
           /\ a.registeredAt = agents[i].registeredAt
           /\ a.pushCount \in {agents[i].pushCount, agents[i].pushCount + 1}
           /\ a.lastPushAt >= agents[i].lastPushAt
<1> DEFINE i == w.name
           b == agents[i]
<1>1. i \in DOMAIN agents /\ b \in Agent /\ Coherent(b)
  BY DEF Heartbeat, MarkPush, Known, IInv, TypeOK, TimesCoherent, Coherent
<1>2. now \in Nat /\ LockWait \in Nat
  BY RegistryAssumption DEF IInv, TypeOK
<1>3. CASE Heartbeat(w)
  <2>1. SeenNow(b) \in Agent
    BY <1>1, <1>2 DEF SeenNow, Agent
  <2>2. Coherent(SeenNow(b)) /\ SeenNow(b).lastPushAt >= b.lastPushAt
    BY <1>1, <1>2 DEF SeenNow, Coherent, Agent, Never
  <2> QED
    BY <1>1, <1>3, <2>1, <2>2 DEF Heartbeat, SeenNow
<1>4. CASE MarkPush(w)
  <2>1. PushedNow(b) \in Agent
    BY <1>1, <1>2 DEF PushedNow, Agent
  <2>2. Coherent(PushedNow(b)) /\ PushedNow(b).lastPushAt >= b.lastPushAt
    BY <1>1, <1>2 DEF PushedNow, Coherent, Agent, Never
  <2> QED
    BY <1>1, <1>4, <2>1, <2>2 DEF MarkPush, PushedNow
<1> QED
  BY <1>3, <1>4

LEMMA NextIInv == IInv /\ [Next]_vars => IInv'
<1> SUFFICES ASSUME IInv, [Next]_vars
             PROVE  IInv'
  OBVIOUS
<1>1. ASSUME NEW c \in Caller, NEW w \in WireId, NEW t \in Tenant, Enrol(c, w, t)
      PROVE  IInv'
  <2>1. PICK i \in AgentId :
          enrol' = [enrol EXCEPT ![c] =
            [id |-> i,
             org |-> IF t.org = Empty THEN DefaultOrg ELSE t.org,
             project |-> IF t.project = Empty THEN DefaultProject ELSE t.project,
             stamp |-> now]]
    BY <1>1 DEF Enrol
  <2>2. TypeOK'
    BY <1>1, <2>1, RegistryAssumption DEF Enrol, IInv, TypeOK, Pending
  <2>3. StampsRecent'
    BY <1>1, <2>1, RegistryAssumption DEF Enrol, IInv, TypeOK, StampsRecent
  <2>4. TimesCoherent'
    BY <1>1 DEF Enrol, IInv, TimesCoherent
  <2> QED
    BY <2>2, <2>3, <2>4 DEF IInv
<1>2. ASSUME NEW c \in Caller, Register(c)
      PROVE  IInv'
  <2>1. PICK i \in AgentId, a \in Agent : agents' = Put(i, a) /\ Coherent(a)
    BY <1>2, RegisterWrites
  <2>2. /\ enrol' \in [Caller -> Pending \cup {NoCall}] /\ now' = now
        /\ \A d \in Caller : enrol'[d] = enrol[d] \/ enrol'[d] = NoCall
    BY <1>2 DEF Register, IInv, TypeOK
  <2> QED
    BY <2>1, <2>2, WriteOne
<1>3. ASSUME NEW w \in WireId, Heartbeat(w) \/ MarkPush(w)
      PROVE  IInv'
  <2>1. PICK i \in DOMAIN agents, a \in Agent : agents' = Put(i, a) /\ Coherent(a)
    BY <1>3, ContactWrites
  <2>2. i \in AgentId /\ now' = now /\ enrol' = enrol
    BY <1>3 DEF Heartbeat, MarkPush, IInv, TypeOK
  <2>3. /\ enrol' \in [Caller -> Pending \cup {NoCall}]
        /\ \A d \in Caller : enrol'[d] = enrol[d] \/ enrol'[d] = NoCall
    BY <2>2 DEF IInv, TypeOK
  <2> QED
    BY <2>1, <2>2, <2>3, WriteOne
<1>4. CASE Tick
  <2>1. TypeOK'
    BY <1>4 DEF Tick, IInv, TypeOK
  <2>2. StampsRecent'
    BY <1>4, NoCallIsNotPending, RegistryAssumption DEF Tick, IInv, TypeOK, StampsRecent, Pending
  <2>3. TimesCoherent'
    BY <1>4, RegistryAssumption DEF Tick, IInv, TypeOK, TimesCoherent, Agent, Never
  <2> QED
    BY <2>1, <2>2, <2>3 DEF IInv
<1>5. CASE Restart
  BY <1>5 DEF Restart, IInv, TypeOK, StampsRecent, TimesCoherent
<1>6. CASE UNCHANGED vars
  BY <1>6 DEF vars, IInv, TypeOK, StampsRecent, TimesCoherent
<1> QED
  BY <1>1, <1>2, <1>3, <1>4, <1>5, <1>6 DEF Next

\* The invariant of the registry.
THEOREM Invariance == Spec => []IInv
BY InitIInv, NextIInv, PTL DEF Spec

\* Every variable keeps its type, and in particular every key of the map was
\* trimmed before it was stored.
THEOREM TypeCorrect == Spec => []TypeOK
BY Invariance, PTL DEF IInv

\* The times of every record agree, in every interleaving.
THEOREM Coherence == Spec => []TimesCoherent
BY Invariance, PTL DEF IInv

\* An agent that pushed within StaleAfter, less a lock wait, is never listed stale.
THEOREM RecentPushIsOnline == Spec => []PushKeepsOnline
<1>1. IInv => PushKeepsOnline
  BY RegistryAssumption DEF IInv, TypeOK, TimesCoherent, PushKeepsOnline, StatusOf, Agent, Never
<1> QED
  BY <1>1, Invariance, PTL

\* Contact with the hub always leaves the agent seen at most a lock wait ago.
THEOREM ContactIsRecent == Spec => ContactRefreshes
<1>1. IInv /\ [Next]_vars =>
        [\A i \in DOMAIN agents \cap DOMAIN agents' :
           agents'[i] # agents[i] => now - agents'[i].lastSeenAt <= LockWait]_vars
  <2> SUFFICES ASSUME IInv, Next, NEW i \in DOMAIN agents \cap DOMAIN agents', agents'[i] # agents[i]
               PROVE  now - agents'[i].lastSeenAt <= LockWait
    BY DEF vars
  <2>1. ASSUME NEW c \in Caller, Register(c)
        PROVE  now - agents'[i].lastSeenAt <= LockWait
    <3>1. PICK j \in AgentId, a \in Agent : agents' = Put(j, a) /\ now - a.lastSeenAt <= LockWait
      BY <2>1, RegisterWrites
    <3>2. agents'[i] = a
      BY <3>1 DEF Put
    <3> QED
      BY <3>1, <3>2
  <2>2. ASSUME NEW w \in WireId, Heartbeat(w) \/ MarkPush(w)
        PROVE  now - agents'[i].lastSeenAt <= LockWait
    <3>1. PICK j \in DOMAIN agents, a \in Agent : agents' = Put(j, a) /\ a.lastSeenAt = now
      BY <2>2, ContactWrites
    <3>2. agents'[i] = a
      BY <3>1 DEF Put
    <3> QED
      BY <3>1, <3>2, RegistryAssumption DEF IInv, TypeOK
  <2>3. ASSUME Tick \/ \E c \in Caller, w \in WireId, t \in Tenant : Enrol(c, w, t)
        PROVE  FALSE
    BY <2>3 DEF Tick, Enrol
  <2>4. ASSUME Restart
        PROVE  FALSE
    BY <2>4 DEF Restart
  <2> QED
    BY <2>1, <2>2, <2>3, <2>4 DEF Next
<1> QED
  BY <1>1, Invariance, PTL DEF Spec, ContactRefreshes

\* Nothing but a restart forgets an agent or rewrites its history.
THEOREM HistoryIsKept == Spec => HistoryKept
<1> DEFINE Kept(i) == /\ i \in DOMAIN agents'
                      /\ agents'[i].registeredAt = agents[i].registeredAt
                      /\ agents'[i].pushCount \in {agents[i].pushCount, agents[i].pushCount + 1}
                      /\ agents'[i].lastPushAt >= agents[i].lastPushAt
<1>1. IInv /\ [Next]_vars => [Restart \/ \A i \in DOMAIN agents : Kept(i)]_vars
  <2> SUFFICES ASSUME IInv, Next, ~Restart, NEW i \in DOMAIN agents
               PROVE  Kept(i)
    BY DEF vars
  <2>1. agents[i] \in Agent /\ agents[i].lastPushAt >= agents[i].lastPushAt
    BY DEF IInv, TypeOK, Agent, Never
  <2>2. ASSUME NEW c \in Caller, Register(c)
        PROVE  Kept(i)
    <3>1. PICK j \in AgentId, a \in Agent :
            /\ agents' = Put(j, a)
            /\ j \in DOMAIN agents =>
                 a.registeredAt = agents[j].registeredAt /\ a.pushCount = agents[j].pushCount
                 /\ a.lastPushAt = agents[j].lastPushAt
      BY <2>2, RegisterWrites
    <3> QED
      BY <2>1, <3>1 DEF Put
  <2>3. ASSUME NEW w \in WireId, Heartbeat(w) \/ MarkPush(w)
        PROVE  Kept(i)
    <3>1. PICK j \in DOMAIN agents, a \in Agent :
            /\ agents' = Put(j, a)
            /\ a.registeredAt = agents[j].registeredAt
            /\ a.pushCount \in {agents[j].pushCount, agents[j].pushCount + 1}
            /\ a.lastPushAt >= agents[j].lastPushAt
      BY <2>3, ContactWrites
    <3> QED
      BY <2>1, <3>1 DEF Put
  <2>4. ASSUME Tick \/ \E c \in Caller, w \in WireId, t \in Tenant : Enrol(c, w, t)
        PROVE  Kept(i)
    BY <2>1, <2>4 DEF Tick, Enrol
  <2> QED
    BY <2>2, <2>3, <2>4 DEF Next
<1> QED
  BY <1>1, Invariance, PTL DEF Spec, HistoryKept

\* The agent list and the agent page apply the same tenant test, for every request
\* context whatsoever.
THEOREM ListMatchesGet == Spec => []ListGetAgree
<1>1. ListGetAgree
  <2> SUFFICES ASSUME NEW x \in Context, NEW i \in DOMAIN agents \ ReservedIds
               PROVE  i \in ListScoped(agents, x) <=> Found(agents, i, x)
    BY DEF ListGetAgree
  <2> QED
    BY DEF ListScoped, Found, InScope
<1> QED
  BY <1>1, PTL

\* No request lists another organization's agents while auth is enforced.
THEOREM TenantIsolation == Spec => []NoCrossTenant
<1>1. NoCrossTenant
  <2> SUFFICES ASSUME NEW x \in Context, x.auth, NEW i \in ListScoped(agents, x)
               PROVE  OrgOf(agents[i]) = x.org /\ x.org \notin {Empty, All}
    BY DEF NoCrossTenant
  <2>1. x.orgScoped
    BY ContextAssumption, Zenon
  <2>2. ~Unscoped(x)
    BY <2>1 DEF Unscoped
  <2>3. ~NoTenant(x)
    BY <2>2 DEF ListScoped
  <2>4. OrgOf(agents[i]) = x.org
    BY <2>1, <2>2, <2>3 DEF ListScoped
  <2> QED
    BY <2>3, <2>4 DEF NoTenant
<1> QED
  BY <1>1, PTL

\* The picker counts for an organization the agents its list shows (OrganizationsOf and
\* ListScoped), as long as no agent's organization has blanks around it.
THEOREM PickerMatchesList == Spec => []PickerCountsListed
<1>1. PickerCountsListed
  <2> SUFFICES ASSUME \A i \in DOMAIN agents : Trim(agents[i].org) = agents[i].org,
                      NEW x \in Context, ~x.auth, x.orgScoped, ~x.projectScoped, AllowSet(x.ids) = {}
               PROVE  \/ ListScoped(agents, x) = {} /\ \A o \in OrganizationsOf(agents) : o.id # x.org
                      \/ \E o \in OrganizationsOf(agents) :
                           o.id = x.org /\ o.agentCount = Cardinality(ListScoped(agents, x))
    BY DEF PickerCountsListed
  <2>1. ~Unscoped(x) /\ ~NoTenant(x)
    BY DEF Unscoped, NoTenant
  <2>2. \A i \in DOMAIN agents : PickerOrg(agents[i]) = OrgOf(agents[i])
    BY DEF PickerOrg, OrgOf
  <2>3. ListScoped(agents, x) = {i \in DOMAIN agents : OrgOf(agents[i]) = x.org}
    BY <2>1 DEF ListScoped
  <2>4. MembersOf(agents, x.org) = ListScoped(agents, x)
    BY <2>2, <2>3 DEF MembersOf
  <2>5. CASE ListScoped(agents, x) = {}
    <3>1. \A i \in DOMAIN agents : PickerOrg(agents[i]) # x.org
      BY <2>4, <2>5 DEF MembersOf
    <3> QED
      BY <2>5, <3>1 DEF OrganizationsOf
  <2>6. CASE ListScoped(agents, x) # {}
    <3>1. x.org \in {PickerOrg(agents[i]) : i \in DOMAIN agents}
      BY <2>4, <2>6 DEF MembersOf
    <3> DEFINE o == [id |-> x.org, agentCount |-> Cardinality(MembersOf(agents, x.org)), source |-> "agent_registry"]
    <3>2. o \in OrganizationsOf(agents)
      BY <3>1 DEF OrganizationsOf
    <3>3. o.id = x.org /\ o.agentCount = Cardinality(ListScoped(agents, x))
      BY <2>4
    <3> QED
      BY <3>2, <3>3
  <2> QED
    BY <2>5, <2>6
<1> QED
  BY <1>1, PTL

-----------------------------------------------------------------------------
(* EdgeIngest. *)

\* A goroutine at one of the steps of ServePush is serving a push.
LEMMA AtStepIsPush ==
  ASSUME PushTyped, NEW c \in Caller, push[c].next \in Step
  PROVE  push[c] \in Push
BY DEF PushTyped, NoPush, Step

\* EventsIn always yields an integer.
LEMMA EventsInIsInt ==
  ASSUME NEW n \in EventCount, NEW e \in Events
  PROVE  EventsIn(n, e) \in Int
BY IngestAssumption DEF EventsIn, EventsField

\* Moving a push on keeps its payload.
LEMMA AdvanceTyped ==
  ASSUME PushTyped, NEW c \in Caller, NEW step \in Step, push[c].next \in Step, Advance(c, step)
  PROVE  PushTyped'
<1>1. push[c] \in Push
  BY AtStepIsPush
<1>2. [next |-> step, agent |-> push[c].agent, n |-> push[c].n, bytes |-> push[c].bytes] \in Push
  BY <1>1 DEF Push
<1> QED
  BY <1>2 DEF PushTyped, Advance

\* The pushes in progress stay well typed through every step of ServePush.
LEMMA NextPushTyped ==
  ASSUME PushTyped, [HubNext]_hubVars
  PROVE  PushTyped'
<1>1. CASE UNCHANGED hubVars
  BY <1>1 DEF hubVars, PushTyped
<1>2. ASSUME NEW c \in Caller, NEW w \in WireId, NEW n \in EventCount, NEW e \in Events, NEW b \in Bytes,
             AcceptPush(c, w, n, e, b)
      PROVE  PushTyped'
  <2>1. [next |-> "batches", agent |-> w, n |-> EventsIn(n, e), bytes |-> b] \in Push
    BY EventsInIsInt, IngestAssumption DEF Push, Step
  <2> QED
    BY <1>2, <2>1 DEF AcceptPush, PushTyped
<1>3. ASSUME NEW c \in Caller, CountBatch(c) \/ CountEvents(c) \/ CountBytes(c)
      PROVE  PushTyped'
  BY <1>3, AdvanceTyped DEF CountBatch, CountEvents, CountBytes, Step
<1>4. ASSUME NEW c \in Caller, Credit(c)
      PROVE  PushTyped'
  BY <1>4 DEF Credit, PushTyped
<1>5. CASE RegistryRequest
  BY <1>5 DEF RegistryRequest, PushTyped
<1>6. CASE HubRestart
  BY <1>6 DEF HubRestart, PushTyped
<1> QED
  BY <1>1, <1>2, <1>3, <1>4, <1>5, <1>6 DEF HubNext

\* The pushes in progress are always well typed.
LEMMA PushesTyped == HubSpec => []PushTyped
<1>1. HubInit => PushTyped
  BY DEF HubInit, PushTyped
<1> QED
  BY <1>1, NextPushTyped, PTL DEF HubSpec

\* One step of the hub is a step of the registry or leaves it alone
\* (ServePush only reaches the registry through MarkPush).
LEMMA StepRefines ==
  ASSUME PushTyped, [HubNext]_hubVars
  PROVE  [Next]_vars
<1>1. CASE UNCHANGED hubVars
  BY <1>1 DEF hubVars, vars
<1>2. ASSUME NEW c \in Caller, NEW w \in WireId, NEW n \in EventCount, NEW e \in Events, NEW b \in Bytes,
             AcceptPush(c, w, n, e, b)
      PROVE  UNCHANGED vars
  BY <1>2 DEF AcceptPush, vars
<1>3. ASSUME NEW c \in Caller, CountBatch(c) \/ CountEvents(c) \/ CountBytes(c)
      PROVE  UNCHANGED vars
  BY <1>3 DEF CountBatch, CountEvents, CountBytes, vars
<1>4. ASSUME NEW c \in Caller, Credit(c)
      PROVE  [Next]_vars
  <2>1. CASE ~Known(push[c].agent) /\ UNCHANGED vars
    BY <2>1
  <2>2. CASE MarkPush(push[c].agent)
    <3>1. push[c].agent \in WireId
      BY <1>4, AtStepIsPush DEF Credit, Push, Step
    <3> QED
      BY <2>2, <3>1 DEF Next
  <2> QED
    BY <1>4, <2>1, <2>2 DEF Credit
<1>5. ASSUME RegistryRequest
      PROVE  Next
  BY <1>5 DEF RegistryRequest, Next
<1>6. ASSUME HubRestart
      PROVE  Next
  BY <1>6 DEF HubRestart, Next
<1> QED
  BY <1>1, <1>2, <1>3, <1>4, <1>5, <1>6 DEF HubNext

\* The push path implements the registry (RegistryBehaviour).
THEOREM Refinement == HubSpec => RegistryBehaviour
<1>1. HubInit => Init
  BY DEF HubInit
<1> QED
  BY <1>1, PushesTyped, StepRefines, PTL DEF HubSpec, RegistryBehaviour, Spec

\* What the writer's counters hold fits their width.
CountersTyped ==
  batches \in 0..Modulus-1 /\ ingestEvents \in 0..Modulus-1 /\ ingestBytes \in 0..Modulus-1 /\ orphans \in Nat

\* Additions modulo the width stay within it, whatever is added.
LEMMA AddWraps ==
  ASSUME NEW x \in Int, NEW y \in Int
  PROVE  (x + y) % Modulus \in 0..Modulus-1
BY IngestAssumption

\* Every step keeps the counters within their width.
LEMMA NextCounters ==
  ASSUME PushTyped, CountersTyped, [HubNext]_hubVars
  PROVE  CountersTyped'
<1> USE DEF CountersTyped
<1>1. CASE UNCHANGED hubVars
  BY <1>1 DEF hubVars, writer
<1>2. ASSUME NEW c \in Caller, NEW w \in WireId, NEW n \in EventCount, NEW e \in Events, NEW b \in Bytes,
             AcceptPush(c, w, n, e, b)
      PROVE  CountersTyped'
  BY <1>2 DEF AcceptPush, writer
<1>3. ASSUME NEW c \in Caller, CountBatch(c)
      PROVE  CountersTyped'
  <2>1. (batches + 1) % Modulus \in 0..Modulus-1
    BY AddWraps, IngestAssumption
  <2> QED
    BY <1>3, <2>1 DEF CountBatch
<1>4. ASSUME NEW c \in Caller, CountEvents(c)
      PROVE  CountersTyped'
  <2>1. push[c].n \in Int
    BY <1>4, AtStepIsPush DEF CountEvents, Step, Push
  <2>2. (ingestEvents + push[c].n) % Modulus \in 0..Modulus-1
    BY <2>1, AddWraps, IngestAssumption
  <2> QED
    BY <1>4, <2>2 DEF CountEvents
<1>5. ASSUME NEW c \in Caller, CountBytes(c)
      PROVE  CountersTyped'
  <2>1. push[c].bytes \in Nat
    BY <1>5, AtStepIsPush DEF CountBytes, Step, Push
  <2>2. ingestBytes \in Int /\ push[c].bytes \in Int
    BY <2>1, IngestAssumption
  <2>3. (ingestBytes + push[c].bytes) % Modulus \in 0..Modulus-1
    BY <2>2, AddWraps
  <2> QED
    BY <1>5, <2>3 DEF CountBytes
<1>6. ASSUME NEW c \in Caller, Credit(c)
      PROVE  CountersTyped'
  BY <1>6 DEF Credit, writer
<1>7. CASE RegistryRequest
  BY <1>7 DEF RegistryRequest, writer
<1>8. CASE HubRestart
  BY <1>8, IngestAssumption DEF HubRestart
<1> QED
  BY <1>1, <1>2, <1>3, <1>4, <1>5, <1>6, <1>7, <1>8 DEF HubNext

\* Everything the composed system keeps is well typed, the counters within 64 bits.
THEOREM HubTypeCorrect == HubSpec => []HubTypeOK
<1>1. HubInit => CountersTyped
  BY IngestAssumption DEF HubInit, CountersTyped
<1>2. HubSpec => []CountersTyped
  BY <1>1, NextCounters, PushesTyped, PTL DEF HubSpec
<1>3. TypeOK /\ PushTyped /\ CountersTyped => HubTypeOK
  BY DEF HubTypeOK, CountersTyped
<1> QED
  BY <1>2, <1>3, PushesTyped, Refinement, TypeCorrect, PTL DEF RegistryBehaviour

\* Which pushes are credited.
LEMMA CreditedAre ==
  ASSUME NEW x
  PROVE  x \in Credited <=> \E i \in DOMAIN agents : \E k \in 1..agents[i].pushCount : x = <<i, k>>
BY DEF Credited

\* Writing an agent without changing its count, a new one with none, credits nothing.
LEMMA NothingCredited ==
  ASSUME IInv, NEW i \in AgentId, NEW a \in Agent, agents' = Put(i, a),
         i \in DOMAIN agents => a.pushCount = agents[i].pushCount,
         i \notin DOMAIN agents => a.pushCount = 0
  PROVE  Credited' = Credited
<1>1. DOMAIN agents' = DOMAIN agents \cup {i} /\ agents'[i].pushCount = a.pushCount
  BY DEF Put
<1>2. \A j \in DOMAIN agents : agents'[j].pushCount = agents[j].pushCount
  BY DEF Put
<1>3. ASSUME NEW x
      PROVE  x \in Credited' <=> x \in Credited
  <2>1. ASSUME NEW j \in DOMAIN agents', NEW k \in 1..agents'[j].pushCount
        PROVE  j \in DOMAIN agents /\ k \in 1..agents[j].pushCount
    <3>1. CASE j \in DOMAIN agents
      BY <1>2, <2>1, <3>1
    <3>2. CASE j \notin DOMAIN agents
      <4>1. agents'[j].pushCount = 0
        BY <1>1, <2>1, <3>2
      <4> QED BY <2>1, <4>1
    <3> QED BY <3>1, <3>2
  <2>2. \A j \in DOMAIN agents : j \in DOMAIN agents' /\ 1..agents[j].pushCount = 1..agents'[j].pushCount
    BY <1>1, <1>2
  <2>3. x \in Credited' => x \in Credited
    BY <2>1 DEF Credited
  <2>4. x \in Credited => x \in Credited'
    BY <2>2 DEF Credited
  <2> QED BY <2>3, <2>4
<1> QED BY <1>3

\* Writing an agent with one push more credits that push, which was not there before.
LEMMA OneCredited ==
  ASSUME IInv, NEW i \in DOMAIN agents, NEW a \in Agent, agents' = Put(i, a),
         a.pushCount = agents[i].pushCount + 1
  PROVE  Credited' = Credited \cup {<<i, a.pushCount>>} /\ <<i, a.pushCount>> \notin Credited
<1>1. DOMAIN agents' = DOMAIN agents /\ agents'[i].pushCount = a.pushCount
  BY DEF Put
<1>2. \A j \in DOMAIN agents \ {i} : agents'[j].pushCount = agents[j].pushCount
  BY DEF Put
<1>3. agents[i].pushCount \in Nat
  BY DEF IInv, TypeOK, Agent
<1>4. <<i, a.pushCount>> \notin Credited
  <2> SUFFICES ASSUME NEW j \in DOMAIN agents, NEW k \in 1..agents[j].pushCount, <<i, a.pushCount>> = <<j, k>>
               PROVE  FALSE
    BY CreditedAre
  <2>1. j = i /\ k = a.pushCount
    OBVIOUS
  <2> QED BY <1>3, <2>1
<1>5. 1..a.pushCount = (1..agents[i].pushCount) \cup {a.pushCount}
  BY <1>3
<1>6. ASSUME NEW x
      PROVE  x \in Credited' <=> x \in Credited \/ x = <<i, a.pushCount>>
  <2>1. ASSUME x \in Credited'
        PROVE  x \in Credited \/ x = <<i, a.pushCount>>
    <3>1. PICK j \in DOMAIN agents : \E k \in 1..agents'[j].pushCount : x = <<j, k>>
      BY <1>1, <2>1 DEF Credited
    <3>2. PICK k \in 1..agents'[j].pushCount : x = <<j, k>>
      BY <3>1
    <3>3. CASE j = i
      BY <1>1, <1>5, <3>2, <3>3 DEF Credited
    <3>4. CASE j # i
      BY <1>2, <3>2, <3>4 DEF Credited
    <3> QED BY <3>3, <3>4
  <2>2. ASSUME x \in Credited
        PROVE  x \in Credited'
    <3>1. PICK j \in DOMAIN agents : \E k \in 1..agents[j].pushCount : x = <<j, k>>
      BY <2>2 DEF Credited
    <3>2. PICK k \in 1..agents[j].pushCount : x = <<j, k>>
      BY <3>1
    <3>3. k \in 1..agents'[j].pushCount
      BY <1>1, <1>2, <1>5, <3>2
    <3> QED BY <1>1, <3>2, <3>3 DEF Credited
  <2>3. a.pushCount \in 1..agents'[i].pushCount
    BY <1>1, <1>3
  <2>4. <<i, a.pushCount>> \in Credited'
    BY <1>1, <2>3 DEF Credited
  <2> QED BY <2>1, <2>2, <2>4
<1> QED BY <1>4, <1>6

\* Division with remainder.
LEMMA Divide ==
  ASSUME NEW n \in Nat
  PROVE  /\ n = Modulus * (n \div Modulus) + (n % Modulus)
         /\ n \div Modulus \in Nat /\ n % Modulus \in 0..(Modulus - 1)
BY IngestAssumption

\* There is only one way to divide.
LEMMA RemainderOf ==
  ASSUME NEW q \in Nat, NEW r \in 0..(Modulus - 1)
  PROVE  (Modulus * q + r) % Modulus = r
<1> DEFINE n == Modulus * q + r
           p == n \div Modulus
           s == n % Modulus
<1>1. n \in Nat
  BY IngestAssumption
<1>2. n = Modulus * p + s /\ p \in Nat /\ s \in 0..(Modulus - 1)
  BY <1>1, Divide
<1>3. Modulus * q + r = Modulus * p + s
  BY <1>2
<1> HIDE DEF n, p, s
<1>4. ~ p < q
  <2> SUFFICES ASSUME p < q PROVE FALSE
    OBVIOUS
  <2>1. PICK d \in Nat : q = p + 1 + d
    <3>1. q - p - 1 \in Nat /\ q = p + 1 + (q - p - 1)
      BY <1>2
    <3> QED BY <3>1
  <2>2. Modulus * q = Modulus * p + Modulus + Modulus * d /\ Modulus * d \in Nat
    BY <1>2, <2>1, IngestAssumption
  <2>3. Modulus * p \in Nat
    BY <1>2, IngestAssumption
  <2> QED BY <1>2, <1>3, <2>2, <2>3, IngestAssumption
<1>5. ~ q < p
  <2> SUFFICES ASSUME q < p PROVE FALSE
    OBVIOUS
  <2>1. PICK d \in Nat : p = q + 1 + d
    <3>1. p - q - 1 \in Nat /\ p = q + 1 + (p - q - 1)
      BY <1>2
    <3> QED BY <3>1
  <2>2. Modulus * p = Modulus * q + Modulus + Modulus * d /\ Modulus * d \in Nat
    BY <1>2, <2>1, IngestAssumption
  <2>3. Modulus * q \in Nat
    BY IngestAssumption
  <2> QED BY <1>2, <1>3, <2>2, <2>3, IngestAssumption
<1>6. p = q
  BY <1>2, <1>4, <1>5
<1>7. s = r
  <2>1. Modulus * q \in Nat
    BY IngestAssumption
  <2> QED BY <1>2, <1>3, <1>6, <2>1
<1> QED BY <1>7 DEF n, s

\* The next number counts the next push.
LEMMA NextCount ==
  ASSUME NEW n \in Nat
  PROVE  ((n % Modulus) + 1) % Modulus = (n + 1) % Modulus
<1> DEFINE q == n \div Modulus
           r == n % Modulus
<1>1. n = Modulus * q + r /\ q \in Nat /\ r \in 0..(Modulus - 1)
  BY Divide
<1> HIDE DEF q, r
<1>2. Modulus * q \in Nat
  BY <1>1, IngestAssumption
<1>3. CASE r + 1 < Modulus
  <2>1. r + 1 \in 0..(Modulus - 1) /\ n + 1 = Modulus * q + (r + 1)
    BY <1>1, <1>2, <1>3, IngestAssumption
  <2>2. (n + 1) % Modulus = r + 1
    BY <1>1, <2>1, RemainderOf
  <2>3. Modulus * 0 + (r + 1) = r + 1 /\ 0 \in Nat
    BY <1>1, IngestAssumption
  <2>4. (r + 1) % Modulus = r + 1
    BY <2>1, <2>3, RemainderOf
  <2> QED BY <2>2, <2>4 DEF r
<1>4. CASE r + 1 = Modulus
  <2>1. n + 1 = Modulus * (q + 1) + 0 /\ 0 \in 0..(Modulus - 1) /\ q + 1 \in Nat
    BY <1>1, <1>2, <1>4, IngestAssumption
  <2>2. (n + 1) % Modulus = 0
    BY <2>1, RemainderOf
  <2>3. Modulus * 1 + 0 = r + 1 /\ 1 \in Nat
    BY <1>1, <1>4, IngestAssumption
  <2>4. (r + 1) % Modulus = 0
    BY <2>1, <2>3, RemainderOf
  <2> QED BY <2>2, <2>4 DEF r
<1> QED BY <1>1, <1>3, <1>4, IngestAssumption
\* The pushes counted, and that there are only finitely many of them, which lets their
\* number grow one by one.
Accounted == IsFiniteSet(Credited) /\ IsFiniteSet(Uncredited) /\ PushesAccountedFor

\* Nothing that is accounted for changes.
LEMMA AccountKept ==
  ASSUME Accounted, Credited' = Credited, Uncredited' = Uncredited, orphans' = orphans, batches' = batches
  PROVE  Accounted'
BY DEF Accounted, PushesAccountedFor

\* A push that is past RecordIngest and is credited or orphaned changes sides.
LEMMA AccountMoved ==
  ASSUME Accounted, CountersTyped, NEW c \in Uncredited, Uncredited' = Uncredited \ {c}, batches' = batches,
         IsFiniteSet(Credited'), orphans' \in Nat,
         Cardinality(Credited') + orphans' = Cardinality(Credited) + orphans + 1
  PROVE  Accounted'
<1>1. IsFiniteSet(Uncredited') /\ Cardinality(Uncredited') = Cardinality(Uncredited) - 1
  BY FS_RemoveElement DEF Accounted
<1>2. Cardinality(Uncredited) \in Nat /\ Cardinality(Credited) \in Nat /\ Cardinality(Credited') \in Nat
  BY FS_CardinalityType DEF Accounted
<1>3. Cardinality(Credited') + orphans' + Cardinality(Uncredited') = Cardinality(Credited) + orphans + Cardinality(Uncredited)
  BY <1>1, <1>2 DEF CountersTyped
<1> QED BY <1>1, <1>3 DEF Accounted, PushesAccountedFor

\* Every step keeps the account.
LEMMA NextAccounted ==
  ASSUME IInv, PushTyped, CountersTyped, CountersTyped', Accounted, [HubNext]_hubVars
  PROVE  Accounted'
<1>1. CASE UNCHANGED hubVars
  <2>1. agents' = agents /\ push' = push /\ batches' = batches /\ orphans' = orphans
    BY <1>1 DEF hubVars, vars, writer
  <2> QED BY <2>1, AccountKept DEF Credited, Uncredited
<1>2. ASSUME NEW c \in Caller, NEW w \in WireId, NEW n \in EventCount, NEW e \in Events, NEW b \in Bytes,
             AcceptPush(c, w, n, e, b)
      PROVE  Accounted'
  <2>1. agents' = agents /\ batches' = batches /\ orphans' = orphans
    BY <1>2 DEF AcceptPush, vars, writer
  <2>2. push[c].next = "none" /\ push'[c].next = "batches" /\ \A d \in Caller \ {c} : push'[d] = push[d]
    BY <1>2 DEF AcceptPush, NoPush, PushTyped
  <2> QED BY <2>1, <2>2, AccountKept DEF Credited, Uncredited
<1>3. ASSUME NEW c \in Caller, CountBatch(c)
      PROVE  Accounted'
  <2>1. agents' = agents /\ orphans' = orphans /\ batches' = (batches + 1) % Modulus
    BY <1>3 DEF CountBatch, vars
  <2>2. push[c].next = "batches" /\ push'[c].next = "events" /\ \A d \in Caller \ {c} : push'[d] = push[d]
    BY <1>3 DEF CountBatch, Advance, PushTyped
  <2>3. Uncredited' = Uncredited \cup {c} /\ c \notin Uncredited
    BY <2>2 DEF Uncredited
  <2>4. IsFiniteSet(Uncredited') /\ Cardinality(Uncredited') = Cardinality(Uncredited) + 1
    BY <2>3, FS_AddElement DEF Accounted
  <2>5. Credited' = Credited
    BY <2>1 DEF Credited
  <2> DEFINE n == Cardinality(Credited) + orphans + Cardinality(Uncredited)
  <2>6. Cardinality(Uncredited) \in Nat /\ Cardinality(Credited) \in Nat /\ orphans \in Nat
    BY FS_CardinalityType DEF Accounted, CountersTyped
  <2>7. n \in Nat /\ Cardinality(Credited') + orphans' + Cardinality(Uncredited') = n + 1
    BY <2>1, <2>4, <2>5, <2>6
  <2>8. batches = n % Modulus
    BY DEF Accounted, PushesAccountedFor
  <2> HIDE DEF n
  <2>9. batches' = (n + 1) % Modulus
    BY <2>1, <2>7, <2>8, NextCount
  <2> QED BY <2>4, <2>5, <2>7, <2>9 DEF Accounted, PushesAccountedFor
<1>4. ASSUME NEW c \in Caller, CountEvents(c) \/ CountBytes(c)
      PROVE  Accounted'
  <2>1. agents' = agents /\ batches' = batches /\ orphans' = orphans
    BY <1>4 DEF CountEvents, CountBytes, vars
  <2>2. /\ push[c].next \in {"events", "bytes"} /\ push'[c].next \in {"bytes", "mark"}
        /\ \A d \in Caller \ {c} : push'[d] = push[d]
    BY <1>4 DEF CountEvents, CountBytes, Advance, PushTyped
  <2>3. Uncredited' = Uncredited
    BY <2>2 DEF Uncredited
  <2> QED BY <2>1, <2>3, AccountKept DEF Credited
<1>5. ASSUME NEW c \in Caller, Credit(c)
      PROVE  Accounted'
  <2>1. push[c].next = "mark" /\ push'[c].next = "none" /\ \A d \in Caller \ {c} : push'[d] = push[d]
    BY <1>5 DEF Credit, NoPush, PushTyped
  <2>2. c \in Uncredited /\ Uncredited' = Uncredited \ {c} /\ batches' = batches
    BY <1>5, <2>1 DEF Uncredited, Credit, writer
  <2>3. Cardinality(Credited) \in Nat /\ orphans \in Nat
    BY FS_CardinalityType DEF Accounted, CountersTyped
  <2>4. CASE MarkPush(push[c].agent) /\ UNCHANGED orphans
    <3> DEFINE i == push[c].agent.name
               a == PushedNow(agents[i])
    <3>1. i \in DOMAIN agents /\ agents' = Put(i, a)
      BY <2>4 DEF MarkPush, Known
    <3>2. a \in Agent /\ a.pushCount = agents[i].pushCount + 1
      BY <3>1 DEF PushedNow, IInv, TypeOK, Agent
    <3> HIDE DEF i, a
    <3>3. Credited' = Credited \cup {<<i, a.pushCount>>} /\ <<i, a.pushCount>> \notin Credited
      BY <3>1, <3>2, OneCredited
    <3>4. IsFiniteSet(Credited') /\ Cardinality(Credited') = Cardinality(Credited) + 1
      BY <3>3, FS_AddElement DEF Accounted
    <3>5. Cardinality(Credited') + orphans' = Cardinality(Credited) + orphans + 1
      BY <2>3, <2>4, <3>4
    <3> QED BY <2>2, <3>4, <3>5, AccountMoved DEF CountersTyped
  <2>5. CASE orphans' = orphans + 1 /\ UNCHANGED vars
    <3>1. Credited' = Credited
      BY <2>5 DEF Credited, vars
    <3>2. Cardinality(Credited') + orphans' = Cardinality(Credited) + orphans + 1
      BY <2>3, <2>5, <3>1
    <3> QED BY <2>2, <3>1, <3>2, AccountMoved DEF Accounted, CountersTyped
  <2> QED BY <1>5, <2>4, <2>5 DEF Credit
<1>6. CASE RegistryRequest
  <2>1. push' = push /\ batches' = batches /\ orphans' = orphans
    BY <1>6 DEF RegistryRequest, writer
  <2>2. Uncredited' = Uncredited
    BY <2>1 DEF Uncredited
  <2>3. CASE \E c \in Caller : Register(c)
    <3>1. PICK i \in AgentId, a \in Agent :
            /\ agents' = Put(i, a)
            /\ i \in DOMAIN agents => a.pushCount = agents[i].pushCount
            /\ i \notin DOMAIN agents => a.pushCount = 0
      BY <2>3, RegisterWrites
    <3>2. Credited' = Credited
      BY <3>1, NothingCredited
    <3> QED BY <2>1, <2>2, <3>2, AccountKept
  <2>4. ASSUME NEW w \in WireId, Heartbeat(w)
        PROVE  Accounted'
    <3> DEFINE i == w.name
               a == SeenNow(agents[i])
    <3>1. i \in DOMAIN agents /\ agents' = Put(i, a)
      BY <2>4 DEF Heartbeat, Known
    <3>2. i \in AgentId /\ a \in Agent /\ a.pushCount = agents[i].pushCount
      BY <3>1 DEF SeenNow, IInv, TypeOK, Agent
    <3> HIDE DEF i, a
    <3>3. Credited' = Credited
      BY <3>1, <3>2, NothingCredited
    <3> QED BY <2>1, <2>2, <3>3, AccountKept
  <2>5. CASE Tick \/ \E c \in Caller, w \in WireId, t \in Tenant : Enrol(c, w, t)
    <3>1. agents' = agents
      BY <2>5 DEF Tick, Enrol
    <3> QED BY <2>1, <2>2, <3>1, AccountKept DEF Credited
  <2> QED BY <1>6, <2>3, <2>4, <2>5 DEF RegistryRequest
<1>7. CASE HubRestart
  <2>1. DOMAIN agents' = {} /\ batches' = 0 /\ orphans' = 0 /\ \A c \in Caller : push'[c].next = "none"
    BY <1>7 DEF HubRestart, Restart, NoPush
  <2>2. Credited' = {} /\ Uncredited' = {}
    BY <2>1 DEF Credited, Uncredited
  <2> QED BY <2>1, <2>2, FS_EmptySet, IngestAssumption DEF Accounted, PushesAccountedFor
<1> QED
  BY <1>1, <1>2, <1>3, <1>4, <1>5, <1>6, <1>7 DEF HubNext

\* The writer's batches and the registry's pushes never drift apart, whatever the width
\* of the counter (RecordIngest and MarkPush, with restarts between them).
THEOREM PushesAddUp == HubSpec => []PushesAccountedFor
<1>1. HubInit => CountersTyped /\ Accounted
  <2> SUFFICES ASSUME HubInit
               PROVE  CountersTyped /\ Accounted
    OBVIOUS
  <2>1. CountersTyped
    BY IngestAssumption DEF HubInit, CountersTyped
  <2>2. DOMAIN agents = {} /\ batches = 0 /\ orphans = 0 /\ \A c \in Caller : push[c].next = "none"
    BY DEF HubInit, Init, NoPush
  <2>3. Credited = {} /\ Uncredited = {}
    BY <2>2 DEF Credited, Uncredited
  <2> QED BY <2>1, <2>2, <2>3, FS_EmptySet, IngestAssumption DEF Accounted, PushesAccountedFor
<1>2. HubSpec => []IInv
  BY Refinement, Invariance, PTL DEF RegistryBehaviour
<1>3. HubSpec => []CountersTyped
  BY <1>1, NextCounters, PushesTyped, PTL DEF HubSpec
<1>4. Accounted => PushesAccountedFor
  BY DEF Accounted
<1> QED
  BY <1>1, <1>2, <1>3, <1>4, PushesTyped, NextAccounted, PTL DEF HubSpec

\* An agent whose push was credited recently is listed as online, in the composed
\* system too: the registry's theorem carried over by the refinement.
THEOREM PushedAgentsOnline == HubSpec => []PushKeepsOnline
BY Refinement, RecentPushIsOnline, PTL DEF RegistryBehaviour
=============================================================================
