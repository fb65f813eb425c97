----------------------------- MODULE AgentScope -----------------------------
(***************************************************************************)
(* internal/registry, the read side: which registered agents a request     *)
(* sees.  GET /api/agents filters the list (ListScoped), GET               *)
(* /api/agents/{id} tests one agent (agentInScope), and the tenancy picker *)
(* counts agents per organization (Organizations): three pieces of code    *)
(* that must agree on what tenant an agent belongs to.                     *)
(*                                                                         *)
(* An agent is a record with fields org and project.  A request context is *)
(* a record: org, project and ids are the tenant headers (ids the          *)
(* multi-select X-Project-IDs), auth is opentenant.AuthEnforced(), and     *)
(* orgScoped / projectScoped are the answers of the opentenant library.    *)
(***************************************************************************)
EXTENDS FiniteSets

CONSTANT Trimmed   \* strings.TrimSpace, as a function on the names it changes

Empty == ""
All == "all"
DefaultOrg == "default-org"
DefaultProject == "default-project"

\* An agent stored with an empty organization or project counts as the default.
OrgOf(a) == IF a.org = Empty THEN DefaultOrg ELSE a.org
ProjectOf(a) == IF a.project = Empty THEN DefaultProject ELSE a.project

Trim(s) == IF s \in DOMAIN Trimmed THEN Trimmed[s] ELSE s

\* projectIDAllowSet: blank and "all" entries select nothing.
AllowSet(ids) == {Trim(p) : p \in ids} \ {Empty, All}

\* The project to match once auth has collapsed "no project" to the default.
WantedProject(ctx) ==
  IF ctx.auth /\ ctx.ids = {} /\ ctx.project \in {Empty, All}
  THEN DefaultProject
  ELSE ctx.project

Unscoped(ctx) == ~ctx.orgScoped /\ ~ctx.projectScoped
NoTenant(ctx) == ctx.auth /\ ctx.org \in {Empty, All}

\* Mutant: a request that names projects is not tested for its organization.
ListScopedByProject(agents, ctx) ==
  IF Unscoped(ctx) THEN DOMAIN agents
  ELSE IF NoTenant(ctx) THEN {}
  ELSE LET skipped(a) ==
             IF AllowSet(ctx.ids) # {} THEN ProjectOf(a) \notin AllowSet(ctx.ids)
             ELSE \/ ctx.orgScoped /\ OrgOf(a) # ctx.org
                  \/ ctx.projectScoped /\ ProjectOf(a) # WantedProject(ctx)
       IN {i \in DOMAIN agents : ~skipped(agents[i])}

\* ListScoped: the ids of the agents the list shows, each loop iteration
\* "continue"-ing over the agents that fail a test.
ListScoped(agents, ctx) ==
  IF Unscoped(ctx) THEN DOMAIN agents
  ELSE IF NoTenant(ctx) THEN {}
  ELSE LET skipped(a) ==
             \/ ctx.orgScoped /\ OrgOf(a) # ctx.org
             \/ AllowSet(ctx.ids) # {} /\ ProjectOf(a) \notin AllowSet(ctx.ids)
             \/ /\ AllowSet(ctx.ids) = {}
                /\ ctx.projectScoped /\ ProjectOf(a) # WantedProject(ctx)
       IN {i \in DOMAIN agents : ~skipped(agents[i])}

\* Mutant: "no project" is not collapsed to the default here.
InScopeUncollapsed(a, ctx) ==
  \/ Unscoped(ctx)
  \/ /\ ~NoTenant(ctx)
     /\ ctx.orgScoped => OrgOf(a) = ctx.org
     /\ IF AllowSet(ctx.ids) # {}
        THEN ProjectOf(a) \in AllowSet(ctx.ids)
        ELSE ctx.projectScoped => ProjectOf(a) = ctx.project

\* agentInScope: the same question asked of one agent.
InScope(a, ctx) ==
  \/ Unscoped(ctx)
  \/ /\ ~NoTenant(ctx)
     /\ ctx.orgScoped => OrgOf(a) = ctx.org
     /\ IF AllowSet(ctx.ids) # {}
        THEN ProjectOf(a) \in AllowSet(ctx.ids)
        ELSE ctx.projectScoped => ProjectOf(a) = WantedProject(ctx)

\* ServeGet's path names that are routes, not agents.
ReservedIds == {Empty, "register", "heartbeat"}

\* ServeGet answers 200 rather than 404.
Found(agents, i, ctx) ==
  /\ i \notin ReservedIds
  /\ i \in DOMAIN agents
  /\ InScope(agents[i], ctx)

\* The organization the picker counts an agent under: trimmed, unlike OrgOf.
PickerOrg(a) == IF Trim(a.org) = Empty THEN DefaultOrg ELSE Trim(a.org)

\* Mutant: agents of the default project are not counted.
MembersNamed(agents, org) ==
  {i \in DOMAIN agents : PickerOrg(agents[i]) = org /\ ProjectOf(agents[i]) # DefaultProject}

\* Registry.Organizations: one summary per organization with an agent.
MembersOf(agents, org) == {i \in DOMAIN agents : PickerOrg(agents[i]) = org}
OrganizationsOf(agents) ==
  {[id |-> org, agentCount |-> Cardinality(MembersOf(agents, org)), source |-> "agent_registry"] :
     org \in {PickerOrg(agents[i]) : i \in DOMAIN agents}}
=============================================================================
