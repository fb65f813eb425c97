---------------------------- MODULE TenancyPicker ---------------------------
(***************************************************************************)
(* internal/server/tenancy.go: GET /api/tenancy/organizations, composed of *)
(* the OAM directory client and the agent registry.  The handler asks the  *)
(* directory first, falls back on the registry if that fails, takes agent  *)
(* counts from the registry in both cases, and narrows the result to the   *)
(* organization of the request.  Directory and registry are read at        *)
(* different moments, and both keep changing.                              *)
(*                                                                         *)
(* Of the registry only the tenant labels are kept, which is all the       *)
(* picker reads.  A context is [org, auth, orgScoped] as in AgentScope.    *)
(***************************************************************************)
EXTENDS OamDirectory, AgentScope

CONSTANTS
  Configured,  \* PEER_OAM_URL is set
  AgentId,     \* agents that can enrol
  Tenant,      \* [org, project] labels they enrol under
  Context      \* tenant contexts of the requests

VARIABLES
  agents,     \* the registry
  ask,        \* per goroutine: the request being handled
  reply,      \* per goroutine: the last reply
  changedAt   \* history: when each organization last appeared in or left OAM

pickerVars == <<vars, agents, ask, reply, changedAt>>

-----------------------------------------------------------------------------
Idle == [stage |-> "idle"]
Asked(stage, x) == [stage |-> stage, ctx |-> x]
NoReply == [source |-> "none", orgs |-> {}]

\* organizations(): the directory's list with the registry's counts, or the
\* registry's own list when the directory is unconfigured or errs.
DirectoryList(orgs) ==
  {[id |-> o, agentCount |-> Cardinality(MembersOf(agents, o)), source |-> "oam"] : o \in orgs}
Picker(a) ==
  IF a.kind \in {"fresh", "outage"}
  THEN [source |-> "oam", orgs |-> DirectoryList(a.orgs)]
  ELSE [source |-> "agent_registry", orgs |-> OrganizationsOf(agents)]

\* The handler's scoping: nothing without a tenant under auth, else the request's
\* own organization, known or not.
Narrow(list, x) ==
  IF ~x.orgScoped THEN list
  ELSE IF x.auth /\ x.org \in {Empty, All} THEN {}
  ELSE LET own == {o \in list : o.id = x.org}
       IN IF own = {} THEN {[id |-> x.org, agentCount |-> 0, source |-> "request_scope"]} ELSE own

PickerInit ==
  /\ Init
  /\ agents = [i \in {} |-> Idle]
  /\ ask = [c \in Caller |-> Idle]
  /\ reply = [c \in Caller |-> NoReply]
  /\ changedAt = [o \in Org |-> 0]

-----------------------------------------------------------------------------
Ask(c, x) ==
  /\ ask[c] = Idle
  /\ ask' = [ask EXCEPT ![c] = Asked(IF Configured THEN "directory" ELSE "compose", x)]
  /\ reply' = [reply EXCEPT ![c] = NoReply]
  /\ UNCHANGED <<vars, agents, changedAt>>

\* A step of the directory call; when it returns the answer is at hand.
Consult(c) ==
  /\ ask[c].stage = "directory"
  /\ Organizations(c)
  /\ ask' = IF pc'[c] = "idle" THEN [ask EXCEPT ![c] = Asked("compose", ask[c].ctx)] ELSE ask
  /\ UNCHANGED <<agents, reply, changedAt>>

\* The rest of the handler.
Compose(c) ==
  /\ ask[c].stage = "compose"
  /\ LET p == Picker(answer[c])
     IN reply' = [reply EXCEPT ![c] = [source |-> p.source, orgs |-> Narrow(p.orgs, ask[c].ctx)]]
  /\ ask' = [ask EXCEPT ![c] = Idle]
  /\ UNCHANGED <<vars, agents, changedAt>>

-----------------------------------------------------------------------------
\* An agent enrols, or re-enrols under another tenant.
EnrolAgent(i, t) ==
  /\ agents' = [j \in DOMAIN agents \cup {i} |-> IF j = i THEN t ELSE agents[j]]
  /\ agents' # agents
  /\ UNCHANGED <<vars, ask, reply, changedAt>>

EditOrganizations ==
  /\ EditDirectory
  /\ changedAt' = [o \in Org |-> IF (o \in oam) = (o \in oam') THEN changedAt[o] ELSE now]
  /\ UNCHANGED <<agents, ask, reply>>

\* Composing the reply takes no time worth counting.
PickerTick ==
  /\ Tick
  /\ \A c \in Caller : ask[c].stage # "compose"
  /\ UNCHANGED <<agents, ask, reply, changedAt>>

HubRestart ==
  /\ Restart
  /\ agents' = [i \in {} |-> Idle]
  /\ ask' = [c \in Caller |-> Idle]
  /\ reply' = [c \in Caller |-> NoReply]
  /\ UNCHANGED changedAt

PickerNext ==
  \/ \E c \in Caller, x \in Context : Ask(c, x)
  \/ \E c \in Caller : Consult(c) \/ Compose(c)
  \/ \E i \in AgentId, t \in Tenant : EnrolAgent(i, t)
  \/ EditOrganizations
  \/ PickerTick
  \/ HubRestart

PickerSpec == PickerInit /\ [][PickerNext]_pickerVars

-----------------------------------------------------------------------------
(* Properties. *)

\* ACTION PROPERTY.  An organization that was created in OAM a directory lifetime
\* ago is in every unscoped reply that does not stem from an outage, and one that
\* was removed as long ago is in none: what the caches of the directory client may
\* hide from the pickers of the peer products, and for how long.
EstablishedOrgsListed ==
  [][\A c \in Caller :
       Compose(c) /\ answer[c].kind = "fresh" /\ ~ask[c].ctx.orgScoped =>
         \A o \in Org : now - changedAt[o] >= FreshWithin =>
           (o \in oam <=> \E e \in reply'[c].orgs : e.id = o)]_pickerVars

-----------------------------------------------------------------------------
(* What makes EstablishedOrgsListed inductive. *)

\* A copy of the directory is right about every organization that has not come or
\* gone since it was taken.
Accurate(d) == \A o \in Org : changedAt[o] < d.at => (o \in d.orgs <=> o \in oam)

CopiesAccurate ==
  /\ Accurate(cached) /\ Accurate(l2.dir)
  /\ \A c \in Caller : pc[c] \in {"storeL2", "fill"} => Accurate(got[c])

\* So is the answer a handler holds: no time passes before it replies.
AnswersAccurate ==
  \A c \in Caller :
    ask[c].stage = "compose" /\ answer[c].kind = "fresh" =>
      Accurate([orgs |-> answer[c].orgs, at |-> now - answer[c].age])

\* Without a peer there is nothing to ask and no answer.
NothingWithoutPeer ==
  ~Configured => \A c \in Caller : ask[c].stage # "directory" /\ answer[c].kind # "fresh"

PickerTyped ==
  /\ ask \in [Caller -> {Idle} \cup [stage : {"directory", "compose"}, ctx : Context]]
  /\ DOMAIN reply = Caller
  /\ changedAt \in [Org -> Nat]

PickerInv == PickerTyped /\ CopiesAccurate /\ AnswersAccurate /\ NothingWithoutPeer
=============================================================================
