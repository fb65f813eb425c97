--------------------------- MODULE MCAgentRegistry --------------------------
EXTENDS AgentRegistry, TLC

\* Names that strings.TrimSpace changes.
Padding == (" acme" :> "acme") @@ (" " :> "") @@ (" shop" :> "shop")

\* What the agents of the model send on enrolment: nothing, half a tenant, or a
\* tenant under a padded name.
Tenants ==
  {[org |-> "acme", project |-> ""], [org |-> "", project |-> "shop"]}

\* The contexts opentenant produces from request headers: with auth enforced both
\* dimensions are always scoped; without it a dimension is scoped when its header
\* names something.
Concrete(h) == h \notin {"", "all"}
RequestContexts ==
  {[org |-> o, project |-> p, ids |-> ids, auth |-> a,
    orgScoped |-> a \/ Concrete(o), projectScoped |-> a \/ Concrete(p)] :
     o \in {"", "all", "acme", DefaultOrg}, p \in {"all", "shop"},
     ids \in {{}, {"all", " "}, {" shop", DefaultProject}}, a \in BOOLEAN}
Names == DOMAIN Padding \cup {"acme", "shop", DefaultOrg, DefaultProject}

Goroutines == Permutations(Caller)
=============================================================================
