----------------------------- MODULE ErrorInbox -----------------------------
(***************************************************************************)
(* What the error inbox promises for one error group: each tenant's triage *)
(* state has a status and an assignee; a request changes the one it names, *)
(* and carries the other over from what its sender sees.  To a sender that *)
(* sees its own tenant alone this changes nothing else; one that sees      *)
(* several may copy another tenant's.  ErrorTriage is the code.            *)
(***************************************************************************)
CONSTANTS
  Tenant,    \* organization and project, as one value
  Context,   \* who sends requests: the tenant written to, the tenants seen
  Assignee,  \* names a group can be assigned to
  Null       \* no assignee

VARIABLE inbox  \* per tenant: the triage state a reader sees

Statuses == {"unresolved", "resolved", "ignored"}
Untriaged == [status |-> "unresolved", assigned |-> Null]

Init == inbox = [t \in Tenant |-> Untriaged]

InSight(x) == IF x.scope = {} THEN {Untriaged} ELSE {inbox[t] : t \in x.scope}

SetStatus(x, s) ==
  \E old \in InSight(x) : inbox' = [inbox EXCEPT ![x.tenant] = [status |-> s, assigned |-> old.assigned]]
Assign(x, a) ==
  \E old \in InSight(x) : inbox' = [inbox EXCEPT ![x.tenant] = [status |-> old.status, assigned |-> a]]

Next ==
  \E x \in Context :
    \/ \E s \in Statuses : SetStatus(x, s)
    \/ \E a \in Assignee \cup {Null} : Assign(x, a)

Spec == Init /\ [][Next]_inbox
=============================================================================
