---------------------------- MODULE MCSignalReads ----------------------------
(* The readers of logs and of browser sessions: a behaviour is about one of them. *)
EXTENDS LogPages, RumReads

OneTenantOrAll == {{t} : t \in Tenant} \cup {Tenant \cup {NoTenant}}
SmallMarks == {{2}}
TwoWindows == {[from |-> 0, to |-> 1, slides |-> FALSE], [from |-> 1, to |-> 2, slides |-> TRUE]}
Labels == [i \in Id |-> [f \in {"levels", "services"} |-> IF i \in Undated \/ f = "levels" THEN "a" ELSE "b"]]

NamedInOne == [v \in View |-> IF v \in Unnamed THEN "s2" ELSE "s1"]

VARIABLE reader

ReadsInit == Init /\ RumInit /\ reader \in {"logs", "sessions"}

ReadsNext ==
  \/ reader = "logs" /\ Next /\ UNCHANGED <<rumVars, reader>>
  \/ reader = "sessions" /\ RumNext /\ UNCHANGED <<vars, reader>>

\* The fairness of FairSpec.
ReadsSpec == ReadsInit /\ [][ReadsNext]_<<vars, rumVars, reader>> /\ WF_vars(Step)
=============================================================================
