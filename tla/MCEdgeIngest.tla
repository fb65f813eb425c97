---------------------------- MODULE MCEdgeIngest ----------------------------
EXTENDS EdgeIngest, TLC

OneTenant == {[org |-> "acme", project |-> "shop"]}
Names == {"acme", "shop", "default-org", "default-project"}
NoContexts == {}
NoPadding == [s \in {} |-> ""]

\* No events field, an empty array, and something that is not an array.
EventForms == {[form |-> "absent", len |-> 0], [form |-> "array", len |-> 0], [form |-> "other", len |-> 0]}

\* A count that is missing, and one that is given.
Counts == {0, 1}

Goroutines == Permutations(Caller)
=============================================================================
