----------------------------- MODULE MCRuleStore ----------------------------
EXTENDS RuleStore, TLC

\* Requests of one project, and requests that see all of them.
Contexts == UNION {[tenant : {t}, scope : {{t}, Tenant}] : t \in Tenant}

Symmetric == Permutations(Editor) \cup Permutations(Tenant) \cup Permutations(Definition)
=============================================================================
