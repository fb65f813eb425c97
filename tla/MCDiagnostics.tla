--------------------------- MODULE MCDiagnostics ---------------------------
EXTENDS Diagnostics

A(o, t, x, d) == [op |-> o, tenant |-> t, release |-> "v1", text |-> x, deployed |-> d]

SmallAsks ==
  { A("post", "a", "sha", Missing), A("post", "a", "commits", 1),
    A("releases", "a", "sha", Missing), A("suspects", "a", "sha", Missing) }
=============================================================================
