\* Two callers: the cache under interleaving, restarts and lost cache writes, and the
\* outage fallback.
SPECIFICATION Spec
CONSTANTS
  Caller = {c1, c2}
  Org = {o1}
  CacheTTL = 1
  L2TTL = 2
  CallTime = 1
  MaxTime = 4
INVARIANT ServedAgeBound
PROPERTIES ViewRegressionBounded OutageServesKnownOrgs
