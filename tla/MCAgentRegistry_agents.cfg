\* Registrations racing heartbeats, pushes and restarts; every request context over
\* what they leave in the registry.
SPECIFICATION Spec
CONSTANTS
  Caller = {c1, c2}
  ChosenId = {"register"}
  GeneratedId = {"agent-1"}
  Name <- Names
  Trimmed <- Padding
  Tenant <- Tenants
  Context <- RequestContexts
  StaleAfter = 1
  LockWait = 1
  MaxTime = 2
  MaxPushes = 1
SYMMETRY Goroutines
INVARIANTS PushKeepsOnline ListGetAgree NoCrossTenant PickerCountsListed
PROPERTIES ContactRefreshes HistoryKept
