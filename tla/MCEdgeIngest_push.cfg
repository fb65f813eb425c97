\* Pushes, known and unknown agents, registrations and restarts interleaved.
SPECIFICATION HubSpec
CONSTANTS
  Caller = {c1, c2}
  ChosenId = {a1, a2}
  GeneratedId = {}
  Name <- Names
  Trimmed <- NoPadding
  Tenant <- OneTenant
  Context <- NoContexts
  StaleAfter = 1
  LockWait = 0
  MaxTime = 1
  MaxPushes = 2
  EventCount <- Counts
  Events <- EventForms
  Bytes = {1}
  Modulus = 64
  MaxBatches = 3
SYMMETRY Goroutines
INVARIANT PushesAccountedFor
PROPERTY RegistryBehaviour
