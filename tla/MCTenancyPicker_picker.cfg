\* One request at a time, every context, an agent enrolling and moving, a changing
\* directory and a failing peer.
SPECIFICATION PickerSpec
CONSTANTS
  Caller = {c1}
  Org <- OneOrg
  CacheTTL = 1
  L2TTL = 1
  CallTime = 1
  MaxTime = 5
  Configured = TRUE
  AgentId = {a1}
  Tenant <- Labels
  Trimmed <- Padding
  Context <- Contexts
PROPERTY EstablishedOrgsListed
