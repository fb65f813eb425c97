\* Two requests at a time, in two tenants seen apart and together, with failing queries.
SPECIFICATION Spec
CONSTANTS
  Caller = {c1, c2}
  Tenant = {shop, blog}
  Assignee = {ann, bob}
  Null = null
  Blank = blank
  Context <- Contexts
  ReadsFail = TRUE
  MaxRequests = 3
SYMMETRY Symmetric
CHECK_DEADLOCK FALSE
INVARIANT ListAgreesWithPage
PROPERTY OnlyRacesLoseFields
