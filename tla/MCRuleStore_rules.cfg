\* Two requests at a time on rules of two tenants; it stops when the requests are
\* used up.
SPECIFICATION RuleSpec
CONSTANTS
  Editor = {c1, c2}
  Tenant = {shop, blog}
  Id = {i1}
  Definition = {d1, d2}
  Blank = blank
  Context <- Contexts
  ReadsFail = TRUE
  MaxEdits = 3
  MaxTime = 2
SYMMETRY Symmetric
CHECK_DEADLOCK FALSE
PROPERTIES UnovertakenWriteShows ChecksReturnOnlyByRace TenantsApart
