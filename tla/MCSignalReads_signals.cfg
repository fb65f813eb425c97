SPECIFICATION ReadsSpec
CONSTANTS
  Id = {i1, i2, i3}
  Tenant = {shop}
  NoTenant = nobody
  Trace = {x1}
  Scope <- OneTenantOrAll
  Windows <- TwoWindows
  Limit = 2
  FacetLimit = 1
  Value = {"a", "b"}
  ValueOf <- Labels
  Undated = {i1}
  Marks <- SmallMarks
  MaxTime = 2
  View = {"v1", "v2", "v3"}
  Unnamed = {"v3"}
  Session = {"s1", "s2"}
  SessionOf <- NamedInOne
  ViewLimit = 1
  AjaxLimit = 2
  ErrorLimit = 1
  MaxEntries = 1
  MaxInstant = 1
  MaxBeacons = 3
  MaxCopies = 2
  MaxEvents = 3
INVARIANTS NoLogTwice NothingSkipped CountsCoverPage SessionsAddUp
PROPERTIES PagingEnds LastBeaconIsEnough
