SPECIFICATION ReadsSpec
CONSTANTS
  Service = {"shop", "pay"}
  NoName = "nobody"
  Id = {1, 2, 3, 4, 5}
  NoSpan = 0
  Untraced = {4, 5}
  Tenant = {"a", "b"}
  Default = "b"
  Place = {"pg1", "pg2", "bare"}
  TargetOf <- Targets
  KindOf <- Kinds
  Spans <- SmallSpans
  Items <- SmallItems
  Bodies <- SmallBodies
  MaxRows = 3
  MaxTime = 1
  TraceId = {t1, t2, t3}
  SpanId = {s1, s2}
  Owner = {shop, other}
  Everyone = all
  Scopes = {shop}
  Starts = {1, 2}
  PageSize = 1
  Sorts = {"created_at"}
  LastTime = 2
  MaxPayloads = 1
  Windows <- OneWindow
  MaxFiled = 3
  Series = {cpu, mem}
  LabelOf <- OneLabel
  Tiers <- SmallTiers
  Ranges <- SmallRanges
  Filters <- SmallFilters
  Points = {1}
  RowsPerPoint = 1
  SeriesLimit = 1
  MaxClock = 5
  MaxSamples = 2
SYMMETRY Symmetric
INVARIANTS TypesOK MapIsWhole CallsWithinSpans NothingPassedOver DetailIsComplete NothingMissing ResolutionFits
