\* One caller and the lifetimes of the code, one to ten; calls take no time.
SPECIFICATION Spec
CONSTANTS
  Caller = {c1}
  Org = {o1}
  CacheTTL = 1
  L2TTL = 10
  CallTime = 0
  MaxTime = 3
INVARIANT CacheTTLBoundsView
