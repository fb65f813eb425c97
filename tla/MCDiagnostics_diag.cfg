SPECIFICATION FairSpec
CONSTANTS
  Client = {c1, c2}
  Tenant = {"a"}
  Release = {"v1"}
  Text = {"sha", "commits"}
  Commits = {"commits"}
  Asks <- SmallAsks
  Hour = 1
  Window = 1
  MaxTime = 1
  MaxSpans = 2
INVARIANTS TablesBeforeQueries OneAtATheStatements BlameIsFounded
PROPERTIES UnrivalledPostShows EveryRequestAnswered
