\* Two tests of one rule at a time; it stops when the requests are used up.
SPECIFICATION FairSpec
CONSTANTS
  Caller = {c1, c2}
  Alert = {cpu}
  Timeout = 3
  Pause = 1
  QueryTime = 1
  MaxRequests = 2
CHECK_DEADLOCK FALSE
INVARIANTS SynchronousWhenHealthy AnswerIsTrue
PROPERTY EveryTestAnswered
