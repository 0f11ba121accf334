CONSTANTS
  Requests = {r1, r2}
  Tokens <- MCTokens
  Links <- MCLinks
  FreeAttempts = 1
  MaxDelay = 2
  MaxFailures = 3
  None = None
SPECIFICATION FairSpec
INVARIANTS AccountSound StraysBounded LinksBounded
PROPERTY BackoffEnds
CHECK_DEADLOCK FALSE
