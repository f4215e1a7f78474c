SPECIFICATION FairSpec
CONSTANTS
  N = 3
  Concurrency = 2
  Retries = 1
  Budget = 2
  MaxPages = 2
  Timeout = 1
  Backoff = 1
  CacheFaults = TRUE
INVARIANTS AnswersAndCacheAreSound BudgetHolds
PROPERTY EveryDependencySettles
CHECK_DEADLOCK FALSE
