SPECIFICATION FairBenchmarkSpec
CONSTANTS
  MaxRevision = 10
  Runs = {r1}
  Workers = {w1}
  Tokens = {t1, t2}
  LeaseTTL = 2
  MaxDelay = 0
  Capacity = 1
  AttemptTimeout = 1
  RequestBound = 1
  Grace = 2
  MaxUid = 1
  Evictions = FALSE
  Objects = {"roles"}
  NoWorker = NoWorker
  NoToken = NoToken
PROPERTY TargetsAreFreed
CHECK_DEADLOCK FALSE
