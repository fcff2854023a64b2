SPECIFICATION FairBenchmarkSpec
CONSTANTS
  MaxRevision = 10
  Runs = {r1}
  Workers = {w1}
  Tokens = {t1, t2}
  LeaseTTL = 2
  MaxDelay = 0
  Capacity = 1
  AttemptTimeout = 1
  RequestBound = 0
  Grace = 1
  MaxUid = 2
  Evictions = TRUE
  Objects = {"roles"}
  NoWorker = NoWorker
  NoToken = NoToken
PROPERTIES CancellationWins TargetsAreFreed
CHECK_DEADLOCK FALSE
