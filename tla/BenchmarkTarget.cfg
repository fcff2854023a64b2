SPECIFICATION BenchmarkSpec
CONSTANTS
  MaxRevision = 10
  Runs = {r1}
  Workers = {w1, w2}
  Tokens = {t1, t2}
  LeaseTTL = 2
  MaxDelay = 0
  Capacity = 1
  AttemptTimeout = 1
  RequestBound = 1
  Grace = 2
  MaxUid = 2
  Evictions = TRUE
  Objects = {"roles"}
  NoWorker = NoWorker
  NoToken = NoToken
INVARIANTS CleanUnlessHeld CleanupBetweenCollectionAndAnalysis
PROPERTY NeverReplaced
SYMMETRY Symmetry
CHECK_DEADLOCK FALSE
