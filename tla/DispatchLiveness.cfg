SPECIFICATION FairDispatchSpec
CONSTANTS
  MaxRevision = 10
  Runs = {r1}
  Workers = {w1}
  Tokens = {t1, t2}
  LeaseTTL = 2
  MaxDelay = 0
  Capacity = 1
  AttemptTimeout = 1
  MaxUid = 2
  LateCreates = TRUE
  Cascades = {}
  NoWorker = NoWorker
  NoToken = NoToken
PROPERTIES StopsOnlyTheBoundJob CancellationCompletes ExecutionCompletes UsesTheStore
CHECK_DEADLOCK FALSE
