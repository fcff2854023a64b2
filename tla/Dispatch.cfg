SPECIFICATION DispatchSpec
CONSTANTS
  MaxRevision = 10
  Runs = {r1}
  Workers = {w1, w2}
  Tokens = {t1, t2}
  LeaseTTL = 2
  MaxDelay = 0
  Capacity = 1
  AttemptTimeout = 1
  MaxUid = 2
  LateCreates = FALSE
  Cascades = {"background"}
  NoWorker = NoWorker
  NoToken = NoToken
INVARIANTS NeverReplaced AbortedMeansStopped EvaluationFollowsExecution
PROPERTY CancellationWins
SYMMETRY Symmetry
CHECK_DEADLOCK FALSE
