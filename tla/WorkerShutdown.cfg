SPECIFICATION EngineSpec
CONSTANTS
  MaxRevision = 10
  Runs = {r1, r2}
  Workers = {w1}
  Tokens = {t1, t2}
  LeaseTTL = 2
  MaxDelay = 0
  Capacity = 2
  RenewEvery = 1
  Eventful = {r1, r2}
  Targets = {"VALIDATING", "PROVISIONING", "INVALID", "ABORTED"}
  NoWorker = NoWorker
  NoToken = NoToken
INVARIANT ShutdownWaits
SYMMETRY Symmetry
CHECK_DEADLOCK FALSE
