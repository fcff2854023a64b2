SPECIFICATION FairEngineSpec
CONSTANTS
  MaxRevision = 10
  Runs = {r1, r2}
  Workers = {w1}
  Tokens = {t1, t2}
  LeaseTTL = 2
  MaxDelay = 0
  Capacity = 2
  RenewEvery = 1
  Eventful = {r1}
  Targets = {"ABORTED"}
  NoWorker = NoWorker
  NoToken = NoToken
INVARIANTS RenewedAttemptsOwnTheirRun SlotsCoverAttempts
PROPERTIES UsesTheStore SlotsAreFreed ShutdownCompletes
CHECK_DEADLOCK FALSE
