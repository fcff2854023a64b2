SPECIFICATION NativeSpec
CONSTANTS
  MaxRevision = 10
  Runs = {r1}
  w1 = w1
  Workers = {w1, w2}
  Attempts = {a1, a2}
  Compatible <- AllPairs
  Slots = {"manifest", "measurements"}
  Required = {"measurements"}
  Manifest = "manifest"
  Phases = {"RUNNING"}
  Reasons = {"CANCELLATION_REQUESTED", "WORKER_SHUTDOWN"}
  Uploads <- OneUploads
  LeaseTTL = 1
  PresenceAge = 1
  NoRun = NoRun
  NoWorker = NoWorker
  NoAttempt = NoAttempt
INVARIANTS ExecutorsHoldTheLease EvidenceStays ReportsAreAnswered
PROPERTY CancellationWins
SYMMETRY Symmetry
CHECK_DEADLOCK FALSE
