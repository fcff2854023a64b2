SPECIFICATION FairSpec
CONSTANTS
  MaxRevision = 10
  Runs = {r1}
  Workers = {w1, w2}
  Tokens = {t1, t2}
  LeaseTTL = 2
  MaxDelay = 1
  Capacity = 2
  NoWorker = NoWorker
  NoToken = NoToken
INVARIANTS RevisionIdentifiesSnapshot TokensIdentifyHolders
PROPERTIES DeadClaimsStayDead TerminalRunsAreFinal ImplementsPublicRun LostWorkIsRediscovered
CHECK_DEADLOCK FALSE
