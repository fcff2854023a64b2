SPECIFICATION IntegrationSpec
CONSTANTS
  MaxRevision = 10
  Times = {1, 2}
  ExitCodes = {0}
  Requests = {q1, q2}
  Events = {e1, e2}
  c1 = c1
  c2 = c2
  Contexts = {c1, c2}
  RequestedAt <- MCRequestedAt
  Deadline <- MCDeadline
  Registry <- MCRegistry
INVARIANTS CapNeverStrandsARun AnswersAreStable ClosedConsistently
PROPERTIES HistoryMonotone ApprovedWhenAdmitted OverdueRunsAreCancelled
CHECK_DEADLOCK FALSE
