SPECIFICATION AcceptanceSpec
CONSTANTS
  Callers = {c1, c2}
  Keys = {k1, k2}
  Bodies = {q1, q2}
  BindingTTL = 2
  MaxTime = 2
  NoCaller = NoCaller
INVARIANTS RetriesNeverDuplicate AnswersMatch BoundForItsTerm
CHECK_DEADLOCK FALSE
