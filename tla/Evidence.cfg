SPECIFICATION EvidenceSpec
CONSTANTS
  Workers = {w1, w2}
  NSources = 2
  Deletable = {"report"}
  MaxDeletions = 1
INVARIANTS CompletedMeansPublished OneOfAKind LagIsNotFailure
SYMMETRY Symmetry
CHECK_DEADLOCK FALSE
