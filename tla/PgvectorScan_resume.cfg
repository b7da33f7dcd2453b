CONSTANTS
  Points = {1, 2, 3, 4}
  MaxMutations = 0
  PageSize = 2
  MaxPasses = 2
SPECIFICATION Spec
INVARIANTS
  ResumeIsAccepted
CHECK_DEADLOCK FALSE
