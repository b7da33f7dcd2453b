CONSTANTS
  Points = {1, 2, 3}
  MaxMutations = 3
  PageSize = 2
  MaxPasses = 2
  MaxRetries = 1
  MaxDamage = 1
SPECIFICATION SnapshotSpec
INVARIANTS
  SteadyPointsOnce
  QuietPassIsExact
  StrictPassIsSnapshot
  AcceptedFileIsThePass
  ResumeSkipsNothing
CHECK_DEADLOCK FALSE
