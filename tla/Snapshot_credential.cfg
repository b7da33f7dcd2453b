CONSTANTS
  Points = {1, 2}
  MaxMutations = 0
  PageSize = 2
  MaxPasses = 1
  MaxRetries = 0
  MaxDamage = 0
SPECIFICATION SnapshotSpec
INVARIANTS
  CredentialIsCaptured
CHECK_DEADLOCK FALSE
