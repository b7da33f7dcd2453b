SPECIFICATION FairSpec
CONSTANTS
  Inputs <- MCInputs
  ChunkSize = 2
  MaxInMemory = 2
  MaxCrashes = 1
INVARIANTS
  MatchingIsSound
  PathsAgree
  DuplicatesReported
  StrictPassMeansAgreement
  DeletesOnlyOrphans
PROPERTIES
  EveryReconciliationEnds
CHECK_DEADLOCK FALSE
