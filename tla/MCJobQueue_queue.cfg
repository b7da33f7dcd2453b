CONSTANTS
  Jobs = {1, 2}
  w1 = w1
  w2 = w2
  Workers = {w1, w2}
  NoWorker = NoWorker
  JobTypes = {"snapshot", "reconcile"}
  MAX_ATTEMPTS = 2
  SeededArtifacts = {"manifest"}
  MaxCrashes = 1
  MaxOverruns = 0
SPECIFICATION FairSpec
INVARIANTS
  AtMostOneHolder
  EntityAgreesWithJob
PROPERTIES
  ImplementsContract
  EveryCancelAnswered
CHECK_DEADLOCK FALSE
