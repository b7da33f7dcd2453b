CONSTANTS
  Jobs = {1}
  w1 = w1
  w2 = w2
  Workers = {w1, w2}
  NoWorker = NoWorker
  JobTypes = {"scan", "build", "snapshot", "reconcile", "other"}
  MAX_ATTEMPTS = 2
  SeededArtifacts = {"manifest", "snapshot"}
  MaxCrashes = 1
  MaxOverruns = 2
SPECIFICATION FairSpec
INVARIANTS
  HandlersSerialized
  FlaggedJobNeverCompletes
  AttemptsAccountedFor
PROPERTIES
  EveryJobSettles
CHECK_DEADLOCK FALSE
