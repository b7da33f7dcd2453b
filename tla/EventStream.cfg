CONSTANTS
  Jobs = {1}
  w1 = w1
  w2 = w2
  s1 = s1
  Workers = {w1, w2}
  NoWorker = NoWorker
  JobTypes = {"build", "snapshot", "reconcile"}
  MAX_ATTEMPTS = 2
  SeededArtifacts = {"manifest", "snapshot"}
  MaxCrashes = 1
  MaxOverruns = 0
  Streams = {s1}
  MaxPolls = 2
SPECIFICATION FairStreamSpec
INVARIANTS
  DoneTellsTheOutcome
PROPERTIES
  EveryStreamEnds
CHECK_DEADLOCK FALSE
