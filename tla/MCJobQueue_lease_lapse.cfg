CONSTANTS
  Jobs = {1}
  w1 = w1
  w2 = w2
  Workers = {w1, w2}
  NoWorker = NoWorker
  JobTypes = {"build"}
  MAX_ATTEMPTS = 2
  SeededArtifacts = {"manifest", "snapshot"}
  MaxCrashes = 0
  MaxOverruns = 1
SPECIFICATION Spec
SYMMETRY WorkerSymmetry
INVARIANT AtMostOneHolder
CHECK_DEADLOCK FALSE
