CONSTANTS
  a1 = a1
  a2 = a2
  d1 = d1
  d2 = d2
  b1 = b1
  b2 = b2
  h1 = h1
  h2 = h2
  Writers = {a1, a2}
  Digests = {d1, d2}
  MaxCrashes = 2
  MaxErrors = 1
  Builders = {b1, b2}
  NStages = 2
  Lengths <- MCLengths
  MaxBuilderCrashes = 2
  Headings = {h1, h2}
  TokenCounts = {0, 1, 2, 4}
  Sizes = {0, 2, 3}
  MaxElements = 4
  EntrySets <- MCEntrySets
  Expressions = {"mit", "apache", "bad"}
  MaxSpdx = 6
  NTexts = 2
  NRecognizers = 2
  Offsets = {1, 2}
SPECIFICATION MCSpec
INVARIANTS
  StoreIsSound
  CacheSurvives
  ChunksCoverTheDocument
  ChunksFit
  AssertionsAreSound
  FindingsAreWhole
PROPERTIES
  ArtifactsAreImmutable
  EntriesHeal
CHECK_DEADLOCK FALSE
