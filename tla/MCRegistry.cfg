CONSTANTS
  r1 = r1
  r2 = r2
  r3 = r3
  Requests = {r1, r2, r3}
  None = None
  Ops <- MCOps
  Scenes <- MCScenes
  PolicyNames = {"gate", "strict"}
  Documents = {"d1", "d2"}
  Invalid = "bad"
  Endpoints <- MCEndpoints
  Resolves <- MCResolves
  AllowPrivate = TRUE
  EncryptionKeys = 2
  Captures = {"same", "less"}
  Found <- MCFound
  Verdict <- MCVerdict
  MaxAttempts = 2
  Hashes = {"h1", "h2"}
  Keys = 2
  Trusted = {1}
  SigningEnabled = TRUE
  Namespaces = {"docs", "wiki"}
  ConfigHashes = {"k1"}
  Scanned = {"seed", "second"}
  Files = {1, 2}
  Contents = {"x", "y"}
  MaxTreeEdits = 2
SPECIFICATION Spec
SYMMETRY RequestSymmetry
INVARIANTS
  ReferencesStand
  AuditTellsTheTruth
  ManifestsStand
PROPERTIES
  WorkspacesAreApart
  QuietScanIsExact
  RevocationIsFinal
CHECK_DEADLOCK FALSE
