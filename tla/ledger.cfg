SPECIFICATION Spec
CONSTANTS
  i1 = i1
  m1 = m1
  m2 = m2
  s1 = s1
  s2 = s2
  Slugs = {i1}
  Managers = {m1}
  Configurations <- MCConfigurations
  Issuers = {s1}
  SlugOf <- MCSlugOf
  Serials = {1}
  MaxAttempts = 2
  MaxLeaves = 2
  MaxGeneration = 3
  MaxVersion = 3
  ClockSkew = 1
  MaximumLeafValidity = 2
  RootValidity = 7
  IssuerValidity = 4
  IssuanceModes = {"None", "Ledger"}
  RotateBefores = {0, 1}
  SecretHandling = FALSE
  DiskFaults = FALSE
  Reprovision = FALSE
  MaxKeys = 3
  MaxTime = 3
  MaxRevision = 5
INVARIANTS TypeOK TrustCoverage RevisionIdentifiesMaterial
CHECK_DEADLOCK FALSE
