SPECIFICATION FairSpec
CONSTANTS
  i1 = i1
  m1 = m1
  m2 = m2
  s1 = s1
  s2 = s2
  Slugs = {i1}
  Managers = {m1}
  Configurations <- MCConfigurations
  Issuers = {s1, s2}
  SlugOf <- MCSlugOf
  Serials = {1}
  MaxAttempts = 2
  MaxLeaves = 4
  MaxGeneration = 3
  MaxVersion = 3
  ClockSkew = 1
  MaximumLeafValidity = 2
  RootValidity = 7
  IssuerValidity = 4
  IssuanceModes = {"Ledger"}
  RotateBefores = {0}
  SecretHandling = FALSE
  DiskFaults = FALSE
  Reprovision = FALSE
  MaxKeys = 2
  MaxTime = 0
  MaxRevision = 3
CHECK_DEADLOCK FALSE
INVARIANTS LedgerComplete LedgerValid LedgerLeavesCurrent
PROPERTY SignTerminates
