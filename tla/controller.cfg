SPECIFICATION AuthSpec
CONSTANTS
  i1 = i1
  m1 = m1
  m2 = m2
  Slugs = {i1}
  Managers = {m1}
  Configurations <- MCConfigurations
  MaxGeneration = 3
  MaxVersion = 3
  ClockSkew = 1
  MaximumLeafValidity = 0
  RootValidity = 5
  IssuerValidity = 3
  IssuanceModes = {"None"}
  RotateBefores = {0, 1}
  SecretHandling = TRUE
  DiskFaults = TRUE
  Reprovision = TRUE
  MaxKeys = 3
  MaxTime = 1
  MaxRevision = 5
INVARIANTS AuthTypeOK ValidStore
PROPERTIES PublishedBeforeActive SecretsStay
CHECK_DEADLOCK FALSE
