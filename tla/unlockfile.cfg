SPECIFICATION AuthSpec
CONSTANTS
  i1 = i1
  m1 = m1
  m2 = m2
  Slugs = {i1}
  Managers = {m1, m2}
  Configurations <- MCConfigurations
  MaxGeneration = 2
  MaxVersion = 3
  ClockSkew = 1
  MaximumLeafValidity = 2
  RootValidity = 5
  IssuerValidity = 3
  IssuanceModes = {"None"}
  RotateBefores = {0, 1}
  SecretHandling = TRUE
  DiskFaults = FALSE
  Reprovision = FALSE
  MaxKeys = 3
  MaxTime = 0
  MaxRevision = 5
CHECK_DEADLOCK FALSE
PROPERTY ActiveSecretStays
