SPECIFICATION MCSpec
CONSTANTS
  p1 = p1
  p2 = p2
  p3 = p3
  Views = {"filestore", "transactions", "files"}
  Procs = {p1, p2, p3}
  Serials = {1, 2}
  Deployments <- SafeDeployments
  FilesDeployments <- SafeFilesDeployments
  MaxAuthorities = 2
  MaxRevision = 3
  MaxInodes = 3
  SQLiteSerials = {1}
  Owners = {p1, p2}
  MaxFaults = 2
INVARIANTS
    TypesOK
    LedgersSound
PROPERTIES
    AtomicSpec
    DamageStops
    SQLiteSerial
    FilesProvisionsOrLeft
CHECK_DEADLOCK FALSE
