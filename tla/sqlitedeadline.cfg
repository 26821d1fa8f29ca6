SPECIFICATION MCSpec
CONSTANTS
  p1 = p1
  p2 = p2
  p3 = p3
  Views = {"transactions"}
  Procs = {p1, p2, p3}
  Serials = {1}
  Deployments <- PurgeDeployments
  FilesDeployments <- SafeFilesDeployments
  MaxAuthorities = 1
  MaxRevision = 2
  MaxInodes = 1
  SQLiteSerials = {1}
  Owners = {}
  MaxFaults = 0
SYMMETRY Symmetry
PROPERTY SQLiteSeenComplete
CHECK_DEADLOCK FALSE
