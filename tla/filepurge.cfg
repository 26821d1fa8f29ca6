SPECIFICATION MCSpec
CONSTANTS
  p1 = p1
  p2 = p2
  p3 = p3
  Views = {"filestore"}
  Procs = {p1, p2, p3}
  Serials = {1, 2}
  Deployments <- PurgeDeployments
  FilesDeployments <- SafeFilesDeployments
  MaxAuthorities = 2
  MaxRevision = 2
  MaxInodes = 2
  SQLiteSerials = {1}
  Owners = {}
  MaxFaults = 0
SYMMETRY Symmetry
PROPERTY NoLostUpdate
CHECK_DEADLOCK FALSE
