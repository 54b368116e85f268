CONSTANTS
  Home <- MCHome
  Ids <- MCIdsAll
  BackupPaths <- MCBackupPaths
  Keys = {"k1", "k2"}
  Dids = {"d1", "d2"}
  Verkeys = {"v1"}
  Vals = {"x", "y"}
  InitFs <- MCInitFs
  MaxOps = 4
  MaxFaults = 1
  None = None
SPECIFICATION Spec
CHECK_DEADLOCK FALSE
PROPERTY DeleteOnlyOwn
