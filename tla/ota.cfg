\* Every fault once; the service stops for good when no program is left.
SPECIFICATION Spec
CONSTANTS
  v1 = v1
  v2 = v2
  v3 = v3
  Fetched = {v1, v2}
  Uploaded = {v3}
  Factory = Factory
  Nothing = Nothing
  Names = {"rdm.zip", "rdm.tar"}
  Name <- NameDef
  Size <- SizeDef
  RDM_TICKS = 2
  Faults = {"badUrl", "noFile", "netError", "wrongSize", "corrupt", "power"}
INVARIANTS
  TypeOK
  NeverBricked
PROPERTIES
  BackupIsOld
  MonitoringResumes
  VersionKnown
  UpdateInstalled
CHECK_DEADLOCK FALSE
