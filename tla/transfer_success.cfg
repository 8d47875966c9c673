\* The daemon may be restarted.
SPECIFICATION Spec
CONSTANTS
  fileA = fileA
  fileB = fileB
  Nothing = Nothing
  Files = {fileA, fileB}
  Size <- SizeDef
  Payload = 2
  Faults = {"restart"}
PROPERTIES
  SuccessMeansLoaded
CHECK_DEADLOCK FALSE
