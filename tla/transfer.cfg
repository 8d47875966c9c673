\* Two files, every fault once.
SPECIFICATION Spec
CONSTANTS
  fileA = fileA
  fileB = fileB
  Nothing = Nothing
  Files = {fileA, fileB}
  Size <- SizeDef
  Payload = 2
  Faults = {"loss", "refused", "clientError", "serverError", "restart"}
INVARIANTS
  TypeOK
  LoadedComplete
PROPERTIES
  TransferEnds
  Delivered
CHECK_DEADLOCK FALSE
