\* Every fault once.
SPECIFICATION Spec
CONSTANTS
  b9600 = b9600
  b19200 = b19200
  Settings = {b9600, b19200}
  Default = b9600
  Invalid = Invalid
  Tcp = Tcp
  Unset = Unset
  Configs <- ConfigsDef
  MaxSid = 2
  Limits = {30, 65531}
  Powers = {2300, 3000}
  MaxDepth = 2
  Faults = {"port", "line", "badXml"}
INVARIANTS
  TypeOK
  SlaveUp
  SettingsAgree
  TagsAgree
  CrashCause
  PowerWritten
CHECK_DEADLOCK FALSE
