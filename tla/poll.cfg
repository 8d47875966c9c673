SPECIFICATION Spec
CONSTANTS
  e1 = e1
  e2 = e2
  e3 = e3
  Epcs = {e1, e2, e3}
  NoEpc = NoEpc
  Configs <- ConfigsDef
  MaxTags = 3
  EpcMax = 2
  Limit = 3
  Slack = 1
  Waiting = 2
  MaxActs = 3
  MaxFaults = 1
INVARIANTS
  TypeOK
PROPERTIES
  AlarmSaved
