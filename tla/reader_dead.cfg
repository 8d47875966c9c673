\* One tag, only powers the module accepts.
SPECIFICATION Spec
CONSTANTS
  t1 = t1
  t2 = t2
  p2300 = p2300
  pBad = pBad
  NoTag = NoTag
  Uids <- OneTag
  TagTicks = 1
  ValidPowers <- GoodPowers
  PowerRequests <- GoodPowers
  DefaultPower = p2300
INVARIANT DeadReaderFlagged
