\* Both threads, both tags, valid and invalid power writes, link failures.
SPECIFICATION FairSpec
CONSTANTS
  t1 = t1
  t2 = t2
  p2300 = p2300
  pBad = pBad
  NoTag = NoTag
  Uids <- TwoTags
  TagTicks = 1
  ValidPowers <- GoodPowers
  PowerRequests <- AllPowers
  DefaultPower = p2300
INVARIANTS
  TypeOK
  TagListRebuiltAlone
  TmrUsedAlone
  NoDanglingTag
PROPERTIES
  ErrorClearedOnlyWhenReady
  StopReturns
  ErrorRecovers
  GateFairSpec
