\* One tag that comes and goes, a reader and a broker that fail and return.
SPECIFICATION FairSpec
CONSTANTS
  t1 = t1
  Out = Out
  Tags <- OneTag
  TagTicks = 2
  Temps <- Readings
  Limits <- TwoLimits
  DefaultLimit = 75
INVARIANTS
  TypeOK
PROPERTIES
  OfflineReported
  CloudConverges
  HeatReported
