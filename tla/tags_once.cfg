\* The offline event is published again and again.
SPECIFICATION Spec
CONSTANTS
  t1 = t1
  Out = Out
  Tags <- OneTag
  TagTicks = 2
  Temps <- Readings
  Limits <- TwoLimits
  DefaultLimit = 75
PROPERTIES
  OfflineEventOnce
