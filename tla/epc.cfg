\* Four acts: a search, and three more.
SPECIFICATION Spec
CONSTANTS
  t1 = t1
  t2 = t2
  e1 = e1
  e2 = e2
  Tags = {t1, t2}
  Epcs = {e1, e2}
  FactoryEpc <- FactoryEpcDef
  Managed = {t1}
  NoFile = NoFile
  MaxActs = 4
INVARIANTS
  TypeOK
  NoCrash
  EpcAgree
PROPERTIES
  TagsKept
  EditsSettle
