SPECIFICATION FairSpec
CONSTANTS
  Thread = {t1, t2}
  Obj = {o1, o2}
  none = none
  Capacity = 1
  Instances <- AllSchemes
  MaxRecords = 2
INVARIANTS
  TypeOK
  ReadNotFreed
  RetiredOnce
PROPERTIES
  ImplementsSMR
  GraceEnds
