SPECIFICATION FairSpec
CONSTANTS
  t1 = t1
  t2 = t2
  c1 = c1
  Thread = {t1, t2}
  Obj = {2, 4}
  Cell = {c1}
  nHazardPtrCount = 2
  nMaxThreadCount = 2
  nMaxRetiredPtrCount = 0
  ScanType = "inplace"
  MaxRecords = 2
  CopyPairs <- Upward
INVARIANTS TypeOK GuardedNotFreed
PROPERTIES ImplementsSMR DetachEnds
