SPECIFICATION Spec
CONSTANTS
  t1 = t1
  t2 = t2
  c1 = c1
  Thread = {t1, t2}
  Obj = {2, 4, 6}
  Cell = {c1}
  nHazardPtrCount = 1
  nMaxThreadCount = 2
  nMaxRetiredPtrCount = 3
  ScanType = "classic"
  MaxRecords = 2
  CopyPairs <- NoCopies
PROPERTY ScanKeepsProtected
