SPECIFICATION Spec
CONSTANTS
  t1 = t1
  t2 = t2
  nullptr = nullptr
  Thread = {t1, t2}
  Creator = t1
  MaxRecords = 3
  MaxItems = 2
  nCompactFactor = 2
  AgeModulus = 4
  Clients <- EndingOnly
  ExitAlone = FALSE
INVARIANT ListedNotFreed
