SPECIFICATION Spec
CONSTANTS
  t1 = t1
  t2 = t2
  a = a
  b = b
  h1 = h1
  h2 = h2
  nullptr = nullptr
  Thread = {t1, t2}
  Obj = {a, b}
  Key = {1, 2}
  Head = {h1}
  Bucket <- OneList
  Clients = {{"insert", "update", "modify", "erase", "find", "clear"}}
  CounterModulus = 4
SYMMETRY Symmetry
INVARIANTS NoUseAfterFree Sorted CounterExact
PROPERTIES MarkedFrozen ImplementsSet
