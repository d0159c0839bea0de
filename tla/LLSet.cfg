SPECIFICATION Spec
CONSTANTS
  t1 = t1
  t2 = t2
  a = a
  b = b
  head = head
  tail = tail
  nullptr = nullptr
  Thread = {t1, t2}
  Obj = {a, b}
  Key = {1, 2}
  Clients = {{"insert", "update", "modify", "erase", "find", "clear"}}
  ClearAlone = TRUE
  CounterModulus = 4
SYMMETRY Symmetry
INVARIANTS NoUseAfterFree Sorted StillLinked
PROPERTIES ImplementsSet
