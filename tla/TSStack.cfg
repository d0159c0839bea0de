SPECIFICATION Spec
CONSTANTS
  t1 = t1
  t2 = t2
  t3 = t3
  a = a
  b = b
  k1 = k1
  nullptr = nullptr
  Thread = {t1, t2, t3}
  Obj = {a, b}
  Slots = {k1}
  Clients <- EliminationOrClear
  CounterModulus = 8
SYMMETRY Symmetry
INVARIANTS NoUseAfterFree NodeConservation CounterExact
PROPERTY ImplementsStack
