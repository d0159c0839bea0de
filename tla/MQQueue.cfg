SPECIFICATION Spec
CONSTANTS
  t1 = t1
  t2 = t2
  t3 = t3
  a = a
  b = b
  d = d
  nullptr = nullptr
  Thread = {t1, t2, t3}
  Obj = {a, b, d}
  m_Dummy = d
  Variants = {TRUE, FALSE}
  CounterModulus = 4
SYMMETRY Symmetry
INVARIANTS NoUseAfterFree NodeConservation TailLag CounterExact
PROPERTY ImplementsQueue
