SPECIFICATION Spec
CONSTANTS
  t1 = t1
  t2 = t2
  a = a
  b = b
  nullptr = nullptr
  Thread = {t1, t2}
  Val = {a, b}
  Producers = {t1, t2}
  ConsumerSets <- AllOrOne
  Capacity = 2
  PosModulus = 16
  Window = 5
SYMMETRY Symmetry
INVARIANTS CellExclusive FrontStable CounterExact
PROPERTY ImplementsQueue
