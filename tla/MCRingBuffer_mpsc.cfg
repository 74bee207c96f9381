SPECIFICATION Spec
CONSTANTS
  Producers = {p1, p2}
  Consumers = {c1}
  Items = {i1, i2}
  Capacity = 3
  NULL = NULL
INVARIANTS
  TakenOnce
