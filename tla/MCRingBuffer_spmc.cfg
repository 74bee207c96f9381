SPECIFICATION Spec
CONSTANTS
  Producers = {p1}
  Consumers = {c1, c2}
  Items = {i1, i2, i3}
  Capacity = 2
  NULL = NULL
INVARIANTS
  TakenOnce
