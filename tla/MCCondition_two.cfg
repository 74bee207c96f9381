SPECIFICATION Spec
CONSTANTS
  Waiters = {w1, w2}
  Notifiers = {n1, n2}
  Nobody = Nobody
  MaxAdded = 2
INVARIANTS
  NobodySleepsOnItems
CHECK_DEADLOCK FALSE
