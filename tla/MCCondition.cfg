SPECIFICATION FairSpec
CONSTANTS
  Waiters = {w1}
  Notifiers = {n1, n2}
  Nobody = Nobody
  MaxAdded = 4
INVARIANTS
  MonitorIsExclusive
  NobodySleepsOnItems
  WakesAreBacked
PROPERTIES
  SleeperIsWoken
CHECK_DEADLOCK FALSE
