SPECIFICATION FairSpec
CONSTANTS
  a = a
  b = b
  Timers = {a, b}
  Owner = owner
  None = None
  Intervals = {1, 3}
  UnitsPerMs = 2
  UIntValues = 8
  CallbackStops <- OneWay
INVARIANTS
  NoUseAfterFree
  OneLateCallAtMost
  NotEarly
PROPERTIES
  StopReturns
  StartedIsCalled
