SPECIFICATION Spec
CONSTANTS
  a = a
  b = b
  Timers = {a, b}
  Owner = owner
  None = None
  Intervals = {1}
  UnitsPerMs = 2
  UIntValues = 8
  CallbackStops <- ItsOwn
INVARIANTS
  NoUseAfterFree
