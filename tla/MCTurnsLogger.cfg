SPECIFICATION Spec
CONSTANTS
  Producers = {p1, p2}
  Listeners = {l1, l2}
  Closers = {c1, c2}
  Capacity = 2
  MaxMessages = 4
  MaxFaults = 1
CHECK_DEADLOCK FALSE
INVARIANTS SafeUse Heard
PROPERTIES CloseReturns
