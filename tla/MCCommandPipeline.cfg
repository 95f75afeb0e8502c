SPECIFICATION Spec
CONSTANTS
  MaxStages = 2
  Capacity = 1
  Lines = 2
  MaxCapture = 4
  Escapes = FALSE
INVARIANTS OutputComplete Reaped
PROPERTY CallEnds
CHECK_DEADLOCK FALSE
