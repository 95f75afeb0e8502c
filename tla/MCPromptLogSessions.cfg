SPECIFICATION PromptSpec
CONSTANTS
  Prompts = {p1, p2, p3}
  Trackers = {t1, t2}
  MaxPrompts = 2
  Threshold = 2
  MaxAttempts = 2
  MaxRecords = 4
  MaxFailures = 1
SYMMETRY Symmetry
INVARIANTS Kept
CHECK_DEADLOCK FALSE
