SPECIFICATION PromptSpec
CONSTANTS
  Prompts = {p1, p2, p3}
  Trackers = {t1, t2}
  MaxPrompts = 2
  Threshold = 2
  MaxAttempts = 2
  MaxRecords = 5
  MaxFailures = 2
SYMMETRY Symmetry
INVARIANTS KeptUnlessRaced
CHECK_DEADLOCK FALSE
