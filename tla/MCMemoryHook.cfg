SPECIFICATION Spec
CONSTANTS
  Callers = {f1, f2}
  MaxBuffer = 2
  MaxEpisodes = 3
  MaxReconfigures = 1
INVARIANTS NothingLost WrittenOnce ChildReaped
PROPERTIES AllReturn
CHECK_DEADLOCK FALSE
