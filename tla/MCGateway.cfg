CONSTANTS
  Callers = {"engine", "summarizer"}
  Engine = "engine"
  Media = {1, 2}
  MaxRetries = 1
  MaxEpoch = 3
SPECIFICATION Spec
CHECK_DEADLOCK FALSE
INVARIANTS AuthRecovers FilesReleased ChainTriedOnce
