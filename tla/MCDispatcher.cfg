CONSTANTS
  NumCalls = 3
  MaxWorkers = 2
SPECIFICATION FairSpec
INVARIANTS EveryCallAnswered Barrier SerialFailureHalts SkipsExplained SerialAwaitedAlone
PROPERTIES AnswersKept Termination ToolsAccounted
