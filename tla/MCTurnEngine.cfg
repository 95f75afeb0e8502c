CONSTANTS
  MaxChats = 2
  MaxTurns = 2
  Limits = {0, 1, 2}
  MaxRetries = 2
  MaxEmptyRetries = 1
  MaxRepetitions = 1
  Keys = {1}
  Forms = {1, 2}
  MaxFaults = 2
SPECIFICATION FairSpec
INVARIANTS RunAnswersItsCalls ResultsFollowCalls RepetitionsBounded
PROPERTIES SuccessIsAnswered NothingLost SavedOnce ChatReturns
