SPECIFICATION ContextSpec
CONSTANTS
  Starts <- MCStarts
  Tools = {"t1"}
  Requested = {1, 2}
  Estimate = 4
  Growth = 2
  MinHistory = 6
  MaxHistoryTurns = 1
  MaxAdds = 2
  MaxPrepares = 1
  MaxCalls = 1
  MaxPins = 1
  MaxReconfigures = 1
  MaxFaults = 1
CHECK_DEADLOCK FALSE
INVARIANTS NothingUnseen PinsReachModel
PROPERTIES PinnedStays ArchivedFirst SummariesStay
