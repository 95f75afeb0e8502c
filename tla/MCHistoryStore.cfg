SPECIFICATION Spec
CONSTANTS
  MaxOps = 5
  MaxMsgs = 4
  MaxFaults = 1
  MaxCrashes = 1
INVARIANTS Reconciled RetryRewinds
PROPERTIES ImplementsLog
