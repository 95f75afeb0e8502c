CONSTANTS
  Capacity = 1
  MaxEvents = 3
SPECIFICATION FairSpec
INVARIANT EngineDelivers
PROPERTIES NobodyHeldUp ImplementsChannel
