SPECIFICATION FairSpec
CONSTANTS
  Capacity = 4
  MaxMessages = 2
  MaxRuns = 2
  MaxQueues = 5
  MaxSignals = 2
  MaxKills = 2
INVARIANTS
    Lockstep
    OrderKept
PROPERTIES
    EndsTogether
CHECK_DEADLOCK FALSE
