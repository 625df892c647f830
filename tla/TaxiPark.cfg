\* Two drivers, all environment events, safety and the refinement.
CONSTANTS
    MaxDrivers = 2
    MaxLines = 4
    MaxTime = 2
    MaxSignals = 1
    MaxKills = 1
    Lines <- TwoDriverLines
SPECIFICATION Spec
INVARIANTS
    TypeOK
    OneRequestInFlight
    ReadNeverBlocks
    ConfirmedTasks
    CleanShutdown
PROPERTIES
    RequestReplySpec
CHECK_DEADLOCK FALSE
