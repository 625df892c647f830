\* One driver, liveness under weak fairness of every process.
CONSTANTS
    MaxDrivers = 1
    MaxLines = 3
    MaxTime = 3
    MaxSignals = 1
    MaxKills = 1
    Lines <- OneDriverLines
SPECIFICATION FairSpec
PROPERTIES
    TaskNotCutShort
    
    RequestAnswered
CHECK_DEADLOCK FALSE
