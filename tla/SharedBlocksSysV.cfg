\* System V: two producers that may overlap, two consumers, one kill.
CONSTANTS
    p1 = p1
    p2 = p2
    c1 = c1
    c2 = c2
    NoProducer = NoProducer
    Producers <- TwoProducers
    Consumers <- TwoConsumers
    Total = 7
    MaxLen = 2
    Values = {7}
    SysV = TRUE
    MaxKills = 1
SPECIFICATION Spec
SYMMETRY Symmetry
INVARIANTS
    LockAccounted
    
    
CHECK_DEADLOCK FALSE
