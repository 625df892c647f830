\* POSIX: one producer under fair scheduling, two consumers, one kill.
CONSTANTS
    p1 = p1
    p2 = p2
    c1 = c1
    c2 = c2
    NoProducer = NoProducer
    Producers <- OneProducer
    Consumers <- TwoConsumers
    Total = 8
    MaxLen = 2
    Values = {7}
    SysV = FALSE
    MaxKills = 1
SPECIFICATION FairSpec
INVARIANTS
    NobodyLeavesEarly
PROPERTIES
    ProducerFinishes
CHECK_DEADLOCK FALSE
