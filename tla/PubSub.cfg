SPECIFICATION FairSpec
CONSTANTS
  b1 = b1  b2 = b2  p1 = p1  p2 = p2  s1 = s1  s2 = s2  t1 = t1  t2 = t2
  Brokers = {b1, b2}
  Providers = {p1}
  Subscribers = {s1, s2}
  Topics = {t1, t2}
  TopicOf <- MCTopicOf
  TopicsOf <- MCTopicsOf
  Capacity = 2
  MaxSent = 2
  MaxQueues = 2
  MaxSignals = 1
  MaxKills = 1
INVARIANTS
    DeliveredInOrder
    TableFollowsSubscribers
PROPERTIES
    LoopsEnd
CHECK_DEADLOCK FALSE
