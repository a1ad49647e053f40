SPECIFICATION FairSpec
CONSTANTS
    Sessions = {s1, s2}
    Subscribers = {c1, c2, c3}
    Publishers = {p1}
    Capacity = 1
    MaxMessages = 2
    None = None
INVARIANTS ListsOpenChannels DeliveredAsEmitted
PROPERTIES PublishReturns
CHECK_DEADLOCK FALSE
