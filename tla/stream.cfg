SPECIFICATION FairSpec
CONSTANTS
    PerSecond = 2
    Places = {1, 2}
    Zone = 1
    Sessions = {s1}
    MaxPending = 2
    Clients = {c1}
    MaxClock = 3
    MaxRows = 3
    MaxReceived = 3
    Deletions = 1
    Sinces = {2}
    Watched = {3}
INVARIANTS DeliveredOnceInOrder ListAgreesWithGet
PROPERTIES DeletedStaysDeleted CaughtUp
CHECK_DEADLOCK FALSE
