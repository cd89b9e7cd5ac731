SPECIFICATION LiveSpec
CONSTANTS
    n1 = n1
    n2 = n2
    n3 = n3
    n4 = n4
    n5 = n5
    n6 = n6
    b1 = b1
    b2 = b2
    b3 = b3
    c1 = c1
    i1 = i1
    i2 = i2
    Sockets <- SixSockets
    Heartbeats <- ThreeHeartbeats
    Reconnects <- OneReconnect
    MaxAttempts = 2
    MaxFaults = 2
    Instances <- TwoInstances
    RingSize = 1
    QueueSize = 1
    MaxWrites = 2
INVARIANTS
    TypeOK
    Watched
PROPERTIES
    FeedRecovers
    ImplementsFeed
    LastTickGetsThrough
CHECK_DEADLOCK FALSE
