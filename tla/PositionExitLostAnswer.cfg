SPECIFICATION Spec
CONSTANTS
    i1 = i1
    i2 = i2
    p1 = p1
    p2 = p2
    p3 = p3
    p4 = p4
    o1 = o1
    o2 = o2
    o3 = o3
    s1 = s1
    s2 = s2
    e1 = e1
    r1 = r1
    Requested = 1
    Executor = "live"
    Instances <- OneInstance
    Positions <- OnePosition
    Orders <- TwoOrders
    Signals <- OneSignal
    Exits <- OneExit
    Reductions <- NoTask
    MaxFill = 1
    MaxCrashes = 0
    StoreMayFail = FALSE
    BusyStore = FALSE
INVARIANTS
    SoldStaysReserved
CHECK_DEADLOCK FALSE
