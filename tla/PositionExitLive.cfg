SPECIFICATION Spec
CONSTANTS
    i1 = i1
    i2 = i2
    p1 = p1
    p2 = p2
    p3 = p3
    p4 = p4
    o1 = o1
    o2 = o2
    o3 = o3
    s1 = s1
    s2 = s2
    e1 = e1
    r1 = r1
    Requested = 2
    Executor = "live"
    Instances <- OneInstance
    Positions <- OnePosition
    Orders <- TwoOrders
    Signals <- TwoSignals
    Exits <- OneExit
    Reductions <- NoTask
    MaxFill = 3
    MaxCrashes = 1
    StoreMayFail = TRUE
    BusyStore = TRUE
INVARIANTS
    TypeOK
    ExclusiveReservation
    ClosedMeansSold
    LedgerNeverOverstates
SYMMETRY LiveSymmetry
CHECK_DEADLOCK FALSE
