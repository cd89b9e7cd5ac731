SPECIFICATION Spec
CONSTANTS
    o1 = o1
    o2 = o2
    w1 = w1
    w2 = w2
    NULL = NULL
    None = NULL
    Orders <- OneOrder
    Writers <- TwoWriters
    WritersOf <- Shared
    Target <- Three
    Decisions <- Reduced
    Reports <- OpeningReports
    Fills <- TwoFills
INVARIANT EveryCapIsKept
CHECK_DEADLOCK FALSE
