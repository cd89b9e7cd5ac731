SPECIFICATION Spec
CONSTANTS
    o1 = o1
    o2 = o2
    w1 = w1
    w2 = w2
    NULL = NULL
    None = NULL
    Orders <- TwoOrders
    Writers <- TwoWriters
    WritersOf <- SharedAndSole
    Target <- ThreeEach
    Decisions <- ReducedOrNot
    Reports <- AllReports
    Fills <- AllFills
INVARIANTS
    FillsAreLogged
    CompletionIsEarned
    SoleWriterIsSafe
CHECK_DEADLOCK FALSE
