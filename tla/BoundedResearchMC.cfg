SPECIFICATION BoundedSpec
CONSTANTS
    a1 = a1
    a2 = a2
    a3 = a3
    x1 = x1
    w1 = w1
    c1 = c1
    c2 = c2
    s1 = s1
    s2 = s2
    h1 = h1
    NULL = NULL
    None = NULL
    Experiments <- TheExperiments
    Automated <- TheAutomated
    Smoke <- TheSmoke
    SnapshotOf <- TheSnapshots
    Coordinators <- TheCoordinators
    Writers <- TheWriters
    Holdouts <- TheHoldouts
    Rows <- TheRows
    HoldoutOf <- Nowhere
    Campaign <- OneFamily
    Predecessor <- Nowhere
    Floor <- NoFloor
    MaxGates <- NoGates
    ClockMayStepBack = FALSE
SYMMETRY InvocationSymmetry
INVARIANTS
    OneRunPerSnapshot
    RunnerCountsItsOwnPlan
CHECK_DEADLOCK FALSE
