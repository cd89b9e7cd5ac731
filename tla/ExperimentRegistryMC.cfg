SPECIFICATION Spec
CONSTANTS
    x1 = x1
    x2 = x2
    x3 = x3
    w1 = w1
    w2 = w2
    h1 = h1
    NULL = NULL
    None = NULL
    Writers <- TwoWriters
    Holdouts <- OneHoldout
    Experiments <- Trio
    Rows <- TrioRows
    HoldoutOf <- TrioHoldout
    Campaign <- TrioCampaign
    Predecessor <- TrioPredecessor
    Floor <- TrioFloor
    MaxGates <- TrioGates
    ClockMayStepBack = TRUE
SYMMETRY WriterSymmetry
INVARIANTS
    TypeOK
    SuccessorsFollowMissingData
    HoldoutReviewedForOneExperiment
    GatesAreAnUnbrokenRun
    ShadowReviewIsEarned
PROPERTY StressCountIsCurrent
CHECK_DEADLOCK FALSE
