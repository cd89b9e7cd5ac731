SPECIFICATION LiveSpec
CONSTANTS
    o1 = o1
    r1 = r1
    Orders <- OneOrder
    Recoverers <- OneRecoverer
    Requested = 2
    MaxFill = 3
    MaxTransitions = 5
INVARIANTS
    TypeOK
    AuditTrailIsExact
    FilledIsEarned
    RecoveryReplyIsTrue
PROPERTIES
    AppendsOnlyNews
    OutcomeIsDecidedOnce
    ColdRecoverySettles
CHECK_DEADLOCK FALSE
