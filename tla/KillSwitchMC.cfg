SPECIFICATION LiveSpec
CONSTANTS
    h1 = h1
    h2 = h2
    s1 = s1
    s2 = s2
    Handlers <- TwoHandlers
    Signals <- TwoSignals
    HandlerOf <- BothOfTheFirst
    MaxApiFailures = 2
    MaxNonceErrors = 1
    MaxPositions <- TwoThenOne
    MaxReviews = 1
    MaxOutages = 1
    MaxCrashes = 1
INVARIANTS
    TypeOK
    TrippedIsStopped
PROPERTIES
    ImplementsLatch
    StormIsPersisted
    HaltQuiesces
\* Without a signal, a start or a review left the system is at rest.
CHECK_DEADLOCK FALSE
