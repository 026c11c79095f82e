CONSTANTS
    Requests = {r1, r2}
    Cancels = {r1}
    Lanes = {"interactive", "bulk"}
    MaxQueued = 2
    MaxIncoming = 1
SPECIFICATION FairSpec
INVARIANTS TypeOK OneOutcome NoneLeftBehind CancelledInFlight CancelReaches
PROPERTY ImplementsContract
CHECK_DEADLOCK FALSE
