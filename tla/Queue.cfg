CONSTANTS
    Callers = {t1, t2, t3}
    Drainers = {t1}
    Keys = {k1, k2}
    NoKey = NoKey
    MaxDepth = 2
    MaxJobs = 3
SPECIFICATION FairSpec
INVARIANTS TypeOK CompletedOnce IndexIsLive NothingLost DurableKept FlushRuns
PROPERTY CallersReturn
CHECK_DEADLOCK FALSE
