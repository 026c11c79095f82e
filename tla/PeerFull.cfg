CONSTANTS
    Requests = {r1, r2}
    Cancels = {}
    Lanes = {"interactive"}
    MaxQueued = 2
    MaxIncoming = 1
SPECIFICATION FairSpec
PROPERTY ServerGoesOn
CHECK_DEADLOCK FALSE
