SPECIFICATION FairSpec
CONSTANTS
    Contents = {a, b}
    None = None
    HostWrites = {a, None}
    MaxSaves = 2
    MaxHostEdits = 1
    MaxCrashes = 1
    MaxLosses = 1
CHECK_DEADLOCK FALSE
INVARIANTS TypeOK StateVouched
PROPERTIES UnsentKept PushesFounded SaveSettles
