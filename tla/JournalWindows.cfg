SPECIFICATION FairSpec
CONSTANTS
    Contents = {a, b}
    None = None
    HostWrites = {a, None}
    MaxSaves = 2
    MaxHostEdits = 1
    MaxCrashes = 1
    MaxLosses = 0
CHECK_DEADLOCK FALSE
PROPERTY PushesOnTop
