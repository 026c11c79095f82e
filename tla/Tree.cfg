SPECIFICATION FairSpec
CONSTANTS
    Contents = {a, h, g}
    FirstBytes = {h}
    UserBytes = {a}
    HostBytes = {g}
    None = None
    Paths = {x, y}
    MaxUser = 2
    MaxHostEdits = 1
    MaxFaults = 1
CHECK_DEADLOCK FALSE
INVARIANT TypeOK
PROPERTIES HostKept 
