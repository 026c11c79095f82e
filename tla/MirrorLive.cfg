CONSTANTS
    Paths = {p1}
    Contents = {a, b}
    None = None
    Anything = Anything
    MaxUnacknowledged = 2
    MaxSaves = 1
    MaxTools = 1
    MaxEdits = 0
    MaxFaults = 1
    MaxAsks = 0
SPECIFICATION FairSpec
PROPERTIES SavesSettle ComesToRest
CHECK_DEADLOCK FALSE
