CONSTANTS
    Paths = {p1}
    Contents = {a, b}
    None = None
    Anything = Anything
    MaxUnacknowledged = 2
    MaxSaves = 2
    MaxTools = 0
    MaxEdits = 0
    MaxFaults = 1
    MaxAsks = 1
SPECIFICATION Spec
SYMMETRY Symmetry
INVARIANT SaveAccounted
CHECK_DEADLOCK FALSE
