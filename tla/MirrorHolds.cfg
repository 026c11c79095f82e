CONSTANTS
    Paths = {p1, p2}
    Contents = {a}
    None = None
    Anything = Anything
    MaxUnacknowledged = 2
    MaxSaves = 1
    MaxTools = 0
    MaxEdits = 1
    MaxFaults = 0
    MaxAsks = 2
SPECIFICATION Spec
SYMMETRY Symmetry
INVARIANTS QuietConverged
CHECK_DEADLOCK FALSE
