CONSTANTS
    Paths = {p1}
    Contents = {a, b, c}
    None = None
    Anything = Anything
    MaxUnacknowledged = 1
    MaxSaves = 0
    MaxTools = 1
    MaxEdits = 1
    MaxFaults = 2
    MaxAsks = 0
SPECIFICATION Spec
SYMMETRY Symmetry
INVARIANTS TypeOK BaseIsShared QuietConverged
PROPERTIES NoSilentHostLoss NoSilentLocalLoss
CHECK_DEADLOCK FALSE
