CONSTANTS
    MaxFrame = 4
    AckEvery = 3
    Floor = 2
    Cap = 3
    Initial = 2
    Pins = {0, 1, 4}
    PipeSize = 2
    MaxSends = 5
    MaxPins = 2
SPECIFICATION FairSpec
INVARIANTS TypeOK WindowHolds AcksHonest KeystrokeWaits
PROPERTY BulkArrives
CHECK_DEADLOCK FALSE
