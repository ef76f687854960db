SPECIFICATION Spec
CONSTANTS
    Writers = {w1, w2}
    Scheduled = {w2}
    MaxId = 4
    MaxKey = 2
    BatchSize = 1
    MaxFaults = 1
    MaxRemoved = 1
INVARIANT TypeOK
INVARIANT UntouchedVerifies
INVARIANT RemovalIsSeen
CHECK_DEADLOCK FALSE
