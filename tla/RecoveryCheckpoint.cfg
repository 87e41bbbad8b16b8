SPECIFICATION RecSpec
CONSTANTS
    Clients = {c1}
    Sizes = {7}
    MaxItems = 3
    MaxCheckpoints = 1
    MaxCrashes = 1
    PAGE = 24
    HDR = 2
    CHK = 4
    REDOEND = 2
    LOGHDR = 5
INVARIANTS
    CheckpointInWal
CHECK_DEADLOCK FALSE
