SPECIFICATION RecSpec
CONSTANTS
    Clients = {c1, c2}
    Sizes = {7}
    MaxItems = 4
    MaxCheckpoints = 0
    MaxCrashes = 1
    PAGE = 24
    HDR = 2
    CHK = 4
    REDOEND = 2
    LOGHDR = 5
INVARIANTS
    MaxLsnFromSize
CHECK_DEADLOCK FALSE
