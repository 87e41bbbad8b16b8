SPECIFICATION RecSpec
CONSTANTS
    Clients = {c1}
    Sizes = {7, 9, 40}
    MaxItems = 5
    MaxCheckpoints = 1
    MaxCrashes = 2
    PAGE = 24
    HDR = 2
    CHK = 4
    REDOEND = 2
    LOGHDR = 5
INVARIANTS
    WalkableIsRecovered
    LsnsContinue
CHECK_DEADLOCK FALSE
