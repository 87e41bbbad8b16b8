SPECIFICATION RecSpec
CONSTANTS
    Clients = {c1}
    Sizes = {7}
    MaxItems = 7
    MaxCheckpoints = 0
    MaxCrashes = 1
    PAGE = 24
    HDR = 2
    CHK = 4
    REDOEND = 2
    LOGHDR = 5
INVARIANTS
    RecoverReappliesLogs
CHECK_DEADLOCK FALSE
