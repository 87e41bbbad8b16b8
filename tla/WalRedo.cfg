SPECIFICATION Spec
CONSTANTS
    Clients = {c1}
    Sizes = {7}
    MaxItems = 6
    MaxCheckpoints = 1
    PAGE = 24
    HDR = 2
    CHK = 4
INVARIANTS
    RedoAfterLog
CHECK_DEADLOCK FALSE
