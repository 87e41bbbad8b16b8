SPECIFICATION Spec
CONSTANTS
    Clients = {c1}
    Sizes = {7, 9}
    MaxItems = 5
    MaxCheckpoints = 0
    PAGE = 24
    HDR = 2
    CHK = 4
INVARIANTS
    LsnIsPosition
CHECK_DEADLOCK FALSE
