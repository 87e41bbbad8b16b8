SPECIFICATION Spec
CONSTANTS
    Clients = {c1, c2}
    Sizes = {7}
    MaxItems = 4
    MaxCheckpoints = 0
    PAGE = 24
    HDR = 2
    CHK = 4
INVARIANTS
    LsnIsPosition
CHECK_DEADLOCK FALSE
