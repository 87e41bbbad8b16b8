SPECIFICATION Spec
CONSTANTS
    MaxId = 2
    Flushers = {w1}
    ITEMS_PER_PAGE = 1
    FREE_LIST_ENTRY_SIZE = 2
    Timeouts = FALSE
    MaxDying = 1
    MaxMetas = 0
    MaxCrashes = 0
INVARIANT FileHoldsFreeList
CHECK_DEADLOCK FALSE
