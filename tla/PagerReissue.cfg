SPECIFICATION Spec
CONSTANTS
    MaxId = 2
    Flushers = {w1}
    ITEMS_PER_PAGE = 2
    FREE_LIST_ENTRY_SIZE = 2
    Timeouts = FALSE
    MaxDying = 1
    MaxMetas = 1
    MaxCrashes = 1
INVARIANT NewPageIdIsNew
CHECK_DEADLOCK FALSE
