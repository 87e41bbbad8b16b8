SPECIFICATION Spec
CONSTANTS
    MaxId = 2
    Flushers = {w1}
    ITEMS_PER_PAGE = 1
    FREE_LIST_ENTRY_SIZE = 1
    Timeouts = TRUE
    MaxDying = 1
    MaxMetas = 1
    MaxCrashes = 1
INVARIANTS
    FlushedIdsUnique
    PageCountExact
CHECK_DEADLOCK FALSE
