SPECIFICATION FairSpec
CONSTANTS
    Clients = {c1, c2}
    Sizes = {7, 9, 40}
    MaxItems = 5
    MaxCheckpoints = 1
    PAGE = 24
    HDR = 2
    CHK = 4
INVARIANTS
    LsnsDisjoint
    OffsetInPage
    ItemsConserved
    AlignedInOrder
    RedoBetweenRecords
PROPERTY EveryLogWritten
CHECK_DEADLOCK FALSE
