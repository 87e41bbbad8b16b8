SPECIFICATION Spec
CONSTANTS
    Clients = {c1, c2}
    First = first
    Keys = {1, 2, 3, 4, 5, 6, 7, 8, 9, 10, 11, 12, 13, 14, 15, 16, 17, 18, 19, 20}
    Vals = {"a", "b", "empty"}
    FirstVal = "a"
    Empty = "empty"
    Scripts <- MCScripts
    Limits = {2}
INVARIANTS TreeIsSound DeletionKeepsOtherKeys ReadersAreHonest NoPanicWithoutDeletion
PROPERTIES ImplementsKVStore EveryCallEnds
CHECK_DEADLOCK FALSE
