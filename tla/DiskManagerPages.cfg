SPECIFICATION FairSpec
CONSTANTS
    Requests = {r1, r2}
    Offsets = {o1, o2}
    Kinds = {"read", "write", "flush", "dead"}
    Nil = Nil
INVARIANTS
    NoStrandedJob
    JobConserved
    FlushedIsDurable
PROPERTIES
    ImplementsPageFile
    EveryRequestAnswered
CHECK_DEADLOCK FALSE
