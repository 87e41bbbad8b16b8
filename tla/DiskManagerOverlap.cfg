SPECIFICATION Spec
CONSTANTS
    Requests = {r1, r2}
    Offsets = {o1, o2}
    Kinds = {"read", "write", "flush", "dead"}
    Nil = Nil
INVARIANTS
    ConcurrentWritesOnDistinctPages
CHECK_DEADLOCK FALSE
