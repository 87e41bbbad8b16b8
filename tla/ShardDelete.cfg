SPECIFICATION Spec
CONSTANTS
    Frames = {f1, f2, f3}
    Pages = {p1, p2}
    Procs = {w1, w2}
    Nil = Nil
    OnDisk = {p1, p2}
    Ops = {"get", "delete"}
    Errors = FALSE
    BgWriters = FALSE
    WindowCap = 1
    ProbationCap = 1
    ProtectedCap = 1
    MaxJobs = 5
    MaxWrites = 0
SYMMETRY Symmetry
INVARIANT HeldIsPinned
CHECK_DEADLOCK FALSE
