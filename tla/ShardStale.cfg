SPECIFICATION Spec
CONSTANTS
    Frames = {f1, f2, f3}
    Pages = {p1, p2, p3}
    Procs = {w1, w2}
    Nil = Nil
    OnDisk = {p1, p2, p3}
    Ops = {"get"}
    Errors = FALSE
    BgWriters = FALSE
    WindowCap = 1
    ProbationCap = 1
    ProtectedCap = 1
    MaxJobs = 6
    MaxWrites = 0
SYMMETRY Symmetry
INVARIANT GetReturnsPage
CHECK_DEADLOCK FALSE
