SPECIFICATION Spec
CONSTANTS
    Frames = {f1, f2, f3, f4}
    Pages = {p1, p2, p3, p4}
    Procs = {w1}
    Nil = Nil
    OnDisk = {p1, p2, p3}
    Ops = {"get", "new"}
    Errors = FALSE
    BgWriters = TRUE
    WindowCap = 1
    ProbationCap = 2
    ProtectedCap = 1
    MaxJobs = 6
    MaxWrites = 2
SYMMETRY Symmetry
INVARIANTS
    NoLostWrite
    GetReturnsPage
CHECK_DEADLOCK FALSE
