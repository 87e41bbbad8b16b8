SPECIFICATION Spec
CONSTANTS
    Frames = {f1, f2, f3}
    Pages = {p1, p2}
    Procs = {w1}
    Nil = Nil
    OnDisk = {p1}
    Ops = {"get"}
    Errors = FALSE
    BgWriters = FALSE
    WindowCap = 1
    ProbationCap = 1
    ProtectedCap = 1
    MaxJobs = 3
    MaxWrites = 0
SYMMETRY Symmetry
INVARIANT IdlePoolServes
CHECK_DEADLOCK FALSE
