SPECIFICATION Spec
CONSTANTS
    Frames = {f1, f2, f3}
    Pages = {p1, p2, p3}
    Procs = {w1, w2}
    Nil = Nil
    OnDisk = {p1, p2}
    Ops = {"get", "new"}
    Errors = TRUE
    BgWriters = TRUE
    WindowCap = 1
    ProbationCap = 1
    ProtectedCap = 1
    MaxJobs = 6
    MaxWrites = 0
SYMMETRY Symmetry
INVARIANTS
    NoPanic
    MainCountsExact
    PinsCoverHolders
PROPERTY HeldIsStable
CHECK_DEADLOCK FALSE
