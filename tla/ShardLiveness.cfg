SPECIFICATION FairSpec
CONSTANTS
    Frames = {f1, f2, f3}
    Pages = {p1, p2}
    Procs = {w1, w2}
    Nil = Nil
    OnDisk = {p1}
    Ops = {"get", "new", "delete"}
    Errors = FALSE
    BgWriters = FALSE
    WindowCap = 1
    ProbationCap = 1
    ProtectedCap = 1
    MaxJobs = 4
    MaxWrites = 0
PROPERTY EveryJobEnds
CHECK_DEADLOCK FALSE
