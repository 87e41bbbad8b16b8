SPECIFICATION Spec
CONSTANTS
    a = a
    b = b
    c = c
    NoLog = NoLog
    Writers = {w1, w2}
    Logs <- MCLogs
    Waited <- MCWaited
    Debug <- MCDebug
INVARIANTS
    QueueIsList
    WrittenOnce
    OrderUpToRunners
PROPERTIES
    EveryLogWritten
    EveryCallerAnswered
