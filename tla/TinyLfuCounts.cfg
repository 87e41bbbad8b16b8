SPECIFICATION Spec
CONSTANTS
    Procs = {g1, g2, g3}
    Keys = {"k1", "k2"}
    Bits = {1, 2, 3}
    Bit <- MCBit
    Rows = {1, 2}
    Columns = {1, 2}
    Cell <- MCCell
    SAMPLE_SIZE = 2
    MaxAccesses = 7
INVARIANTS
    NeverUnderestimates
    FirstAccessesBounded
    SampleBounded
    ResetsBounded
CHECK_DEADLOCK FALSE
