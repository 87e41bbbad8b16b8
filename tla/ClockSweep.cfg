SPECIFICATION FairSpec
CONSTANTS
    N = 2
    Segs = {s1, s2}
    MAX_LOOP = 2
    MAX_RETRIES = 2
    MaxPins = 2
    MaxRefs = 1
INVARIANTS
    VictimIsExclusive
    NoEligibleMissed
PROPERTY SweepEnds
