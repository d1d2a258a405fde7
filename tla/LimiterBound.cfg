SPECIFICATION Spec
CONSTANTS
    Req = {r1, r2, r3, r4}
    None = None
    Limit = 2
    Interval = 2
    Stall = 2
    MaxRestarts = 1
    MaxTime = 11
SYMMETRY Symmetry
INVARIANTS
    BurstPlusRate
    RefusalJustified
PROPERTIES
    ImplementsBucket
CHECK_DEADLOCK FALSE
