SPECIFICATION Spec
CONSTANTS
    Req = {r1, r2, r3, r4}
    Limit = 2
    Window = 5
    Skew = 1
    Delay = 1
    Failures = TRUE
    MaxTime = 7
SYMMETRY Symmetry
INVARIANTS
    AtMostLimitStamps
    RefusalJustified
CHECK_DEADLOCK FALSE
