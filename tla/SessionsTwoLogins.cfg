SPECIFICATION Spec
CONSTANTS
    User = {u1}
    Req = {r1, r2, r3}
    None = None
    Overlap = TRUE
    Failures = FALSE
    ClocksAgree = TRUE
SYMMETRY Symmetry
INVARIANTS
    SingleSessionPerPlatform
