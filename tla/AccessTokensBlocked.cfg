CONSTANTS
    User = {u1}
    Grant = {g1, g2}
    Use = {r1}
    None = None
    Sec = 2
    TTL = 2
    WriteTimeout = 1
    MaxTime = 7
SYMMETRY Symmetry
SPECIFICATION Spec
INVARIANTS BlockedOutSoon ExpiresInHonest
CHECK_DEADLOCK FALSE
