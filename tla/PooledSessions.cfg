SPECIFICATION FairMCSpec
CONSTANTS
    User = {u1}
    Req = {r1, r2, r3, r4}
    None = None
    Overlap = TRUE
    Failures = TRUE
    ClocksAgree = TRUE
    MaxOpenConns = 2
    First = r1
    MaxChanges = 1
INVARIANTS
    ConnectionsReturn
PROPERTIES
    EveryRequestAnswered
