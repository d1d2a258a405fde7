SPECIFICATION Spec
CONSTANTS
    User = {u1, u2}
    Req = {r1, r2, r3}
    None = None
    Overlap = TRUE
    Failures = TRUE
    ClocksAgree = FALSE
SYMMETRY Symmetry
INVARIANTS
    TypeOK
    OneSessionPerToken
    NoRefreshAfterRevocation
    OnlyOverlapLeavesTwo
    TokenReachesClient
    LogoutKillsToken
    BlockedUserGetsNothing
    OnlyOwnSessionsEnd
    LastLoginKeepsUp
PROPERTIES
    ImplementsRegistry
