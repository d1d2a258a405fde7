SPECIFICATION Spec
CONSTANTS
    Email = {e1, e2}
    Password = {p1, p2}
    Req = {r1, r2, r3}
    None = None
    Failures = TRUE
SYMMETRY Symmetry
INVARIANTS
    IdentityOfOwner
    VerifiedWhenToldSo
    UsedTokenExplained
    OrphanExplained
    OnlyMailboxVerifies
    ResendTruthful
PROPERTIES ImplementsLifecycle
CHECK_DEADLOCK FALSE
