CONSTANTS
    Item = {i1, i2, i3}
    MarketId = {m1, m2}
    DefaultLimit = 1
    MaxLimit = 2
    Absent = Absent
    Junk = Junk
    Nothing = Nothing
SPECIFICATION Spec
INVARIANTS WalkMissesFew WalkSeesOnlyMatching
