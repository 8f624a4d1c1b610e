CONSTANTS
    g1 = g1
    g2 = g2
    bad = bad
    Grants = {g1, g2, bad}
    Malformed = {bad}
    Expiry <- MCExpiry
    TombstoneTTL = 1
    MaxLoad = 1
    MaxTime = 3
SPECIFICATION Spec
INVARIANTS
    TypeOK
    GoneStaysGone
    OnlyTheDeadAreDropped
    SnapshotsAreCovered
PROPERTIES
    RevocationTakesEffect
    ImplementsContract
