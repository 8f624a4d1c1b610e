CONSTANTS
    g1 = g1
    g2 = g2
    bad = bad
    Grants = {g1, g2}
    Malformed = {}
    Expiry <- MCExpiry
    TombstoneTTL = 1
    MaxLoad = 1
    MaxTime = 3
SPECIFICATION Spec
INVARIANT ReconnectClosesGap
