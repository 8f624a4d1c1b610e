CONSTANTS
    Grants = {g1}
    Conns = {k1}
    Limit = 1
    NoGrant = NoGrant
SPECIFICATION Spec
PROPERTY PreflightIsNoFalsePositive
