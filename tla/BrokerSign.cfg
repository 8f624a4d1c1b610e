CONSTANTS
    Grants = {g1, g2}
    Conns = {k1, k2}
    Limit = 1
    NoGrant = NoGrant
SPECIFICATION Spec
INVARIANTS
    TypeOK
    KeyOutlivesItsUsers
    RevokedBeforeAskedIsRefused
    AuditMatchesSignatures
PROPERTIES
    
    ShutdownEnds
