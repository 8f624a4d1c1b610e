SPECIFICATION Spec
CONSTANTS
    Requests = {r1}
    GrantIds = {g1, g2}
    Handlers = {h1, h2}
    Terms <- MCTerms
    Malformed <- MCMalformed
    Ttls = {2, 5}
    MaxGrantTtl = 2
    Int4Range = 8
    NoTerms = NoTerms
    NoGrant = NoGrant
    NoArg = NoArg
    Never = Never
    MaxTime = 2
    NoTarget = NoTarget
    LookAlikes <- MCLookAlikes
    Calls = {}
    Facts = {"plan", "budget", "other"}
    FactScopes <- MCFactScopes
    Asks <- MCAsks
    Limit = 1
    Window = 2
    NoFact = NoFact
SYMMETRY Symmetry
PROPERTY LapsedStaysLapsed
CHECK_DEADLOCK FALSE
CONSTRAINT MCBound
