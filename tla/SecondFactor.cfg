SPECIFICATION Spec
CONSTANTS
    Procs = {p1, p2}
    Rotators = {o1}
    Masters = {m1, m2}
    Created = m1
    Absent = Absent
    Partial = Partial
    NoKey = NoKey
    Tokens = {boot, t1, t2}
    Bootstrap = boot
    Passkeys = {k1}
    Handlers = {h1, h2}
    NoToken = NoToken
    Gone = Gone
    MaxNonce = 3
INVARIANTS TypeOK EnrolledSecretsOpen BootstrapStaysFactorless MintsAreProved
PROPERTIES OutOfOrderOnlyIfOvertaken
CHECK_DEADLOCK FALSE
CONSTRAINT MCBound
SYMMETRY Symmetry
