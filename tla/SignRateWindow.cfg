CONSTANTS
    Callers = {c1, c2}
    Limit = 2
    Window = 2
    MaxTime = 5
SPECIFICATION Spec
INVARIANTS
    AtMostLimitPerWindow
