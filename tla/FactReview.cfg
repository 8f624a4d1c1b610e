CONSTANTS
    Diffs = {"d1", "d2", "d3", "d4"}
    Smuggled = {"d4"}
    Contents = {"c1", "c2"}
    Handlers = {"h1", "h2"}
    NoFact = NoFact
    NoDiff = NoDiff
    MaxBegins = 3
SPECIFICATION Spec
CONSTRAINT MCBound
INVARIANTS
    TypeOK
    NoLostSupersession
    DuplicatesOnlyIfConcurrent
    ValidityNeverRunsBackwards
PROPERTIES
    ImplementsContract
    ApprovalsEnd
