SPECIFICATION Spec
CONSTANTS
    Diffs = {1}
    Requests = {2}
    Warnings = {}
    PollLimit = 1
    MaxFrames = 1
    MaxEnds = 1
    Clients = {"approver"}
PROPERTIES
    ResolvedItemsLeave
CHECK_DEADLOCK FALSE
