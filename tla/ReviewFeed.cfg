SPECIFICATION Spec
CONSTANTS
    Diffs = {1, 2}
    Requests = {3}
    Warnings = {4}
    PollLimit = 1
    MaxFrames = 1
    MaxEnds = 1
    Clients = {"pushbridge", "approver"}
CONSTRAINT MCBound
INVARIANTS
    TypeOK
    NothingFallsBetween
    
    PromptIsForAQueuedItem
PROPERTIES
    SelectionFollowsItem
    ListedItemsArrive
    ResolutionsArrive
CHECK_DEADLOCK FALSE
