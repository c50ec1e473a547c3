CONSTANTS
    MaxSends = 2
    MaxChunks = 2
    MaxOpens = 3
    MaxStored = 2
SPECIFICATION PlaygroundSpec
INVARIANTS
    PendingCanBeStopped
    AnswerIsItsOwn
    ShownIsKept
CHECK_DEADLOCK FALSE
