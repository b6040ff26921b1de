CONSTANTS
    Null = Null
    NumCalls = 3
    MaxChunks = 1
    Pages = 1
    Attempts = 1
    MaxOps = 3
    MaxLate = 0
SPECIFICATION MCSpec
INVARIANTS TagsMatch
ACTION_CONSTRAINT FollowsLoop
CHECK_DEADLOCK FALSE
