CONSTANTS
    Null = Null
    NumCalls = 3
    MaxChunks = 3
    Pages = 2
    Attempts = 2
    MaxOps = 2
    MaxLate = 1
SPECIFICATION MCSpec
INVARIANTS RequestsAreExact TagsMatchInOrder RecipesAreExact JobsAreAsAsked
PROPERTIES SubmitsEnd ConnectionsAgree
ACTION_CONSTRAINT FollowsLoop
CHECK_DEADLOCK FALSE
