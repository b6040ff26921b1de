SPECIFICATION MCSpec
CONSTANTS
    Sessions <- MCSessions
    Downloads = {"d", "e"}
    Threads = {"m"}
    Checks = {}
    PerKey = 2
    Attempts = 2
    MaxGeneration = 0
INVARIANTS SessionsAreOwned SharedAttemptsRunOpen
PROPERTIES SharedCallsEnd
