SPECIFICATION MCSpec
CONSTANTS
    Sessions <- MCSessions
    Downloads = {"d"}
    Threads = {"m", "n"}
    Checks = {"n"}
    PerKey = 1
    Attempts = 2
    MaxGeneration = 1
INVARIANT KeptIsQuiet
