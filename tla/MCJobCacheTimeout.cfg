SPECIFICATION MCSpec
CONSTANTS
    Processes <- MCProcesses
    Screens <- MCScreens
    Loaders <- MCLoaders
    Removers <- MCRemovers
    Home <- MCHome
    ScreenOf <- MCScreenOf
    Dirs <- MCDirs
    LeaseMayTimeOut = TRUE
    PassesSerialized = TRUE
INVARIANT OneDownload
