SPECIFICATION MCSpec
CONSTANTS
    Processes <- MCProcesses
    Screens <- MCScreens
    Loaders <- MCLoaders
    Removers <- MCRemovers
    Home <- MCHome
    ScreenOf <- MCScreenOf
    Dirs <- MCDirs
    LeaseMayTimeOut = FALSE
    PassesSerialized = TRUE
INVARIANTS DownloadsAreGuarded NoDescriptorLeaks ScreensKeepTheirWord
PROPERTIES ScreensSettle
