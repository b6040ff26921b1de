CONSTANTS
    Chunks <- MCChunks
    Rows <- MCRows
    CheckpointChunks = 2
SPECIFICATION MCSpec
INVARIANTS TypeOK CommittedIsStream
PROPERTIES CrashKeepsProgress ReplacedWhole FilesAreWhole NoticesAreTrue DownloadsComplete ImplementsCommittedRows ImplementsSavedFile
CHECK_DEADLOCK FALSE
