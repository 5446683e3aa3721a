SPECIFICATION Spec
CONSTANTS
    a = a
    b = b
    a1 = a1
    a2 = a2
    b1 = b1
    Jobs <- MCJobs
    Paths <- MCPaths
    Home <- MCHome
    Songs = {"song"}
    NoSong = NoSong
    NoPath = NoPath
    NoJob = NoJob
    MaxAttempts = 2
    MaxPuts <- MCMaxPuts
    MaxMishaps = 1
INVARIANT RecordedIsCopied
CHECK_DEADLOCK FALSE
