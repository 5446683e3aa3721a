\* Fair threads, one restart: the initial pipeline of each boot.
CONSTANTS
    l1 = l1
    m1 = m1
    p1 = p1
    p2 = p2
    NoSong = NoSong
    NoPath = NoPath
    NoJob = NoJob
    Songs = {s1}
    Paths = {f1}
    Jobs <- MCJobs
    ManualJobs <- MCManualJobs
    Nameless <- MCNone
    Pipes <- MCPipes
    MaxAttempts = 3
    MaxRuns = 0
    MaxCrashes = 1
    MaxFaults = 0
SPECIFICATION FairSpec
PROPERTIES
    OwedIsSettled
    BootRetriesFailed
CHECK_DEADLOCK FALSE
