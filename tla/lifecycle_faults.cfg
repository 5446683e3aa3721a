\* The pipeline of each boot, two restarts and one statement that raises.
CONSTANTS
    l1 = l1
    m1 = m1
    p1 = p1
    p2 = p2
    NoSong = NoSong
    NoPath = NoPath
    NoJob = NoJob
    Songs = {s1}
    Paths = {f1}
    Jobs <- MCJobs
    ManualJobs <- MCManualJobs
    Nameless <- MCOneLB
    Pipes <- MCPipes
    MaxAttempts = 2
    MaxRuns = 0
    MaxCrashes = 2
    MaxFaults = 1
SPECIFICATION Spec
INVARIANTS
    TypeOK
    NoLostWork
    DownloadingIsRunning
PROPERTY KeepsPromises
CHECK_DEADLOCK FALSE
