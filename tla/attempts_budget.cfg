\* One track, tried more often than the budget allows.
CONSTANTS
    l1 = l1
    m1 = m1
    p1 = p1
    p2 = p2
    NoSong = NoSong
    NoPath = NoPath
    NoJob = NoJob
    Songs = {s1}
    Paths = {f1}
    Jobs <- MCOneLB
    ManualJobs <- MCNone
    Nameless <- MCNone
    Pipes <- MCPipes
    MaxAttempts = 3
    MaxRuns = 3
    MaxCrashes = 0
    MaxFaults = 0
SPECIFICATION Spec
INVARIANT AttemptsWithinBudget
CHECK_DEADLOCK FALSE
