\* One LB and one manual track, two pipeline threads, one restart.
CONSTANTS
    l1 = l1
    m1 = m1
    p1 = p1
    p2 = p2
    NoSong = NoSong
    NoPath = NoPath
    NoJob = NoJob
    Songs = {s1}
    Paths = {f1}
    Jobs <- MCJobs
    ManualJobs <- MCManualJobs
    Nameless <- MCOneLB
    Pipes <- MCTwoPipes
    MaxAttempts = 2
    MaxRuns = 1
    MaxCrashes = 1
    MaxFaults = 0
SPECIFICATION Spec
SYMMETRY PipeSymmetry
INVARIANT CarriedHasRow
PROPERTY SettledStaysSettled
CHECK_DEADLOCK FALSE
