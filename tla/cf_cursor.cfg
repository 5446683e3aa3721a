\* Two pipelines, a new model, two mishaps, fair threads.
CONSTANTS
    sched = sched
    manual = manual
    a = a
    b = b
    c = c
    Pipes <- MCPipes
    Scheduler = sched
    Mbids <- MCMbids
    NoMbid = NoMbid
    Ranks <- MCRanks
    Nameless = {c}
    Count = 2
    RadioCount = 1
    MaxMishaps = 2
SPECIFICATION FairSpec
INVARIANTS
    TypeOK
    CursorSkipsNothing
PROPERTY EverythingComes
