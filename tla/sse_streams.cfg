\* Two clients that come in time, and a job that is tried twice.
CONSTANTS
    a = a
    b = b
    Streams <- MCStreams
    KeepAlive = 1
    Ttl = 2
    OpenWithin = 1
    MaxPuts = 2
SPECIFICATION FairSpec
INVARIANTS
    TypeOK
    SweptIsOrphaned
    OnlyClientMissesNothing
PROPERTY OnlyClientIsTold
CHECK_DEADLOCK FALSE
