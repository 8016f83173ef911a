SPECIFICATION FairSpec
CONSTANTS
    Conns = {c1}
    Requests = {r1}
    AbortIfJoinFails = TRUE
    Retries = 1
INVARIANTS
    ReadyServes
    LeavesFirst
PROPERTIES
    FatalIsFailure
    StartEnds
    ShutdownEnds
    FailureStops
    UpstreamsClosed
CHECK_DEADLOCK FALSE
