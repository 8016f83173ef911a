SPECIFICATION Spec
CONSTANTS
    Conns = {c1}
    Requests = {r1}
    AbortIfJoinFails = FALSE
    Retries = 5
INVARIANT
    JoinRetries
CHECK_DEADLOCK FALSE
