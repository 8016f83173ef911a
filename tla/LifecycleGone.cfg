SPECIFICATION Spec
CONSTANTS
    Conns = {c1}
    Requests = {r1}
    AbortIfJoinFails = FALSE
    Retries = 1
INVARIANT
    UpstreamsGone
CHECK_DEADLOCK FALSE
