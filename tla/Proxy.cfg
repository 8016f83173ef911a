SPECIFICATION FairSpec
CONSTANTS
    Nodes = {n1, n2}
    Conns = {c1, c2}
    Requests = {r1}
    None = None
    MaxHops = 3
INVARIANTS
    OneHop
    RefusedForCause
PROPERTIES
    Answered
    NoOrphans
CHECK_DEADLOCK FALSE
