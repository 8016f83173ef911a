SPECIFICATION Spec
CONSTANTS
    Nodes = {n1, n2}
    Conns = {c1}
    Requests = {r1}
    None = None
    MaxHops = 2
INVARIANT
    TCPStaysOpen
CHECK_DEADLOCK FALSE
