CONSTANTS
    Nodes = {n1, n2, n3}
    Keys = {k1}
    Values = {1}
    CompactThreshold = 1
    Seeds = {n2}
    Writers = {n1}
    Suspectable = {n1}
    Detectors = {n2}
    DigestSize = 3
    MaxVersion = 4
    MaxInFlight = 2
    Relays = {n3}
SPECIFICATION Spec
INVARIANTS IInv NoGap CaughtUp
PROPERTY Forward
