CONSTANTS
    Nodes = {n1, n2, n3}
    Keys = {k1}
    Values = {1}
    CompactThreshold = 1
    Subject = n1
    Suspicion = 0
    NodeExpiry = 2
    Spread = 1
    MaxInFlight = 1
SPECIFICATION FairSpec

PROPERTY CrashedForgotten
