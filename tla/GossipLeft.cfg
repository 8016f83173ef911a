CONSTANTS
    Nodes = {n1, n2}
    Keys = {k1}
    Values = {1}
    CompactThreshold = 1
    Seeds = {n2}
    Writers = {n1}
    Suspectable = {}
    Detectors = {}
    DigestSize = 2
    MaxVersion = 4
    MaxInFlight = 2
    Relays = {}
SPECIFICATION Spec
PROPERTY LeftIsFinal
