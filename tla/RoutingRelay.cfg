CONSTANTS
    Nodes = {owner}
    Keys = {"proxy_addr", "admin_addr", "e1"}
    Values = {1}
    CompactThreshold = 1
    Relayed = TRUE
    Suspectable = FALSE
    MaxListeners = 1
    MaxVersion = 7
    MaxRemovals = 1
SPECIFICATION Spec
INVARIANTS WalkIsApply AddedInTime
PROPERTY NoFlap
