CONSTANTS
    Nodes = {owner}
    Keys = {"proxy_addr", "admin_addr", "e1"}
    Values = {1}
    CompactThreshold = 1
    Relayed = FALSE
    Suspectable = TRUE
    MaxListeners = 1
    MaxVersion = 4
    MaxRemovals = 1
SPECIFICATION FairSpec
PROPERTY Converges
