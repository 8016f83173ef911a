CONSTANTS
    Sessions = {s1, s2}
    NoSession = nil
    Conns = {c1}
    MaxAbandoned = 1
    Apart = TRUE
SPECIFICATION FairSpec
INVARIANTS OneSession NoLeak
PROPERTIES Reconnects ExpiryEnds CloseEnds CancelReturns TunnelEnds
CHECK_DEADLOCK FALSE
