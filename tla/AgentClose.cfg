CONSTANTS
    Sessions = {s1, s2}
    NoSession = nil
    Conns = {c1}
    MaxAbandoned = 1
    Apart = TRUE
SPECIFICATION FairSpec
PROPERTY CloseUnregisters
CHECK_DEADLOCK FALSE
