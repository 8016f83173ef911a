CONSTANTS
    SampleSize = 3
    BootstrapInterval = 2
    SuspicionThreshold = 2
    NodeExpiry = 2
    MaxTime = 14
SPECIFICATION Spec
INVARIANTS WindowSum PhiDefined
PROPERTY Verdicts
