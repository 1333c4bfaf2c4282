SPECIFICATION FairSpec
CONSTANTS
    Task = {k1, k2}
    Worker = {w1, w2}
    Threshold = 2
    MaxTries = 2
    MaxFaults = 2
INVARIANTS
    AcksAgree
    FailuresCountedOnce
PROPERTIES
    ImplementsLeaseContract
    EveryTaskEnds
CHECK_DEADLOCK FALSE
