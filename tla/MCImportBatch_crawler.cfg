SPECIFICATION FairSpec
CONSTANTS
    Row = {n1, n2, n3}
    Run = {a, b}
    NoRun = NoRun
    MaxRetries = 3
    Crawled = TRUE
    MaxFaults = 3
INVARIANTS
    CompletedIsImported
    CountsMatchJobs
PROPERTIES
    ImplementsBatchContract
    ProcessingEnds
CHECK_DEADLOCK FALSE
