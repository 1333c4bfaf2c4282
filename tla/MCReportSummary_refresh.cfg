SPECIFICATION FairSpec
CONSTANTS
    Day = {1, 2}
    FirstToday = 1
    LastToday = 2
    WindowDays = 1
    Near <- MCNear
    Change = {c1}
    NoOne = NoOne
    MaxImports = 1
    MaxPresses = 1
    MaxFaults = 1
INVARIANTS
    CoveredUsesCurrentRules
PROPERTIES
    TasksFreezeOnlyLate
    ImplementsSummaryContract
    WindowCatchesUp
