SPECIFICATION Spec
CONSTANTS
    r1 = r1
    r2 = r2
    r3 = r3
    NoReq = NoReq
    Req <- ThreeRequests
    Quotes = {0, 2}
    Items = {1}
    Pays = {0, 2, 3}
    MaxExtra = 1
    LegacyBackfill = FALSE
INVARIANTS
    NoteExplainsDifference
    InactiveHasNoOpenDoc
    OnlyRejectionsMeet
PROPERTIES
    FilledIsFrozen
    ImplementsFeeContract
CHECK_DEADLOCK FALSE
