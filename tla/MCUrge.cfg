CONSTANTS
    r1 = r1
    r2 = r2
    scanner = scanner
    Req <- Slots
    Scanner = scanner
    NoReq = NoReq
    MaxUrges = 2
    MaxDay = 2
    MaxLost = 1
SPECIFICATION Spec
INVARIANTS
    CountMatchesRecords
    OneAutoUrgePerDay
PROPERTIES
    ImplementsReminderContract
    StaleTaskCloses
CHECK_DEADLOCK FALSE
