CONSTANTS
    Rows = {r1}
    Bodies = {x, y}
    Req = {q1, q2}
    NoHolder = NoHolder
    MaxBulk = 2
    MaxLost = 1
SPECIFICATION BulkSpec
INVARIANTS
    RowIsCreatedOnce
PROPERTIES
    CooperationHadClaim
CHECK_DEADLOCK FALSE
