SPECIFICATION ConflictsSpec
CONSTANTS
    Fields = {f1, f2, f3}
    Statistics = {f3}
    Values = {v1, v2}
    Empty = Empty
    Batches = {b1, b2}
    Users = {u1}
    None = None
    Sheets <- MCSheets
    MaxConf = 2
    MaxRows = 2
    MaxEdits = 1
SYMMETRY Alike
INVARIANTS
    OnlyCarriedFieldsLose
    OnlyClaimsMeet
PROPERTY
    NoBlindWrite
CHECK_DEADLOCK FALSE
