SPECIFICATION Spec
CONSTANTS
    Doc = {n1,n2}
    User = {p, m1, m2, a}
    Manager = {m1, m2}
    Star = {a}
    NoOne = NoOne
    Request = {r1,r2}
    MaxEdits = 1
    MaxCreated = 1
SYMMETRY Alike
INVARIANTS
    TwoLevels
    PromotionIsTheDeal
PROPERTIES
    ImplementsDealContract
CHECK_DEADLOCK FALSE
