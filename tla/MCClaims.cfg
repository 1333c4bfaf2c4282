CONSTANTS
    Bloggers = {b1}
    PRs = {p1, p2, p3}
    Wechats = {w1}
    Tx = {t1, t2}
    Nobody = Nobody
    MaxItems = 2
SPECIFICATION ClaimsSpec
INVARIANTS
    OnlyKnownCircles
PROPERTIES
    ImplementsRegisterContract
    TransferKeepsClaim
CHECK_DEADLOCK FALSE
