CONSTANTS
    Styles = {s1}
    InFile = {s1}
    BadImages = {}
    Payments = {p1}
    Orders = {o1}
    Keys = {k1, k2, k3}
    None = None
    Users = {u1, u2}
    Importer = Importer
    MaxFaults = 1
SPECIFICATION Spec
SYMMETRY Alike
INVARIANTS
    NoDeadLink
    NoStrayObject
    FilledOnce
CHECK_DEADLOCK FALSE
