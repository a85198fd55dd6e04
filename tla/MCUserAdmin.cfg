\* Three calls of any kind, one after the other or at once.
CONSTANTS
    Requests = {p1, p2, p3}
    Ids = {i1, i2}
    Pairs = {a, b}
    Roles = {buyer, approver}
    Tables = {t}
    NoRole = NoRole
    None = None
SPECIFICATION Spec
SYMMETRY Symmetry
INVARIANTS AdminTypeOK EditsHold OnePerPair
CHECK_DEADLOCK FALSE
