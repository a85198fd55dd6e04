\* A price table chosen, and a switch.
CONSTANTS
    Requests = {p1, p2}
    Ids = {i1, i2}
    Pairs = {a, b}
    Roles = {buyer}
    Tables = {t}
    NoRole = NoRole
    None = None
SPECIFICATION Spec
SYMMETRY Symmetry
PROPERTIES PreferencePersists
CHECK_DEADLOCK FALSE
