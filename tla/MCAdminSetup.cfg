\* Two requests, two roles, two edits, flips or failures.
CONSTANTS
    buyer = buyer
    custom = custom
    m1 = m1
    m2 = m2
    Procs = {p1, p2}
    Slugs = {buyer, custom}
    Modules = {m1, m2}
    Features <- BothToBuyer
    Bootstrap <- EmptyBuyer
    None = None
    Unset = Unset
    MaxOps = 2
SPECIFICATION Spec
SYMMETRY Symmetry
INVARIANTS SetupTypeOK SyncsOnlyAdd FlipHolds
CHECK_DEADLOCK FALSE
