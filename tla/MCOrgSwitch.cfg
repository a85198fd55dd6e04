\* Two switches, overlapping or not, every fault, any initial flags.
CONSTANTS
    Records = {r1, r2, r3}
    Sessions = {s1}
    Requests = {p1, p2}
    Costs = {r1, r2, r3}
    CostOf <- OwnCost
    None = None
    MaxRetry = 1
    InitialActive <- AnyActive
    Faults = TRUE
SYMMETRY Symmetry
SPECIFICATION Spec
INVARIANTS TypeOK CleanSwitchSettles
PROPERTIES KeepsSomeActive
CHECK_DEADLOCK FALSE
