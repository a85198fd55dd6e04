\* Two pods, read all the time, nothing fails or takes time.
CONSTANTS
    Pods = {p1, p2}
    Calls = {c1, c2}
    None = None
    Ttls = {3}
    MemTtl = 3
    UseVBase = TRUE
    VBaseTtl = 3
    Timeout = 0
    Faults = FALSE
    Steady = TRUE
    MaxTime = 12
SYMMETRY Symmetry
SPECIFICATION Spec
INVARIANTS SteadyBound
CHECK_DEADLOCK FALSE
