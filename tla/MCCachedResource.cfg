\* Two layers, every fault, any traffic.
CONSTANTS
    Pods = {p1}
    Calls = {c1}
    None = None
    Ttls = {0, 2}
    MemTtl = 2
    UseVBase = TRUE
    VBaseTtl = 2
    Timeout = 1
    Faults = TRUE
    Steady = FALSE
    MaxTime = 4
SPECIFICATION Spec
INVARIANTS TypeOK FreshBound
CHECK_DEADLOCK FALSE
