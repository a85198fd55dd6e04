\* Two sessions that share the cache; one through two switches, every fault.
CONSTANTS
    Records = {1, 2}
    Sessions = {s1, s2}
    Requests = {p1, p2}
    Costs = {1, 2}
    CostOf <- OwnCost
    None = None
    MaxRetry = 0
    InitialActive <- NoneOrFirstActive
    Faults = TRUE
    Rank <- ById
    InitialPins <- AnyPin
    CacheOn = TRUE
    MayOverlap = FALSE
    Forgetful = FALSE
    ReadFaults = TRUE
SPECIFICATION MCSpec
SYMMETRY Symmetry
VIEW View
INVARIANTS UserTypeOK FirstVisitReadsYourSwitch
PROPERTIES MissReadsYourSwitch PinHolds
CHECK_DEADLOCK FALSE
