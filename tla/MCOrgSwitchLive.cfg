\* Every switch ends: one switch over three documents, all active at first.
CONSTANTS
    Records = {r1, r2, r3}
    Sessions = {s1}
    Requests = {p1}
    Costs = {r1, r2, r3}
    CostOf <- OwnCost
    None = None
    MaxRetry = 3
    InitialActive = {{r1, r2, r3}}
    Faults = TRUE
SPECIFICATION FairSpec
PROPERTIES SwitchEnds
CHECK_DEADLOCK FALSE
