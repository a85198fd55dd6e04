\* The instance of MCSetProfile.cfg: the shopper enters a postal code.
CONSTANTS
    o1 = o1
    o2 = o2
    c1 = c1
    c2 = c2
    c3 = c3
    r1 = r1
    r2 = r2
    r3 = r3
    Orgs = {o1, o2}
    Costs = {c1, c2, c3}
    Records = {r1, r2, r3}
    OrgOf <- TwoInOne
    CostOf <- OneEach
    None = None
    Modes = {"on", "removeB2B", "off"}
    MaxChanges = 2
    ClearCart = TRUE
    Tabled = {o1}
    Channeled = {o2}
    Regional <- RegionsOfOne
SPECIFICATION Spec
SYMMETRY Symmetry
VIEW View
INVARIANT OverwriteEmptiesRegion
CHECK_DEADLOCK FALSE
