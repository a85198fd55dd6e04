\* One pod, two emails, two roles of which one has no slug; two fields.
CONSTANTS
    Requests = {q1}
    Emails = {a, b}
    r1 = r1
    r2 = r2
    use = use
    Roles = {r1, r2}
    Features = {use}
    Catalog <- MCCatalog
    Unslugged = {r2}
    None = None
    NoRole = NoRole
    UserTtl = 1
    RoleTtl = 0
    Faults = TRUE
    MaxChanges = 2
    Fields = {f1, f2}
    f1 = f1
    f2 = f2
    CallsFail = TRUE
SPECIFICATION MCSpec
INVARIANTS PermissionTypeOK GrantsAreRecent StrictHidesTheActor SteadyRightsAreGranted AccessTypeOK GuardIsExact SiblingsAgree
SYMMETRY Symmetry
CHECK_DEADLOCK FALSE
