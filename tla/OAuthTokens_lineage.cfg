CONSTANTS
    Codes = {c1}
    FreshIds = {r1, r2}
    Requests = {p1, p2}
    c1 = c1
    r1 = r1
    r2 = r2
    p1 = p1
    p2 = p2
    None = None
    Grace = 1
    MaxHops = 1
    RefreshTtl = 2
    CodeTtl = 1
    Keep = 0
    MaxTime = 3
SPECIFICATION Spec
CONSTRAINT EarlyRevocation
SYMMETRY Symmetry
INVARIANTS
    OneLiveRefresh
    LinksResolve
    BurntStaysBurnt
    ReuseHasCause
PROPERTIES
    SpentForGood
CHECK_DEADLOCK FALSE
