CONSTANTS
    Codes = {c1, c2}
    FreshIds = {r1}
    Requests = {p1, p2}
    r1 = r1
    p1 = p1
    p2 = p2
    c1 = c1
    c2 = c2
    None = None
    Grace = 0
    MaxHops = 1
    RefreshTtl = 2
    CodeTtl = 1
    Keep = 0
    MaxTime = 0
SPECIFICATION LiveSpec
CONSTRAINT NoRevokeConnection
INVARIANTS
    OnlyReuseRevokes

    
CHECK_DEADLOCK FALSE
