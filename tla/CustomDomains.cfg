CONSTANTS
    a1 = a1
    a2 = a2
    n1 = n1
    n2 = n2
    n3 = n3
    d1 = d1
    d2 = d2
    d3 = d3
    p1 = p1
    p2 = p2
    Nil = Nil
    Apps = {a1, a2}
    Names = {n1, n2, n3}
    Ids = {d1, d2, d3}
    Requests = {p1, p2}
    MaxPerApp = 2
SPECIFICATION DomainsSpec
SYMMETRY Symmetry
INVARIANTS
    DomainsTypeOK
    OneAppPerHost
    LossesAnnounced

    
CHECK_DEADLOCK FALSE
