SPECIFICATION Spec
CONSTANTS
    c1 = c1
    c2 = c2
    c3 = c3
    old = old
    Names = {n1}
    Keys = {c1, c2, c3, old}
    Sha <- ShaOf
    Size <- SizeOf
    Quota = 3
    SetsKept = 1
    Requests = {r1, r2}
    MaxVersion = 2
    Nothing = nothing
SYMMETRY Symmetry
INVARIANTS
    ServedAreStored
    QuotaHolds
PROPERTIES
    LiveSetFixed
CHECK_DEADLOCK FALSE
