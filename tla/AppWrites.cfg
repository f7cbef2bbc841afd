SPECIFICATION Spec
CONSTANTS
    u1 = u1
    u2 = u2
    s1 = s1
    s2 = s2
    f1 = f1
    f2 = f2
    Users = {u1, u2}
    Sessions = {s1, s2}
    UserOf <- MCUserOf
    Files = {f1, f2}
    Attempts = 2
    MaxVersions = 3
    None = None
INVARIANTS
    LeaseKeepsUsersApart
PROPERTIES
    ImplementsHistory
CONSTRAINT Narrow
SYMMETRY Symmetry
CHECK_DEADLOCK FALSE
