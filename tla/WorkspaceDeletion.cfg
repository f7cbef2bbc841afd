SPECIFICATION Spec
CONSTANTS
    p = p
    t = t
    Users = {a, b}
    Workspaces = {p, t}
    Personal = {p}
    Apps = {1, 2}
    Home <- HomeOf
    Attempts = 2
    Requests = {r1, r2}
    Nobody = nobody
SYMMETRY Symmetry
INVARIANTS
    EveryWorkspaceHasAdmin
    JoinStopsDeletion
PROPERTIES
    AccountTakesOnlyItsOwn
CHECK_DEADLOCK FALSE
