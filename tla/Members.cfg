SPECIFICATION Spec
CONSTANTS
    Users = {u1, u2}
    Super = super
    Invites = {i1}
    Apps = {a1}
    Requests = {r1, r2}
    Nobody = nobody
SYMMETRY Symmetry
INVARIANTS
    AdminsLostByAccept
    LeasesFollowRoles
    OpenInvitesListed
    RevokedNeverGrants

    
CHECK_DEADLOCK FALSE
