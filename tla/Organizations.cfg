CONSTANTS
    Threads = {t1, t2}
    Users = {u1, u2}
    Orgs = {o1}
    Workspaces = {w1, w2}
    Invitations = {i1, i2}
    InvitedRoles = {"TEAMMATE"}
    None = None
SPECIFICATION FairSpec
INVARIANTS AdmitsOne StatusTells MembershipsAreGranted AuditIsTrue
PROPERTIES AcceptEnds
