SPECIFICATION Spec
CONSTANTS
    Users = {u1, u2}
    Diaries = {d1}
    Members = {m1, m2}
    Invitations = {1}
    Roles = {"OWNER", "PROVIDER", "ASSISTANT"}
    Clients = {c1, c2}
    None = None
SYMMETRY McSymmetry
PROPERTIES
    TenantKeepsAnOwner
CHECK_DEADLOCK FALSE
