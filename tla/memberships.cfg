SPECIFICATION SerialSpec
CONSTANTS
    Users = {u1, u2}
    Diaries = {d1}
    Members = {m1, m2}
    Invitations = {1, 2}
    Roles = {"OWNER", "PROVIDER", "ASSISTANT"}
    Clients = {c1, c2}
    None = None
SYMMETRY McSymmetry
INVARIANTS
    IndexesNeverRefuse
    LinksDemoteNobody
PROPERTIES
    LinksDeliver
    TenantKeepsAnOwner
CHECK_DEADLOCK FALSE
