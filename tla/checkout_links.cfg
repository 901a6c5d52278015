SPECIFICATION CalmSpec
CONSTANTS
    Links = {k1, k2, k3, k4}
    Plans = {starter, professional}
    Clients = {c1, c2, c3}
    None = None
SYMMETRY McSymmetry
INVARIANTS
    PaidOnce
    ConsumedMeansPaid
CHECK_DEADLOCK FALSE
