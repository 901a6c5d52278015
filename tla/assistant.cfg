SPECIFICATION McSpec
CONSTANTS
    Clients = {c1, c2}
    Actions = {a1, a2}
    Reservations = {r1, r2}
    Estimate = 1
    Costs <- McCosts
    Allowance = 2
    MaxTurns = 1
    None = None
SYMMETRY McSymmetry
INVARIANTS
    ConfirmedOnce
    OneLiveOffer
    WithinAllowance
    SpendIsRecorded
    BookedIsRemembered
