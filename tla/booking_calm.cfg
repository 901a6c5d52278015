SPECIFICATION CalmSpec
CONSTANTS
    None = None
    Clients = {c1, c2}
    Holds = {h1}
    Bookings = {b1, b2}
    Services = {"check"}
    Starts = {1, 2}
    Duration <- McDuration
    BufferBefore <- McBufferBefore
    BufferAfter <- McBufferAfter
    NeedsApproval <- McNeedsApproval
    MinimumNotice = 0
    MaximumAdvance = 2
    HoldTtl = 1
    RetentionAge = 1
    MaxTime = 2
    MaxVersion = 1
SYMMETRY McSymmetry
INVARIANTS
    LiveBookingHoldsItsSlot
    NoDoubleBooking
    UsableHoldIsConfirmable
PROPERTIES
    ImplementsDiary
CHECK_DEADLOCK FALSE
