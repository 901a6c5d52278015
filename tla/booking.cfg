SPECIFICATION Spec
CONSTANTS
    None = None
    Clients = {c1, c2}
    Holds = {h1}
    Bookings = {b1}
    Services = {"visit"}
    Starts = {1, 2, 3}
    Duration <- McDuration
    BufferBefore <- McBufferBefore
    BufferAfter <- McBufferAfter
    NeedsApproval <- McNeedsApproval
    MinimumNotice = 1
    MaximumAdvance = 3
    HoldTtl = 1
    RetentionAge = 1
    MaxTime = 2
    MaxVersion = 2
SYMMETRY McSymmetry
INVARIANTS
    UsableHoldIsBacked
    NoLeakedSlot
    OfferedSlotIsClaimable
    AnnouncementsMatchTheBooking
PROPERTIES
    TerminalIsFinal
CHECK_DEADLOCK FALSE
