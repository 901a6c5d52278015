SPECIFICATION PatientSpec
CONSTANTS
    s1 = s1
    s2 = s2
    plan1 = plan1
    plan2 = plan2
    Events <- McEvents
    Subscriptions <- McSubscriptions
    Tagged <- McTagged
    Plans <- McPlans
    Histories <- McHistories
    Pollers = {p1, p2}
    BatchSize = 2
    MaxTroubles = 1
    None = None
SYMMETRY McSymmetry
INVARIANTS
    NewestEventWins
    PaymentsAreAccounted
    EndedHasNoAccess
    OneInvoiceEach
    GoingLiveIsAnnounced
CHECK_DEADLOCK FALSE
