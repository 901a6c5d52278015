SPECIFICATION Spec
CONSTANTS
    cut = cut  north = north  b1 = b1  b2 = b2  e1 = e1  e2 = e2  x1 = x1
    None = None
    New = New
    Services = {cut}
    Sites = {north}
    Bookings = {b1}
    Editors = {e1, e2}
    Exceptions = {x1}
    DayLength = 6
    Week = 2
    MaxGap = 2
    Step = 2
    Clock = {5, 8}
    Terms <- McTerms
    Zones <- McZones
    Weeks <- McWeeks
    Drafts <- McDrafts
SYMMETRY EditorSymmetry
INVARIANTS
    TypeOK
    StrandedWereExcused
    OffersAreCovered
    SlotsMatchReference
    EveryReadingResolves
PROPERTIES
    SavesBuildOnWhatWasRead
CHECK_DEADLOCK FALSE
