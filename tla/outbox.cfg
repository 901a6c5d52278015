SPECIFICATION FairSpec
CONSTANTS
    Events = {"booking", "invitation"}
    Secrets <- McSecrets
    Pollers = {p1, p2}
    BatchSize = 2
    MaxAttempts = 2
    Rows <- McRows
    MaxDeaths = 2
INVARIANTS
    ProcessedOwesNothing
    ParkedAfterAllAttempts
    OneHolder
PROPERTIES
    EveryEventSettles
CHECK_DEADLOCK FALSE
