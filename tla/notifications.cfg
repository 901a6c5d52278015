SPECIFICATION McSpec
CONSTANTS
    Notifications = {n1, n2}
    Senders = {s1, s2}
    Sweeps = {w1}
    BatchSize = 1
    Horizon = 1
    MaxAttempts = 2
    JobAttempts = 2
    MaxFaults = 1
    MaxWipes = 1
INVARIANTS
    SentWasDelivered
    OneSender
PROPERTIES
    EveryMessageSettles
CHECK_DEADLOCK FALSE
