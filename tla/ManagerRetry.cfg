\* A request rejected once and sent again is answered but never delivered.
CONSTANTS
    Items <- OneItem
    TimingBucket = 1
    NormalBuffer = 0
    RetryAfter = 2
    ServerBucket = 1
    Outcomes = {"ok"}
    SoleClient = FALSE
    MaxRequests = 2
    MaxHits = 3
    MaxTime = 5
SPECIFICATION Spec
INVARIANTS FinishedIsDelivered
CHECK_DEADLOCK FALSE
