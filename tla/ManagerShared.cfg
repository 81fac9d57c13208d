\* Other clients, rejected and repeated requests: the order of business.
CONSTANTS
    Items <- OneItem
    TimingBucket = 1
    NormalBuffer = 0
    RetryAfter = 2
    ServerBucket = 1
    Outcomes = {"ok"}
    SoleClient = FALSE
    MaxRequests = 3
    MaxHits = 3
    MaxTime = 4
SPECIFICATION FairSpec
INVARIANTS FirstComeFirstServed
PROPERTIES PenaltyRespected EveryRequestAnswered ImplementsQueue
CHECK_DEADLOCK FALSE
