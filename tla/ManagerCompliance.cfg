\* The only client of the policy stays within the windows of both items.
CONSTANTS
    Items <- TwoItems
    TimingBucket = 2
    NormalBuffer = 0
    RetryAfter = 3
    ServerBucket = 2
    Outcomes = {"ok", "error", "noheader"}
    SoleClient = TRUE
    MaxRequests = 4
    MaxHits = 2
    MaxTime = 6
SPECIFICATION Spec
INVARIANTS SoleClientInv Compliance
CHECK_DEADLOCK FALSE
