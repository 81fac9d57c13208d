\* Nested loops inside nested loops and inside ReceiveReply: nothing is lost,
\* repeated or left waiting.
CONSTANTS
    Items <- HighItem
    TimingBucket = 1
    NormalBuffer = 0
    RetryAfter = 1
    ServerBucket = 1
    Outcomes = {"ok"}
    SoleClient = TRUE
    MaxRequests = 4
    MaxHits = 0
    MaxTime = 0
    Endpoints = {e1, e2}
    HeadCounts = FALSE
SPECIFICATION LimiterFairSpec
INVARIANTS LimiterInv OneInFlight
PROPERTIES EveryRequestComesBack
CHECK_DEADLOCK FALSE
