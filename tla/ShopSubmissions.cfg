\* Submissions, edits, refreshes and index updates in any order, with errors.
CONSTANTS
    Contents <- Shops
    Nothing = "empty"
    MaxThreads = 2
    MaxChains = 2
    MaxEdits = 2
    MaxIndexings = 3
    MaxRetries = 1
SPECIFICATION ShopFairSpec
INVARIANTS SubmissionInv
PROPERTIES SubmissionIsWhole SubmissionEnds
CHECK_DEADLOCK FALSE
