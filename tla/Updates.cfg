\* Releases appear while the program starts, asks, logs in and starts again.
CONSTANTS
    Newest = 3
    MaxChecks = 3
    MaxStarts = 2
SPECIFICATION Spec
INVARIANTS CheckerInv
PROPERTIES SkippedStaysSkipped
CHECK_DEADLOCK FALSE
