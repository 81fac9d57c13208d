\* Downloads cut short and resumed in two directories, logins and first updates.
CONSTANTS
    Files <- TwoFiles
    Dirs = {"d1", "d2"}
    MaxVersion = 2
    MaxInits = 2
SPECIFICATION StartupFairSpec
INVARIANTS StartupInv FilesAreThemselves ReadyIsCurrent
PROPERTIES UpdateHasItems ItemsGetLoaded RequestInTimeIsServed
CHECK_DEADLOCK FALSE
