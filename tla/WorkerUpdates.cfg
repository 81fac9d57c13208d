\* Updates of all, checked and selected tabs in both modes while the player
\* changes the tabs, with nested loops, restarts, crashes between two writes and
\* replies that cannot be used.
CONSTANTS
    s1 = s1
    s2 = s2
    Stashes <- TwoStashes
    Characters <- OneCharacter
    MaxUpdates <- Updates
    MaxChanges = 1
SPECIFICATION EitherSpec
SYMMETRY Alike
INVARIANTS WorkerInv
PROPERTIES UpdateIsWhole ItemsAreTheTabs FinishedIsAnswered RestartLosesNothing
CHECK_DEADLOCK FALSE
