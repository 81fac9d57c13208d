\* An update that finds nothing to fetch never ends.
CONSTANTS
    s1 = s1
    s2 = s2
    Stashes <- TwoStashes
    Characters <- OneCharacter
    MaxUpdates <- OneUpdate
    MaxChanges = 1
SPECIFICATION EitherFairSpec
PROPERTIES EveryUpdateFinishes
CHECK_DEADLOCK FALSE
