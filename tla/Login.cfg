\* From the dialog to the main window and back, with two accounts.
CONSTANTS
    a1 = a1
    a2 = a2
    d1 = d1
    d2 = d2
    l1 = l1
    l2 = l2
    Users <- AccountNames
    Nobody = nobody
    Dirs <- DirNames
    Leagues <- LeagueNamesUsed
    NoLeague = noleague
    Lifetime = 3
    Buffer = 2
    RefreshLifetime = 4
    ReplyTime = 1
    MaxTime = 5
    MaxPages = 2
    MaxPosts = 2
    MaxStarts = 2
SPECIFICATION LoginSpec
INVARIANTS LoginInv Authorised TokenIsTheAccounts StoredFollowsToken
SYMMETRY Symmetry
CHECK_DEADLOCK FALSE
