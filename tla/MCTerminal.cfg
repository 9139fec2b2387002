\* A session of the terminal interface, with the focus on each of its parts.
SPECIFICATION Spec
CONSTANTS
    a = a
    b = b
    c = c
    r = r
    q = q
    u = u
    out = out
    err = err
    Slugs = {a, b, c}
    RepoPath <- MCRepoPath
    Listings <- MCListings
    Sessions <- MCSessions
    Widths = {1}
    MaxGestures = 2
    MaxListings = 1
    Labels = {out, err}
    Chunks <- MCChunks
    Rows = 2
    Retain = 4
    Slack = 1
    MaxViews = 3
    MaxChunks = 3
    RepoLists <- MCRepoLists
    PlaybookOf <- MCPlaybookOf
    CommandsOf <- MCCommandsOf
    MaxOpened = 2
    MaxFlying = 2
INVARIANTS SeenIsStored PaneFollowsSelection FormsAgree
PROPERTY HoldsStill
CHECK_DEADLOCK FALSE
