\* Two targets; at most three runs of each, and two operations waiting (a third
\* one when it is stopAll's).
CONSTANTS
    s1 = s1
    s2 = s2
    Slugs = {s1, s2}
    MaxRuns = 3
    MaxQueue = 2
SPECIFICATION FairSpec
CHECK_DEADLOCK FALSE
INVARIANTS
    NoUnreachableRun
    LastStopWins
    ShutdownKillsKnown
PROPERTIES
    StartsFollowStops
    ShutdownCompletes
