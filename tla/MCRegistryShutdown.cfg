\* The same bounds, for what the documentation says of a clean shutdown.
CONSTANTS
    s1 = s1
    s2 = s2
    Slugs = {s1, s2}
    MaxRuns = 2
    MaxQueue = 2
SPECIFICATION Spec
CHECK_DEADLOCK FALSE
INVARIANTS
    CleanShutdownKills
