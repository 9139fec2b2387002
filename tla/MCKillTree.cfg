\* Two trees killed in one batch, on either platform.
CONSTANTS
    k1 = k1
    k2 = k2
    Kids = {k1, k2}
SPECIFICATION FairSpec
CHECK_DEADLOCK FALSE
INVARIANTS
    ResolvedMeansGone
    NothingLeftUp
PROPERTIES
    KilledShellsExit
