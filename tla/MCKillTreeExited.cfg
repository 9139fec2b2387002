\* The shell of a child may already have exited when the kill is asked for.
CONSTANTS
    k1 = k1
    k2 = k2
    Kids = {k1, k2}
SPECIFICATION Spec
CHECK_DEADLOCK FALSE
INVARIANTS
    EverythingSpawnedIsGone
