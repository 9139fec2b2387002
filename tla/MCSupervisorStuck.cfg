\* Liveness of one run: a killed process may survive the kill.
CONSTANTS
    a = a
    b = b
    c = c
    Labels = {a, b, c}
    Playbooks <- MCLivePlaybooks
SPECIFICATION FairSpec
CHECK_DEADLOCK FALSE
PROPERTIES
    StopTerminates
