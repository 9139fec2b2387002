\* Two clients; daemon 1 ran before, two more may run; one process is
\* killed and one daemon asked to stop.
CONSTANTS
    c1 = c1
    c2 = c2
    Clients = {c1, c2}
    Daemons = {1, 2, 3}
    LockAttempts = 2
    MaxCrashes = 1
    MaxStops = 1
SPECIFICATION Spec
CHECK_DEADLOCK FALSE
INVARIANTS
    OneDaemonWhenCalm
    OrphansStayOnRecord
PROPERTIES
    WaiterGetsOn
