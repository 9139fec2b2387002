\* One run, when processes we kill die: every playbook of one or two commands, four of three.
CONSTANTS
    a = a
    b = b
    c = c
    Labels = {a, b, c}
    Playbooks <- MCPlaybooks
SPECIFICATION KillableSpec
CHECK_DEADLOCK FALSE
INVARIANTS
    GateRespected
    NoReadyLeftWaiting
    WaitingHasHope
    RestartHasOneOwner
    StoppedIsQuiet
    FailedIsFinal
PROPERTIES
    NoSpawnAfterStop
    NothingRestartsByItself
    ImplementsPlaybookRun
    StopTerminates
    RestartSettles
    NobodyWaitsForever
