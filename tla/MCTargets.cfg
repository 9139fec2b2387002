\* Three checkouts of one repository that goes by two paths, one playbook in two
\* versions; one edit, one write of the daemon's, one restart, two operations waiting.
CONSTANTS
    m = m
    a = a
    b = b
    d1 = d1
    d2 = d2
    Repos = {m, a}
    Trees = {m, a, b}
    Lists <- MCLists
    Mains = {m}
    BaseName <- MCBaseName
    Playbooks = {"dev", "test"}
    Branches = {a, b}
    Definitions = {d1, d2}
    EnvOf <- MCEnvOf
    NoDefinition = NoDefinition
    Detached = Detached
    TargetEnvs <- MCTargetEnvs
    Worlds <- MCWorlds
    MaxWaiting = 2
SPECIFICATION Spec
CHECK_DEADLOCK FALSE
INVARIANTS
    SlotsApart
    OutdatedIsMarked
    EditsSurvive
