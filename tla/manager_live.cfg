\* Eviction under fairness: no symmetry, failures on, no restart.
SPECIFICATION FairSpec
CONSTANTS
    Sandboxes = {s1, s2}
    NoSandbox = NoSandbox
    Users = {}
    NoUser = NoUser
    Calls = {c1}
    Timers = {t1}
    MaxSandboxes = 0
    Ttl = 0
    BackendMayFail = TRUE
    MaxTime = 2
    MaxLogs = 1
    MaxRestarts = 0
INVARIANTS
    ClosedAfterOpened
PROPERTIES
    IdleSandboxEnds
CHECK_DEADLOCK FALSE
