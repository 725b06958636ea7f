\* Backend failures and a restart, with two users competing for one sandbox
\* and two overlapping evictExpired.
SPECIFICATION Spec
CONSTANTS
    Sandboxes = {s1}
    NoSandbox = NoSandbox
    Users = {u1, u2}
    NoUser = NoUser
    Calls = {c1, c2}
    Timers = {t1, t2}
    MaxSandboxes = 1
    Ttl = 1
    BackendMayFail = TRUE
    MaxTime = 3
    MaxLogs = 1
    MaxRestarts = 1
SYMMETRY Symmetry
INVARIANTS
    StoreMirrorsMemory
    LiveVmIsKnown
    InFlightSound
    ApiAgrees
PROPERTIES
    EndedByOwnerOrTtl
    ImplementsLifecycle
CHECK_DEADLOCK FALSE
