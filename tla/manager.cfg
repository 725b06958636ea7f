\* Two concurrent requests and the TTL timer over a backend that works: what
\* the interleavings alone can do.
SPECIFICATION Spec
CONSTANTS
    Sandboxes = {s1, s2, s3}
    NoSandbox = NoSandbox
    Users = {}
    NoUser = NoUser
    Calls = {c1, c2}
    Timers = {t1}
    MaxSandboxes = 1
    Ttl = 0
    BackendMayFail = FALSE
    MaxTime = 1
    MaxLogs = 1
    MaxRestarts = 0
SYMMETRY Symmetry
INVARIANTS
    TypeOK
    ForgottenOnlyByFault
    EventsAgree
    OvershootIsBounded
PROPERTIES
    NoResurrection
CHECK_DEADLOCK FALSE
