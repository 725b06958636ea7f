\* One sandbox, two destroys at once, a VM death or a restart anywhere, and a
\* rebuild of the template and of its snapshot under the running daemon.
SPECIFICATION NodeFairSpec
CONSTANTS
    Sandboxes = {s1}
    Versions = {v1, partial}
    Captures <- MCCaptures
    None = None
    Calls = {c1, c2}
    MaxFaults = 1
    Builders = {b1, b2}
    Partial = partial
    MaxChanges = 1
    MaxDeaths = 0
INVARIANTS
    StrandedOnlyByFailure
    SteadyRestoreIsSound
PROPERTIES
    HandleKeptWhileHeld
    CreateSettles
CHECK_DEADLOCK FALSE
