\* Liveness under faults, reconciliation reliable.
SPECIFICATION FairSpec
CONSTANTS
    Sandboxes = {s1, s2}
    Workers = {w1}
    NoWorker = NoWorker
    Calls = {c1}
    MaxPerWorker = 1
    ReconcileMayFail = FALSE
    MaxSignals = 1
    MaxFaults = 1
PROPERTIES
    CountIsCorrected
    Rediscovered
    OrphansAgeOut
