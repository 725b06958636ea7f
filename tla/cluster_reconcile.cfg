\* A reconciliation fails.
SPECIFICATION FairSpec
CONSTANTS
    Sandboxes = {s1}
    Workers = {w1}
    NoWorker = NoWorker
    Calls = {c1}
    MaxPerWorker = 1
    ReconcileMayFail = TRUE
    MaxSignals = 1
    MaxFaults = 2
PROPERTIES
    Rediscovered
