\* Two workers, two calls, and a fault anywhere.
SPECIFICATION Spec
CONSTANTS
    Sandboxes = {s1}
    Workers = {w1, w2}
    NoWorker = NoWorker
    Calls = {c1, c2}
    MaxPerWorker = 1
    ReconcileMayFail = TRUE
    MaxSignals = 1
    MaxFaults = 1
SYMMETRY Symmetry
INVARIANTS
    OneHome
    RequestsSound
    FleetAgrees
PROPERTIES
    RouteKeptWhileHosted
    ImplementsPlacement
