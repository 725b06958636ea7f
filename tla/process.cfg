\* Two sandboxes, two executes, of one sandbox or of both, and their destroys.
SPECIFICATION FairSpec
CONSTANTS
    Sandboxes = {s1, s2}
    Calls = {c1, c2}
    None = None
    Empty = Empty
    Mixed = Mixed
INVARIANTS
    RunsItsCode
    DestroyedStaysRemoved
PROPERTIES
    ExecuteSettles
CHECK_DEADLOCK FALSE
