\* Two executes in one guest, every cut of their streams, both timers.
SPECIFICATION FairSpec
CONSTANTS
    Calls = {c1, c2}
    None = None
    LineLen = 2
    HeaderLen = 2
    RequestLen = 1
    AnswerLen = 1
    Timeout = 1
    Grace = 1
INVARIANTS
    AnswerIsWhole
    TimeoutsAreHonest
PROPERTIES
    ImplementsRequestResponse
    CallSettles
CHECK_DEADLOCK FALSE
