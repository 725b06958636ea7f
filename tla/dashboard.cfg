\* One sandbox and one key, two fetches under way together, two changes from
\* outside and one fault.
SPECIFICATION FairSpec
CONSTANTS
    Boxes = {b1}
    Keys = {k1}
    Calls = {c1, c2}
    MaxChanges = 2
    MaxFaults = 1
INVARIANTS
    QuietListIsCurrent
PROPERTIES
    ListCatchesUp
