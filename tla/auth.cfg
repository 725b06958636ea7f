\* Two requests, two keys, a cache of one entry that lives one tick.
SPECIFICATION Spec
CONSTANTS
    k1 = k1
    k2 = k2
    u1 = u1
    u2 = u2
    Keys = {k1, k2}
    Users = {u1, u2}
    OwnerOf <- MCOwnerOf
    NoKey = NoKey
    NoUser = NoUser
    Requests = {r1, r2}
    Credentials <- MCCredentials
    Limit = 1
    Ttl = 1
    Delay = 1
    MaxTime = 3
INVARIANTS
    RevokedKeyDies
    FirstCredentialWins
PROPERTIES
    RememberedIsKept
