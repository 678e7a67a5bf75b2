\* Two users at one tab with two calls in flight, through a reload.
SPECIFICATION FairSpec
CONSTANTS
    Users = {u1, u2}
    Calls = {c1, c2}
    NoUser = NoUser
    MaxPairs = 3
    MaxLoads = 1
INVARIANTS
    TypeOK
    SessionConsistent
PROPERTIES
    TokensKept
    CallsEnd
