\* Three requests, tokens rotated or renewed by a login once, one kill.
SPECIFICATION FairSpec
CONSTANTS
    r1 = r1  r2 = r2  r3 = r3
    None = None
    Requests = {r1, r2, r3}
    MaxPairs = 2
    MaxKills = 1
\* The requests of the app may all have ended.
CHECK_DEADLOCK FALSE
INVARIANTS
    TokenPresentedOnce
PROPERTIES
    RefreshEnds
