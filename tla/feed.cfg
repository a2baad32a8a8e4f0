\* Two writers, a page of two events, one entity the user may not see.
SPECIFICATION FairFeedSpec
CONSTANTS
    e1 = e1  e2 = e2  e3 = e3  s2 = s2
    w1 = w1  w2 = w2
    r1 = r1  r2 = r2
    None = None
    Entities = {e1, e2, e3}
    StoreOf <- MCStoreOf
    Writers = {w1, w2}
    Pulls = {r1}
    Limit = 2
    MaxSeq = 4
INVARIANTS
    MissedOnlyWhenLate
PROPERTIES
    CopyNeverGoesBack
    EventuallyFresh
