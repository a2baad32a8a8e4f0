\* Two runs that overlap, pages of one event.
SPECIFICATION FeedSpec
CONSTANTS
    e1 = e1  e2 = e2  e3 = e3  s2 = s2
    w1 = w1  w2 = w2
    r1 = r1  r2 = r2
    None = None
    Entities = {e1, e2, e3}
    StoreOf <- MCStoreOf
    Writers = {w1, w2}
    Pulls = {r1, r2}
    Limit = 1
    MaxSeq = 3
INVARIANTS
    NothingBelowCursorIsAbsent
