\* Two buyers who drew the same client_uuid, one courier, two orders.
SPECIFICATION Spec
CONSTANTS
    s1 = s1  s2 = s2
    o1 = o1  o2 = o2
    None = None
    Sessions = {s1, s2}
    OrderIds = {o1, o2}
    Scopes = {ent, shop}
    Uuids = {u1}
    Couriers = {c1}
    MaxTold <- MCMaxTold
SYMMETRY Symmetry
\* Every order can reach its end.
CHECK_DEADLOCK FALSE
INVARIANTS
    AckedIsPlaced
    FillsFollowDeliveries
PROPERTIES
    ImplementsHandover
