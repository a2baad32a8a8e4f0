\* A creation is sent again while its delivery is active.
SPECIFICATION Spec
CONSTANTS
    s1 = s1  s2 = s2
    d1 = d1  d2 = d2  d3 = d3
    o1 = o1  o2 = o2
    u1 = u1
    clerk = clerk  agent = agent
    None = None
    Sessions = {s1, s2}
    DeliveryIds = {d1, d2}
    Orders = {o1}
    Actors = {clerk}
    Uuids = {u1}
SYMMETRY Symmetry
\* Every order may be closed and every id used up.
CHECK_DEADLOCK FALSE
PROPERTIES
    RetryIsNotRefused
