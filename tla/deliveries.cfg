\* Two requests at a time on two orders and three deliveries, one of them
\* sent again and again by two users with the same client_uuid.
SPECIFICATION Spec
CONSTANTS
    s1 = s1  s2 = s2
    d1 = d1  d2 = d2  d3 = d3
    o1 = o1  o2 = o2
    u1 = u1
    clerk = clerk  agent = agent
    None = None
    Sessions = {s1, s2}
    DeliveryIds = {d1, d2, d3}
    Orders = {o1, o2}
    Actors = {clerk, agent}
    Uuids = {u1}
SYMMETRY Symmetry
\* Every order may be closed and every id used up.
CHECK_DEADLOCK FALSE
INVARIANTS
    TypeOK
    OneActiveDelivery
    StockedIffDelivered
    EventsTellTheStory
