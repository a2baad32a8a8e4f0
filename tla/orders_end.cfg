\* Two sessions whose orders share both products or only the account;
\* an agent and a clerk send one client_uuid again and again, with Redis
\* answering, failing or forgetting, and transactions that roll back.
SPECIFICATION FairSpec
CONSTANTS
    s1 = s1  s2 = s2
    o1 = o1  o2 = o2
    p1 = p1  p2 = p2
    shop = shop
    agent = agent  clerk = clerk
    u1 = u1
    None = None
    Sessions = {s1, s2}
    OrderIds = {o1, o2}
    Stores = {shop}
    Agents = {agent}
    Products = {p1, p2}
    Actors = {agent, clerk}
    Uuids = {u1}
    Quotes <- LiveQuotes
    Targets = {"canceled"}
    InitStock <- LiveInitStock
    MaxMoved <- LiveMaxMoved
    MaxPosted <- LiveMaxPosted
\* Creations that roll back use up the order ids.
CHECK_DEADLOCK FALSE
INVARIANTS
    AccountMatchesLedger
    OneOrderPerUuid
    AckedOrderExists
PROPERTIES
    EveryRequestEnds
