\* Two sessions creating, advancing and canceling two orders that share a
\* product, beside other movements and entries.
SPECIFICATION Spec
CONSTANTS
    s1 = s1  s2 = s2
    o1 = o1  o2 = o2
    p1 = p1  p2 = p2
    shop = shop
    agent = agent  clerk = clerk
    u1 = u1
    None = None
    Sessions = {s1, s2}
    OrderIds = {o1, o2}
    Stores = {shop}
    Agents = {agent}
    Products = {p1, p2}
    Actors = {agent}
    Uuids = {}
    Quotes <- MCQuotes
    Targets = {"packed", "delivering", "delivered", "canceled"}
    InitStock <- MCInitStock
    MaxMoved <- MCMaxMoved
    MaxPosted <- MCMaxPosted
SYMMETRY Symmetry
INVARIANTS
    TypeOK
    StockMatchesLog
    NoNegativeStock
    CanceledIsReturned
PROPERTIES
    ImplementsAtomicOrders
