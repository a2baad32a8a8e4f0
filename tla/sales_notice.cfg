\* Is a batch announced once a day?
SPECIFICATION Spec
CONSTANTS
    s1 = s1  s2 = s2
    x1 = x1  x2 = x2
    milk = milk  bread = bread
    None = None
    Sessions = {s1, s2}
    SaleIds = {x1, x2}
    Cashiers = {anna, bek}
    Uuids = {u1}
    Products = {milk, bread}
    Batches = {1, 2}
    ProductOf <- MCProductOf
    Goods <- MCGoods
    Expires <- MCExpires
    Carts <- MCCarts
    BlockDays = 1
    NotifyDays = 0
    LastDay = 3
SYMMETRY Symmetry
CHECK_DEADLOCK FALSE
INVARIANTS
    OneNoticePerDay
