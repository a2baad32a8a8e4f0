\* One ticket, two administrators.
SPECIFICATION Spec
CONSTANTS
    s1 = s1  s2 = s2
    i1 = i1  i2 = i2
    k1 = k1  k2 = k2
    None = None
    Kinds = {"ticket"}
    Sessions = {s1, s2}
    Ids = {i1}
    KeysOf <- MCKeysOf
    Uuids = {}
    Days = {1}
    Amounts = {10}
    MaxVersion = 6
    MaxPrices = 0
CHECK_DEADLOCK FALSE
PROPERTIES
    ClosedIsTerminal
