\* Does an edit overwrite a photo or an agent its author did not see?
SPECIFICATION Spec
CONSTANTS
    s1 = s1  s2 = s2
    i1 = i1  i2 = i2
    k1 = k1  k2 = k2
    None = None
    Kinds = {"product", "store", "contract", "promo", "user", "branch",
             "ticket", "enterprise", "price", "category", "segment",
             "template", "approval", "banner"}
    Sessions = {s1, s2}
    Ids = {i1, i2}
    KeysOf <- MCKeysOf
    Uuids = {u1}
    Days = {1, 2}
    Amounts = {10, 20}
    MaxVersion = 2
    MaxPrices = 3
SYMMETRY Symmetry
\* All rows may be made, edited as often as the bound allows and deleted.
CHECK_DEADLOCK FALSE
PROPERTIES
    LinksAreKept
