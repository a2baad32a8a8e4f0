\* Two updates of a delivery, two runs side by side, a request that arrives
\* late.
SPECIFICATION Spec
CONSTANTS
    c1 = c1  r1 = r1  r2 = r2
    Creations = {}
    N = 2
    Runs = {r1, r2}
    MaxAttempts = 1
    MaxAdrift = 1
SYMMETRY Symmetry
INVARIANTS
    NothingIsDropped
    TransitionsInOrder
