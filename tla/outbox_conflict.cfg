\* Is a conflict always somebody else's doing?
SPECIFICATION Spec
CONSTANTS
    c1 = c1  r1 = r1  r2 = r2
    Creations = {c1}
    N = 2
    Runs = {r1}
    MaxAttempts = 2
    MaxAdrift = 0

INVARIANTS
    ConflictIsForeign
