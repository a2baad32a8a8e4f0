\* An order and an update, and fairness.
SPECIFICATION FairSpec
CONSTANTS
    c1 = c1  r1 = r1  r2 = r2
    Creations = {c1}
    N = 1
    Runs = {r1}
    MaxAttempts = 2
    MaxAdrift = 0

PROPERTIES
    EveryOpSettles
