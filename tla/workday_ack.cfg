\* Does an applied check-out always have its time?
SPECIFICATION Spec
CONSTANTS
    q1 = q1  q2 = q2
    Requests = {q1, q2}
    MaxOps = 3
    MaxDay = 2
    MaxId = 2
    MaxFailed = 1
SYMMETRY Symmetry
INVARIANTS
    AppliedOutIsClosed
