SPECIFICATION Spec
CONSTANTS
    People = {m1, m2}
    Feeders = {m1}
    Invites = {i1, i2}
    Requests = {q1, q2}
    FreeLimit = 2
    PremiumLimit = 3
    MaxAliens = 1
SYMMETRY MCRequestSymmetry
INVARIANT ErasureNeverRefused
CHECK_DEADLOCK FALSE
