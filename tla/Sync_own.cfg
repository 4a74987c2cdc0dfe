SPECIFICATION MCSpec
CONSTANTS
    Loners = {nobody}
    FamilyTime = 2
    Devices = {p1}
    Aquariums = {a1}
    a1 = a1
    f1 = f1
    s1 = s1
    Fish = {f1}
    Schedules = {s1}
    FishOf <- MCFishOf
    Nowhere = nowhere
    Nobody = nobody
    Skew = 0
    Drift = 0
    RESTOps = {}
    MaxTime = 2
    MaxPending = 2
SYMMETRY MCSymmetry
CHECK_DEADLOCK FALSE
INVARIANT NewerInBatchWins
