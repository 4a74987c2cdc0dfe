SPECIFICATION MCSpec
CONSTANTS
    Loners = {p1, p2, nobody}
    FamilyTime = 1
    Devices = {p1, p2}
    Aquariums = {a1, a2}
    a1 = a1
    f1 = f1
    s1 = s1
    Fish = {f1}
    Schedules = {s1}
    FishOf <- MCFishOf
    Nowhere = nowhere
    Nobody = nobody
    Skew = 0
    Drift = 1
    RESTOps = {"update", "delete"}
    MaxTime = 2
    MaxPending = 1
SYMMETRY MCSymmetry
CHECK_DEADLOCK FALSE
INVARIANT RowsConsistent
PROPERTIES EditsKept TombstonesStay
