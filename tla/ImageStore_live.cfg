SPECIFICATION MCSpec
CONSTANTS
    Requests = {r1}
    Photos = {user, fish}
    Avatars = {user}
    Keys = {a1, a2, f1}
    AvatarKeys = {a1, a2}
    NoKey = none
    Grace = 1
    BatchSize = 1
    MaxTrouble = 1
INVARIANT ImageInv
PROPERTIES RowsOutliveObjects GarbageCollected
