SPECIFICATION Spec
CONSTANTS
    u1 = u1
    u2 = u2
    ia = ia
    ga = ga
    gb = gb
    Users = {u1, u2}
    Tokens = {ia, ga, gb}
    OwnerOf <- MCOwners
    Apple = {ia}
    Changers = {u2}
    MaxPasses = 1
    MaxMishaps = 0
PROPERTY OptOutSilences
CHECK_DEADLOCK FALSE
