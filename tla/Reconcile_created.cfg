SPECIFICATION Spec
CONSTANTS
    Users = {1}
    Procs = {p}
    Free = free
    Plans = {free, monthly}
    Prefs = {off}
    Stamps = {s1, s2}
    NoStamp = never
    OverLimit = {1}
    MaxHistory = 1
    MaxCooldown = 0
PROPERTY CreatedCustomerNeverRevokes
