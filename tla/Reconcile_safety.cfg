SPECIFICATION MCSpec
CONSTANTS
    Users = {1, 2}
    Procs = {p, q}
    Free = free
    Plans = {free, monthly}
    Prefs = {on, off}
    Stamps = {s1, s2, s3, s4}
    NoStamp = never
    OverLimit = {1}
    MaxHistory = 3
    MaxCooldown = 2
    Entitlements <- SetsOfEntitlements
    Purchases <- SetsOfPurchases
    Promotional <- PromoOnly
    Production <- InProduction
    MaxNow <- Two
SYMMETRY MCStampSymmetry
INVARIANTS RowsShowHistory ProposalsCurrent NoLockCycle PremiumHasNoDowngradeMarks AnswersRead
PROPERTIES CooldownHeld ImplementsLedger AccessOnlyEnds
