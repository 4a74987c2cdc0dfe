SPECIFICATION MCSpec
CONSTANTS
    Users <- BothUsers
    PushTokens <- AllTokens
    OwnerOf <- Owners
    Apple <- AppleTokens
    Changers <- OneChanger
    MaxPasses <- One
    Devices <- BothDevices
    Tokens <- ThreeTokens
    Resets <- OneReset
    MaxVersion <- One
    Runs <- ThreeRuns
    Remote <- Bucket
    Interval <- One
    Retentions <- OneTick
    MaxAtOnce <- Two
    MaxClock <- Two
    Poisoned <- Nobody
    MaxChanges <- Three
    FewMishaps <- One
    Workers <- BothWorkers
    Builds <- BothBuilds
    Jobs <- BothJobs
    MaxMishaps <- Two
    u1 = u1
    u2 = u2
    ia = ia
    ga = ga
    gb = gb
    d1 = d1
    d2 = d2
    w1 = w1
    w2 = w2
    o1 = o1
    o2 = o2
INVARIANTS PushInv SessionInv BackupInv RecordTrue ExpiryInv
CHECK_DEADLOCK FALSE
