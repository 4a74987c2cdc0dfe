SPECIFICATION MCSpec
CONSTANTS
    Requests = {r1, r2}
    PassLimits <- MCPassLimits
    UploadLimit = 1
    Limit <- MCLimit
    Full = 1
    MinuteLen = 2
    HourLen = 2
    DayLen = 4
    MaxTime = 4
    MaxTrouble = 2
    MaxRefused = 0
    k1 = k1
    a1 = a1
    k2 = k2
    u1 = u1
    u2 = u2
    i1 = i1
    l1 = l1
    l2 = l2
    l3 = l3
    l4 = l4
    c1 = c1
    c2 = c2
    Species <- OneSpecies
    Standing <- OneSpecies
    Popular <- OneSpecies
    Matching <- SecondVersion
    InUse <- Nobody
    Readers <- OneActor
    Writers <- OneActor
    MaxVersion = 2
    MaxTrips = 1
    Kinds <- TwoSpecies
    Users <- TwoUsers
    Images <- OnePhoto
    Labels <- FourLabels
    Exact <- ByName
    Latin <- InLatin
    Part <- InPart
    Answers <- ItsAnswers
    Confirmations <- TwoConfirmations
SYMMETRY MCSymmetry
INVARIANTS LimitsHeld RankKept CatalogueInv ScansInv
