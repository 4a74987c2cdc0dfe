SPECIFICATION MCSpec
CONSTANTS
    d1 = d1
    d2 = d2
    s1 = s1
    s2 = s2
    t1 = t1
    t2 = t2
    c1 = c1
    f1 = f1
    l1 = l1
    v1 = v1
    m1 = m1
    m2 = m2
    m3 = m3
    i1 = i1
    i2 = i2
    q1 = q1
    q2 = q2
    p1 = p1
    p2 = p2
    n1 = n1
    n2 = n2
    b1 = b1
    b2 = b2
    x1 = x1
    x2 = x2
    g1 = g1
    e1 = e1
    e2 = e2
    e3 = e3
    u1 = u1
    u2 = u2
    a1 = a1
    w = w
    Devices <- BothDevices
    Schedules <- BothSchedules
    Standing <- OneStanding
    Times <- BothTimes
    TimeOf <- SameTime
    Erasable <- OneStanding
    Online <- OnlyD2
    Forms <- SomeForms
    OwnPlans <- OnlyD1
    Clients <- OneClient
    Items <- SomeRows
    KindOf <- RowKinds
    IdOf <- RowIds
    Writers <- OneClient
    PageSize = 1
    SendsETag <- OneClient
    Never <- NeverSynced
    MaxClock = 1
    MaxWrites <- SomeWrites
    People <- ThreePeople
    Feeders <- OneFeeder
    Invites <- BothInvites
    Requests <- BothRequests
    FreeLimit = 2
    PremiumLimit = 3
    MaxAliens = 1
    Phones <- BothPhones
    Edits <- StreakAndBadge
    Scores <- SomePoints
    Readers <- OneReader
    MaxDay = 2
    Keepers <- BothPeople
    Aquariums <- TwoAquariums
    Fish <- OneFish
    OwnerOf <- OwnerOfEach
    FirstOnes <- FirstAquarium
    Guests <- OneGuest
    Tasks <- BothTasks
    WhoOf <- WhoOfEach
    Lists <- OneBatch
    Pictured <- OneFish
    MaxPhoto = 1
    Events <- ThreeEvents
    Users <- OneUser
    UserOf <- TheirUsers
    Born <- TheirAges
    AnonymizeAfter <- One
    Retain <- Two
    BatchSize <- Two
    Admins <- OneAdmin
    Worker = w
    MaxNow <- Four
    MaxMishaps <- One
SYMMETRY Symmetry
INVARIANTS FeedingInv DeltaInv FamilyInv ProfileInv AccessInv
PROPERTIES  NothingTooEarly
CHECK_DEADLOCK FALSE
