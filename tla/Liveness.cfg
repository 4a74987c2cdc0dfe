SPECIFICATION FairSpec
CONSTANTS
    w1 = w1
    w2 = w2
    nobody = nobody
    e1 = e1
    d1 = d1
    d2 = d2
    s1 = s1
    s2 = s2
    t1 = t1
    t2 = t2
    u1 = u1
    u2 = u2
    k1 = k1
    o1 = o1
    o2 = o2
PROPERTIES EventuallyAcked LogsSettle TruthReached EventuallyFresh OldEventsGo
CHECK_DEADLOCK FALSE
