SPECIFICATION Spec
CONSTANTS
    c1 = c1
    c2 = c2
    c3 = c3
    b1 = b1
    b2 = b2
    u1 = u1
    u2 = u2
    e1 = e1
    e2 = e2
    k1 = k1
    k2 = k2
    d1 = d1
    l1 = l1
    t1 = t1
    v1 = v1
    v2 = v2
    s2 = s2
    r1 = r1
    ann = ann
    amy = amy
    eve = eve
    zoe = zoe
    joe = joe
    old = old
    new = new
    link = link
    bank1 = bank1
    bank2 = bank2
    Nothing = Nothing
    Calls = {c1, c2, c3}
    Rows0 <- Tables
    Workloads <- Deactivating
    Configs <- Settings
    MaxFaults = 0
    NigerianBrackets <- Nigerian
    GhanaianBrackets <- Ghanaian
    MinimumWage = 7
    MaxRentRelief = 50
    SsnitCap = 100
CHECK_DEADLOCK FALSE
INVARIANT DeactivatedExcluded
