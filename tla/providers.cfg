SPECIFICATION FairSpec
CONSTANTS
    paystack = paystack
    korapay = korapay
    vfd = vfd
    unknown = unknown
    r1 = r1
    r2 = r2
    r3 = r3
    c1 = c1
    c2 = c2
    c3 = c3
    Names = {paystack, korapay, vfd}
    Kind <- Clients
    Configs <- Settings
    Refs = {r1, r2, r3}
    Calls = {c1, c2, c3}
    Workloads <- Work
    Workers = 2
    MinBatch = 2
    MaxBatch = 2
    FailureThreshold = 2
    Nobody = Nobody
    MaxFaults = 1
INVARIANTS TypeOK AnswerIsTrue OneResultPerItem TokenFetchedOnce RecordedMeansTaken
PROPERTIES CallsReturn ProbeDecides
CHECK_DEADLOCK FALSE
