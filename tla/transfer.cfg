CONSTANTS
    Refs <- MCRefs
    NoTx = NoTx
    CheckConstraint = TRUE
    Calls = {c1, c2, c3}
    Requests <- MCRequests
    AmountOf <- MCAmountOf
    RetryRef <- MCRetryRef
    Providers <- MCProviders
    Notifying = {"paystack"}
    Fees = {0, 1}
    InitialBalance = 3
    Faults = {}
SPECIFICATION FairSpec
INVARIANTS
    LocksAccounted
    LocksCovered
    PaidOnce
PROPERTIES
    LocksDrain
CHECK_DEADLOCK FALSE
