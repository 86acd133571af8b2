CONSTANTS
    Refs <- MCRefs
    NoTx = NoTx
    CheckConstraint = TRUE
    Calls = {c1, c2}
    Requests <- MCRequests
    AmountOf <- MCAmountOf
    RetryRef <- MCRetryRef
    Providers <- MCProviders
    Notifying = {"paystack"}
    Fees = {0, 1}
    InitialBalance = 3
    Faults = {"error", "lost_reply"}
SYMMETRY CallSymmetry
SPECIFICATION Spec
INVARIANTS
    TypeOK
    LocksAccounted
    PaidOnce
    ChargedMeansPaid
CHECK_DEADLOCK FALSE
