CONSTANTS
    Refs <- MCRefs
    NoTx = NoTx
    CheckConstraint = TRUE
    Calls = {c1, c2}
    Requests <- MCRequests
    AmountOf <- MCAmountOf
    RetryRef <- MCRetryRef
    Providers <- MCProviders
    Notifying = {"paystack"}
    Fees = {0, 1}
    InitialBalance = 3
    Faults = {"error"}
SPECIFICATION Spec
INVARIANTS
    NoDoubleUnlock
CHECK_DEADLOCK FALSE
