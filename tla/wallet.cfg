CONSTANTS
    Refs = {"d1", "d2", "w1"}
    Calls = {c1, c2, c3}
    NoTx = NoTx
    Miss = Miss
    CheckConstraint = TRUE
    Requests <- AllRequests
    InitialBalance = 1
    Faults = {}
SPECIFICATION FairSpec
INVARIANTS
    DriftIsLogged
    LedgerReconciles
PROPERTIES
    DepositsLand
    CacheConverges
CHECK_DEADLOCK FALSE
