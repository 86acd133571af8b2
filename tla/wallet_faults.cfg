CONSTANTS
    Refs = {"d1", "d2", "w1"}
    Calls = {c1, c2, c3}
    NoTx = NoTx
    Miss = Miss
    CheckConstraint = FALSE
    Requests <- AllRequests
    InitialBalance = 1
    Faults = {"error", "lost_reply", "crash"}
SYMMETRY CallSymmetry
SPECIFICATION Spec
INVARIANTS
    TypeOK
    DriftNeedsFailure
    LedgerFollowsHistory
PROPERTIES
    JournalSpec
CHECK_DEADLOCK FALSE
