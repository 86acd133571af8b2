CONSTANTS
    Refs = {"d1", "d2", "w1"}
    Calls = {c1, c2, c3}
    NoTx = NoTx
    Miss = Miss
    CheckConstraint = TRUE
    Requests <- Duplicates
    InitialBalance = 1
    Faults = {}
SPECIFICATION Spec
INVARIANTS
    DuplicateDepositsIgnored
CHECK_DEADLOCK FALSE
