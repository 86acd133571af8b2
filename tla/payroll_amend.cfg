SPECIFICATION Spec
CONSTANTS
    r1 = r1
    e1 = e1
    e2 = e2
    c1 = c1
    c2 = c2
    Runs = {r1}
    Staff = {e1, e2}
    Calls = {c1, c2}
    Requests <- AllRequests
    Configs <- Businesses
    Borrowers = {e1}
    Pays = {1, 2}
    MinAmount = 2
    Monthly = 2
    Principal = 3
    NoTx = NoTx
    CheckConstraint = TRUE
    InitialBalance = 500
    InitialLocked = 0
    MaxAmends = 1
    MaxRetry = 1
    Faults = {}
    MaxFaults = 0
INVARIANT OneItemPerEmployee
SYMMETRY Symmetry
CHECK_DEADLOCK FALSE
