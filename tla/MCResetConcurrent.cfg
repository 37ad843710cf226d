SPECIFICATION Spec
CONSTANTS
    r1 = r1
    r2 = r2
    r3 = r3
    r4 = r4
    u1 = u1
    a1 = a1
    a2 = a2
    Requests <- Four
    Inputs <- Contending
    MaxConcurrent = 3
    Members = {u1}
    Admins = {a1, a2}
    ResetIds = {1, 2, 3, 4}
    Initial = Initial
    Gone = Gone
    NoReset = NoReset
    Null = Null
    Nobody = Nobody
INVARIANTS TypeOK ApprovedPasswordIsShown DecisionIsNotified AllAdminsNotified DecidedOnce OnePendingPerUser
SYMMETRY Symmetric4
