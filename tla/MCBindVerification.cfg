SPECIFICATION Spec
CONSTANTS
    Callers = {b1, b2}
    Max = 1
    Window = 1
    NoRow = NoRow
    Passwords = {right, other}
    NoAccount = NoAccount
    MaxVersions = 3
    MaxRaises = 1
    Pods = {p1, p2}
    p1 = p1
    Ttl = 1
    PerUser = 1
    Burst = 1
    Refill = 1
    Nothing = Nothing
    MaxClock = 2
    MaxFaults = 1
SYMMETRY Symmetry
CONSTRAINT Regions
CHECK_DEADLOCK FALSE
INVARIANTS TypeOK WithinBudget SlotsAccounted NoIdenticalForward RowIsNewest
PROPERTIES SuccessIsCurrent InvalidIsTrue RevocationHolds
