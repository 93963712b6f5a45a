SPECIFICATION Spec
CONSTANTS
    Callers = {b1}
    Max = 1
    Window = 1
    NoRow = NoRow
    Passwords = {right, other}
    NoAccount = NoAccount
    MaxVersions = 3
    MaxRaises = 0
    Pods = {p1}
    p1 = p1
    Ttl = 1
    PerUser = 1
    Burst = 1
    Refill = 1
    Nothing = Nothing
    MaxClock = 1
    MaxFaults = 1
CHECK_DEADLOCK FALSE
INVARIANT RowFollowsClerk
