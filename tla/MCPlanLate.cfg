SPECIFICATION Spec
CONSTANTS
    Subs = {s1, s2}
    s1 = s1
    s2 = s2
    Paid = {pro}
    Free = free
    NoSub = NoSub
    MaxChanges = 3
    Tenants = {t1, t2}
    t1 = t1
    t2 = t2
    Handlers = {h1}
    Nobody = Nobody
    NoPlan = NoPlan
    NoJob = NoJob
    MaxFaults = 0
CONSTRAINT Plain
CHECK_DEADLOCK FALSE
INVARIANT AgreedIsOwed
