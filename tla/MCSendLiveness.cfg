CONSTANTS
    m1 = m1  r1 = r1  s1 = s1  s2 = s2  j1 = j1  j2 = j2
    None = None
    Messages = {m1}
    Requests = {r1}
    MsgsOf <- MCOneMessage
    DueTime <- MCAllNow
    MaxTime = 0
    Slots = {s1}
    Procs = {s1}
    ProcOf <- MCOneSlotEach
    Jobs = {j1}
    BatchSize = 1
SPECIFICATION FairSpec
PROPERTIES EventuallySettled
