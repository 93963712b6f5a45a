CONSTANTS
    m1 = m1  r1 = r1  s1 = s1  s2 = s2  j1 = j1  j2 = j2
    None = None
    Messages = {m1}
    Requests = {r1}
    MsgsOf <- MCOneMessage
    DueTime <- MCAllLater
    MaxTime = 1
    Slots = {s1, s2}
    Procs = {s1, s2}
    ProcOf <- MCOneSlotEach
    Jobs = {j1, j2}
    BatchSize = 1
SPECIFICATION Spec
SYMMETRY JobSymmetry
INVARIANTS TypeOK DuplicateOnlyIfSlipped VerdictMatchesProvider BilledOnlyIfSent
PROPERTIES VerdictStands HoldStopsMail KeepsPromise
