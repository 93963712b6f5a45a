SPECIFICATION FairSpec
CONSTANTS
    w1 = w1  r1 = r1
    Horizon = 5
    DayLength = 3
    Lookback = 4
    Workers = {w1}
    Runs = {r1}
    TopUpLimit = 2
    IngestLimit = 1
    MaxPasses = 2
    MaxFaults = 1
INVARIANTS
    TypeOK
    MeteredIsSent
    ShippedReachedPolar
    BilledOnce
    SurplusIsOvercharge
PROPERTIES
    EventuallyShipped
    HeadIsMetered
