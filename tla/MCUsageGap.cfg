SPECIFICATION FairSpec
CONSTANTS
    w1 = w1  r1 = r1
    Horizon = 2
    DayLength = 3
    Lookback = 9
    Workers = {w1}
    Runs = {r1}
    TopUpLimit = 2
    IngestLimit = 2
    MaxPasses = 2
    MaxFaults = 0
PROPERTIES
    GapsClose
