SPECIFICATION FairSpec
CONSTANTS
    w1 = w1
    w2 = w2
    None = None
    Deliveries = {1}
    Slots = {w1}
    Gaps = 1
    MaxResends = 0
INVARIANT TypeOK
PROPERTIES
    EventuallyAnswered
CONSTRAINT EndpointStill
CHECK_DEADLOCK FALSE
