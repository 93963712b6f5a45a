SPECIFICATION Spec
CONSTANTS
    w1 = w1
    w2 = w2
    None = None
    Slots = {w1, w2}
    Deliveries = {1, 2}
    Gaps = 1
    MaxResends = 1
INVARIANTS
    TwiceOnlyIfSlipped
    VerdictTrue
    BudgetKept
    HealthTold
PROPERTIES
    OrderKept
SYMMETRY SlotSymmetry
CONSTRAINT Explored
CHECK_DEADLOCK FALSE
