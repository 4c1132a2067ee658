CONSTANTS
    MaxOrders = 2
    Size = 2
    Levels = 2
    MaxAnchor = 2
    MaxAttempts = 2
    MaxAge = 2
    MaxFaults = 1
SPECIFICATION Spec
INVARIANTS
    FillTradesAccounted
    FillsRecordedTruly
    CounterNotRepeated
    AbandonmentLoud
PROPERTIES
    NewAnchorOnEmptyBook
CHECK_DEADLOCK FALSE
