CONSTANTS
    MaxOrders = 2
    Size = 2
    Levels = 2
    MaxAnchor = 1
    MaxAttempts = 2
    MaxAge = 2
    MaxFaults = 1
SPECIFICATION Spec
PROPERTY
    CounterFires
CHECK_DEADLOCK FALSE
