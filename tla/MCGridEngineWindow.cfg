CONSTANTS
    MaxOrders = 2
    Size = 2
    Levels = 1
    MaxAnchor = 2
    MaxAttempts = 2
    MaxAge = 2
    MaxFaults = 1
SPECIFICATION Spec
PROPERTY
    WindowFillRecovered
CHECK_DEADLOCK FALSE
