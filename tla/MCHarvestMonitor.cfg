SPECIFICATION Spec
CONSTANTS
    Floor = 2
    TopupAt = 6
    SurplusAt = 8
    DayCap = 8
    Day = 2
    MaxAge = 2
    Balances = {1, 4, 7, 9, 11}
    MaxTick = 3
    MaxProposals = 3
INVARIANT FloorKept
CHECK_DEADLOCK FALSE
