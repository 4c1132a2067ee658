SPECIFICATION SettleSpec
CONSTANTS
    c1 = c1  c2 = c2  k1 = k1  k2 = k2  w = w
    NoOne = NoOne
    NoTime = NoTime
    NoCommand = NoCommand
    Tasks = {"proposals", "commands", "terminal"}
    Kind <- MCKind
    Connection <- MCConnection
    CycleTasks = {"proposals", "commands"}
    MaxWrites = 2
    MaxFaults = 2
INVARIANTS
    ClaimsHold
PROPERTIES
    CommandSettles
    FillsSettle
CHECK_DEADLOCK FALSE
