SPECIFICATION Spec
CONSTANTS
    Tasks = {"expirer","confirm","live","live2"}
    Kind <- MCKind
    Connection <- MCConnection
    CycleTasks = {}
    MaxWrites = 2
    MaxFaults = 2
INVARIANT ReturnedIsSaved
CHECK_DEADLOCK FALSE
