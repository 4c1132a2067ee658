CONSTANTS
    n1 = n1  n2 = n2  rest = rest  gateway = gateway
    Notifications = {n1, n2}
    RestSenders = {rest}
    GatewaySenders = {gateway}
    MaxAttempts = 2
    Lease = 1
    Delay <- MCDelay
    RetryAfters = {0, 2}
    MaxFaults = 1
    NoNote = NoNote
SPECIFICATION FairSpec
INVARIANTS
    PostedAtMostOnce
    StateTruthful
PROPERTIES
    OutcomeFinal
    Settles
CHECK_DEADLOCK FALSE
