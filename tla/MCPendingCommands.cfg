CONSTANTS
    c1 = c1  c2 = c2  k1 = k1  k2 = k2  w = w  d = d
    Commands = {c1, c2}
    WebHandlers = {w}
    DiscordHandlers = {d}
    Daemons = {k1, k2}
    Role <- MCLive
    Owner <- MCTwoLive
    TTL = 1
    MaxTime = 2
    MaxFaults = 1
    NoOne = NoOne
    NoTime = NoTime
    NoCommand = NoCommand
SPECIFICATION Spec
SYMMETRY MCSymmetry
INVARIANTS
    EffectAtMostOnce
    EffectWasApproved
    ClaimWithinTTL
PROPERTY
    DecisionStands
CHECK_DEADLOCK FALSE
