CONSTANTS
    p1 = p1  p2 = p2  p3 = p3
    Proposals <- MCProposals
    Deposits <- MCDeposits
    Executors = {e1, e2}
    ClaimIds = {c1, c2, c3}
    Amount <- MCAmount
    Created <- MCCreated
    DailyCap = 2
    Window = 1
    MaxAge = 2
    MaxSends = 2
    MaxTime = 3
    NoProposal = NoProposal
    NoClaim = NoClaim
    Databases = {"live"}
    MinInterval = 1
    Keep = 2
    Horizon = 1
    UpkeepEnd = 3
    MaxEntries = 6
    Orders = {"o1", "o2"}
    OrderOf <- MCOrderOf
    PageSize = 2
    MaxPages = 3
    Limit <- MCLimit
    Wanted <- MCWanted
    Daemons = {"live", "web"}
    Legacy <- MCLegacy
    Times = {1}
    MaxCopies = 2
    Symbols = {"btc", "eth"}
    ReminderAfter = 1
    SessionsEnd = 1
SPECIFICATION MCSpec
SYMMETRY MCSymmetry
INVARIANTS
    AtMostOnePayout
    PayoutHasLiveClaim
    ReportsTruthful
    CapHolds
    
    WalksSound
    MigrationSound
    StateKept
PROPERTY
    ImplementsLedger
CHECK_DEADLOCK FALSE
