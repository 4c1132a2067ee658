SPECIFICATION MCSpec
CONSTANTS
    Tasks = {"reconcile", "capital"}
    MaxClock = 2
    MaxNonce = 4
    MaxRetries = 1
    HistoryEnd = 2
    Retention = 2
    Horizon = 1
    Threshold = 1
    MaxGap = 2
    Seed = 2
    BackfillIntervals = {"hour"}
    Window = 10
    Slow = 1
    StreakAlert = 3
    Strikes = 3
    BackoffInitial = 2
    BackoffMax = 4
    Orders = {"o1", "o2"}
    Trades = {"t1", "t2", "t3"}
    OrderOf <- MCOrderOf
    Slots = {1, 2}
    Roles = {"quant", "news", "chat"}
    Processes = {"advise", "operator"}
    ProcessOf <- MCProcessOf
    Targets = 2
    DailyCap = 3
    SessionCap = 3
    Estimate = 2
    CallRetries = 1
    Day = 1
    Opinions = {"tighter", "wider", "silent"}
    Meaning <- MCMeaning
    Advised = {"btc"}
    Own = {"btc"}
    Initial = 10
    Sizes = {8}
    MaxChange = 20
    MaxSuggestions = 1
    Messages = {"m1", "m2"}
    Users = {"op", "guest"}
    Allowed = {"op"}
    Fixed <- MCFixed
    Clicks = {"c1", "c2"}
    Limit = 2
    TTL = 1
    TalkEnd = 1
    MaxLives = 2
    Providers = {"openai", "anthropic", "google", "ollama_cloud", "unlisted"}
    Price <- MCPrice
    Prompts = {0, 3}
    Usages <- MCUsages
    MaxTokens = 3
    Unit = 10
    Budget = 20
    MaxCalls = 2
    Symbols <- MCSymbols
    Prices <- MCPrices
    StartUsd = 7000
    StartBase <- MCStartBase
    SpacingPercent = 10
    Above = 1
    Below = 2
    TopSell = FALSE
    OrderSize = 2000
    Caps <- MCCaps
    MaxLossPercent = 0
    MakerFee = 1
    TakerFee = 2
    MaxSessionLoss = 300
    RetryEvery = 2
    MaxTicks = 4
    MaxDays = 2
INVARIANTS
    NoncesAccepted
    
    CyclesSound
    
    PricesKept

    
    
    
CHECK_DEADLOCK FALSE
