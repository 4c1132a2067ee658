SPECIFICATION LiveSpec
CONSTANTS
    MaxBook = 2
    Window = 2
    Strikes = 2

    
PROPERTIES
    NoOrderPastTheCap
    NoCloudedReanchor
    LossEndsSession
    LastWordIsTrue
    ServesAgain
    ClaimSettles
CHECK_DEADLOCK FALSE
