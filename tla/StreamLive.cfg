SPECIFICATION FairSpec
CONSTANTS
    Sizes = {1, 3}
    SendWin = 4
    RecvWin = 2
    CreditMod = 16
    PipeCap = 2
    MaxMsgs = 3
    Cancels = {}
    ConnLoss = FALSE
INVARIANT BacklogCeiling
PROPERTIES SendResumes ResetReachesSender
CHECK_DEADLOCK FALSE
