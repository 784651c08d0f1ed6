SPECIFICATION FairSpec
CONSTANTS
    Sizes = {1, 2}
    SendWin = 1
    RecvWin = 1
    CreditMod = 16
    PipeCap = 2
    MaxMsgs = 3
    Cancels = {}
    ConnLoss = FALSE
PROPERTY EndWakesSend
CHECK_DEADLOCK FALSE
