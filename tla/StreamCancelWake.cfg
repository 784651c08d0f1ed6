SPECIFICATION FairSpec
CONSTANTS
    Sizes = {1}
    SendWin = 1
    RecvWin = 1
    CreditMod = 16
    PipeCap = 2
    MaxMsgs = 2
    Cancels = {"snd", "rcv"}
    ConnLoss = FALSE
PROPERTY CancelWakesSend
CHECK_DEADLOCK FALSE
