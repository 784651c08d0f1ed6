SPECIFICATION Spec
CONSTANTS
    Sizes = {1}
    SendWin = 2
    RecvWin = 2
    CreditMod = 16
    PipeCap = 2
    MaxMsgs = 2
    Cancels = {"rcv"}
    ConnLoss = FALSE
INVARIANT EOFMeansComplete
CHECK_DEADLOCK FALSE
