SPECIFICATION Spec
CONSTANTS
    Sizes = {0, 1, 5}
    SendWin = 3
    RecvWin = 4
    CreditMod = 16
    PipeCap = 2
    MaxMsgs = 3
    Cancels = {"snd", "rcv"}
    ConnLoss = TRUE
INVARIANTS TypeOK NoFalseReset NoCreditStall InOrder EOFComplete CreditConservation
PROPERTIES ClientStatusFinal ImplementsDelivery
CHECK_DEADLOCK FALSE
