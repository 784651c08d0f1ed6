SPECIFICATION FairSpec
CONSTANTS
    Window = 4
    SendBuffer = 4
    Sizes = {1, 5}
    MaxSends = 3
    MaxMsgs = 2
INVARIANTS TypeOK CreditConserved NeverFalselyReset DeliveredInOrder TeardownSafe
PROPERTY Drains
CHECK_DEADLOCK FALSE
