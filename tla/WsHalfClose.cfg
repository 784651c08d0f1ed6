SPECIFICATION Spec
CONSTANTS
    Window = 4
    SendBuffer = 4
    Sizes = {1, 5}
    MaxSends = 2
    MaxMsgs = 2
INVARIANT HalfCloseLast
CHECK_DEADLOCK FALSE
