SPECIFICATION FairSpec
CONSTANTS
    Callers = {c1, c2}
    MaxDials = 2
INVARIANTS TypeOK NoMissedWake NoLeak CloseStatus DeadMuxFailsStreams
PROPERTY Reconnects
CHECK_DEADLOCK FALSE
