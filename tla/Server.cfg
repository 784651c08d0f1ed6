SPECIFICATION FairSpec
CONSTANTS
    Opens = 2
    MaxStreams = 1
    CtrlCap = 1
    PipeCap = 1
    Deadlines = {1}
INVARIANTS TypeOK SlotOwned OneHandler
PROPERTIES Answered HandlersReleased
CHECK_DEADLOCK FALSE
