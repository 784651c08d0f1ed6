SPECIFICATION FairSpec
CONSTANTS
    Calls = {c1, c2}
    MaxDials = 3
INVARIANTS TypeOK PhaseTruth OneSocket NoCallOnDeadMux
PROPERTIES BackoffKept GapEnds
CHECK_DEADLOCK FALSE
