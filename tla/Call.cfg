\* Every kind of call on every path, with faults.
SPECIFICATION FairSpec
CONSTANTS
    MaxReqs = 1
    MaxResps = 1
    Sets <- MCSets
    Faults = {"cancel", "ms", "loss"}
INVARIANTS
    TypeOK
    StatusFaithful
    MetadataArrives
    ResponseMeansSuccess
PROPERTIES
    HeaderStable
    CallEnds
CHECK_DEADLOCK FALSE
