\* Response metadata of gRPC servers, without faults.
SPECIFICATION Spec
CONSTANTS
    MaxReqs = 1
    MaxResps = 1
    Sets <- MCSets
    Faults = {"none"}
INVARIANT MetadataPropagated
CHECK_DEADLOCK FALSE
