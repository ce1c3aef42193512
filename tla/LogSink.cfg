\* Files of three units, one kept; messages that fit, fill a file or exceed it.
SPECIFICATION Spec
CONSTANTS
    MaxSize = 3
    MaxFiles = 1
    Sizes = {1, 2, 4}
    MaxMsgs = 3
    MaxTime = 2
    MaxInterrupted = 2
    MaxFailures = 2
INVARIANTS
    SizeBounded
    FilesBounded
    OldestDeleted
PROPERTIES
    LossExplained
