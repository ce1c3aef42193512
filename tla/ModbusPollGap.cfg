SPECIFICATION PollFairSpec
CONSTANTS
    PointLists <- TwoBlockLists
    MaxRead = 125
    NONE = NONE
    JUNK = JUNK
INVARIANTS
    StoredOwnRegisters
