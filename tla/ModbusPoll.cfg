\* Lists of two and three points; blocks of more than four registers are
\* longer than one request may be.
SPECIFICATION PollFairSpec
CONSTANTS
    PointLists <- Lists
    MaxRead = 4
    NONE = NONE
    JUNK = JUNK
INVARIANTS
    RangeExact
    EveryPointAsked
    OneBlockStored
PROPERTIES
    PollEnds
