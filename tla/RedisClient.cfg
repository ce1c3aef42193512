\* One key, a number and a text, up to two pipelined commands unanswered.
SPECIFICATION FairSpec
CONSTANTS
    k1 = k1
    n1 = n1
    t1 = t1
    NONE = NONE
    Keys = {k1}
    Vals = {n1, t1}
    Numbers = {n1}
    MaxPipeline = 2
INVARIANTS
    FaultsExplained
    OneContext
    ReplyOwn
    AckHonest
PROPERTIES
    Recovers
\* After a fault nothing more happens.
CHECK_DEADLOCK FALSE
