\* Any sequence of start(), stop() and destruction with three starts.
SPECIFICATION FairSpec
CONSTANTS
    MaxStarts = 3
INVARIANTS
    WorkerNeverBlocks
    NoEventAfterDestroy
    UnjoinedOnlyAfterLoss
PROPERTIES
    EndsForAReason
    OpenIsStarted
    LossEndsWorker
    StopReturns
\* A client that is destroyed does nothing more.
CHECK_DEADLOCK FALSE
