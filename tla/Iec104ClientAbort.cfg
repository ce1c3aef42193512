\* Stopping and destroying.
SPECIFICATION FairSpec
CONSTANTS
    MaxStarts = 1
INVARIANTS
    NeverAborts
\* A client that is destroyed does nothing more.
CHECK_DEADLOCK FALSE
