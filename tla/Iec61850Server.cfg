\* Two initialisations: the second may come over a running server.
SPECIFICATION FairSpec
CONSTANTS
    h1 = h1
    h2 = h2
    h3 = h3
    h4 = h4
    NULL = NULL
    Handles = {h1, h2, h3, h4}
    MaxInits = 2
INVARIANTS
    UpdateUsesLiveServer
    StoppedIsClean
    DestructorReleases
PROPERTIES
    StopReturns
\* After the destructor nothing is left to do.
CHECK_DEADLOCK FALSE
