\* Points of both types, as server104Test() adds them.
SPECIFICATION Spec
CONSTANTS
    m1 = m1
    Masters = {m1}
    IOAs = {100, 200}
    Single = {200}
    Capacity = 2
    QueueSize = 2
    MaxVer <- MCMaxVer
    MaxStarts = 1
INVARIANTS
    InterrogationComplete
\* A server that is destroyed does nothing more.
CHECK_DEADLOCK FALSE
