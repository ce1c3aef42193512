\* Two points that are unknown until they are added, one of them written again;
\* two masters.
SPECIFICATION Spec
CONSTANTS
    m1 = m1
    m2 = m2
    Masters = {m1, m2}
    IOAs = {200, 201}
    Single = {200, 201}
    Capacity = 2
    QueueSize = 2
    MaxVer <- MCMaxVer
    MaxStarts = 1
SYMMETRY MasterSymmetry
INVARIANTS
    InterrogationFresh
    UniformComplete
PROPERTIES
    PeriodicMonotone
\* A server that is destroyed does nothing more.
CHECK_DEADLOCK FALSE
