\* Two devices that may be configured, and one the application adds itself.
SPECIFICATION Spec
CONSTANTS
    d1 = d1
    d2 = d2
    a1 = a1
    NULL = NULL
    Devices = {d1, d2}
    AppClients = {a1}
    Files <- MCFiles
INVARIANTS
    GoodDevicesTried
    KeptClientsUsable
    LeftOpenExplained
\* main() may exit, and after the destructor nothing is left to do.
CHECK_DEADLOCK FALSE
