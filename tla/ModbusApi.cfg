\* Three threads use the object; the loop gives up after two failed attempts.
SPECIFICATION FairSpec
CONSTANTS
    u1 = u1
    u2 = u2
    u3 = u3
    c1 = c1
    c2 = c2
    c3 = c3
    NULL = NULL
    Users = {u1, u2, u3}
    Ctxs = {c1, c2, c3}
    MaxRetries = 2
    Configs = {"ok", "badNew", "badSlave"}
INVARIANTS
    LockedCallsSafe
    NoOrphanContext
PROPERTIES
    PublishedCtxKept
    Reconnects
    StopEndsLoop
    ImplementsDeviceLink
\* After stop() and the destructor nothing is left to do.
CHECK_DEADLOCK FALSE
