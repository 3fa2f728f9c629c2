\* shutdown() races the start of wait().
CONSTANTS
    LoopCount = 1
    Shutters = {u1}
    Waiters = {w1}
    Droppers = {}
    AsyncConns = {a1}
    SyncConns = {}
    GilBuilds = {FALSE}
SPECIFICATION FairSpec
PROPERTY
    WaitReturns
CHECK_DEADLOCK FALSE
