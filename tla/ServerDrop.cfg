\* The object is dropped, on either build.
CONSTANTS
    LoopCount = 1
    Shutters = {}
    Waiters = {}
    Droppers = {d1}
    AsyncConns = {}
    SyncConns = {b1}
    GilBuilds = {TRUE, FALSE}
SPECIFICATION FairSpec
PROPERTY
    DropCompletes
CHECK_DEADLOCK FALSE
