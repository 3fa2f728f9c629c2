\* Start, requests, shutdowns from two threads, and the drop of the object.
CONSTANTS
    LoopCount = 2
    Shutters = {u1}
    Waiters = {w1}
    Droppers = {d1}
    AsyncConns = {a1}
    SyncConns = {b1}
    GilBuilds = {TRUE, FALSE}
SPECIFICATION FairSpec
INVARIANTS
    TypeOK
    GraceUnlessOverlap
    ShutdownLeavesNothing
PROPERTIES
    ShutdownReturns
    
CHECK_DEADLOCK FALSE
