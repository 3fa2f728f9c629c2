\* shutdown() while another thread is in wait().
CONSTANTS
    LoopCount = 1
    Shutters = {u1}
    Waiters = {w1}
    Droppers = {}
    AsyncConns = {a1}
    SyncConns = {}
    GilBuilds = {FALSE}
SPECIFICATION Spec
INVARIANT
    GraceHonoured
CHECK_DEADLOCK FALSE
