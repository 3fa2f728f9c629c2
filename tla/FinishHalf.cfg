\* Does a client ever see a half-finished task?
CONSTANTS
    LoopThread = loop
    Stoppers = {s1, s2}
    Nobody = nobody
    GilBuilds = {FALSE}
SPECIFICATION Spec
INVARIANT
    ResponseIsLast
CHECK_DEADLOCK FALSE
