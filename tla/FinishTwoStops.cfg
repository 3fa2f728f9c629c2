\* finish on the loop thread races two stop() calls.
CONSTANTS
    LoopThread = loop
    Stoppers = {s1, s2}
    Nobody = nobody
    GilBuilds = {TRUE, FALSE}
SPECIFICATION FairSpec
INVARIANTS
    TypeOK
    LastUnlessRaced
    GaugeLeads
    NothingLeftBehind

    
CHECK_DEADLOCK FALSE
