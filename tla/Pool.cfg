\* Two threads place requests at once; the counter wraps.
CONSTANTS
    LoopCount = 2
    Width = 3
    Schedulers = {s1, s2}
    MaxLoad = 2
SPECIFICATION FairSpec
INVARIANTS
    TypeOK
    NoIdleLoopPassedOver
PROPERTIES
    EveryLoopUsed
