\* Two requests share the loop, and a shutdown.
CONSTANTS
    Tasks = {t1, t2}
    NoTask = NoTask
    Faults = {"alloc", "context", "enter", "call_soon", "loop"}
    Observed = {}
    MaxCancels = 0
    Leavers = {}
    Stoppers = {s1}
SPECIFICATION FairSpec
INVARIANTS
    NoLostWakeup
    StoppedMeansFinished
PROPERTIES
    ImplementsContract
    NotStarved
CHECK_DEADLOCK FALSE
