\* One request with its cancel/uncancel calls and done callback, and a shutdown.
CONSTANTS
    Tasks = {t1}
    NoTask = NoTask
    Faults = {"alloc", "context", "enter", "call_soon", "loop"}
    Observed = {t1}
    MaxCancels = 2
    Leavers = {t1}
    Stoppers = {s1}
SPECIFICATION FairSpec
INVARIANTS
    DeferredThrowWaits
    FinishedIsComplete
    CoroutineUnwound
PROPERTIES
    CancelNotLost
    ShutdownCompletes
    DoneCallbackRuns
CHECK_DEADLOCK FALSE
