\* Two threads shut the loop down at once.
CONSTANTS
    Tasks = {t1}
    NoTask = NoTask
    Faults = {"alloc", "context", "enter", "call_soon", "loop"}
    Observed = {t1}
    MaxCancels = 1
    Leavers = {t1}
    Stoppers = {s1, s2}
SPECIFICATION Spec
INVARIANTS
    TypeOK
    AtMostOneResume
    GaugeExact
PROPERTIES
    SettledOnce
CHECK_DEADLOCK FALSE
